----------------------------- MODULE CommandJob -----------------------------
(***************************************************************************)
(* The commands that make a job of their own: a crawl, a check, a plan, a  *)
(* hunt.  Each is a list of statements over the job row, the rows of its   *)
(* actions, what it saves, and the numbered events of the job; a person    *)
(* may decide about the actions meanwhile, and notes that in the same      *)
(* events.  No command has a transaction, few have a catch.                *)
(***************************************************************************)
EXTENDS Naturals, Sequences, FiniteSets

CONSTANTS
    Procs,  \* processes of a command; the job of one has its name
    People, \* processes of `actions approve`, `block` and `run`
    Nothing,
    MaxDecisions, MaxFaults \* bounds

VARIABLES
    kind,     \* the command of a process
    job,      \* the status of its row
    todo,     \* the statements still to come
    ended,    \* how the process ended
    rows,     \* the statuses of the actions it queued
    verdicts, \* what the policy said of each
    results,  \* a hunt: what it says of each tool
    lost,     \* the work of the command, or of a tool, threw
    saved,    \* how many artifacts it has written
    events,   \* workflow_events: job, number, writer, status, order of the insert
    noting,   \* between the SELECT and the INSERT of an event
    shared,   \* jobs of which two noted an event at once, for the properties
    deciding, \* between the SELECT and the UPDATE of a person's decision
    decided,  \* how often people decided about the actions of a job
    overtaken,\* actions updated after they had changed, for the properties
    faults

queue == <<rows, verdicts, overtaken>>
log   == <<events, noting, shared>>
vars  == <<kind, job, todo, ended, queue, results, lost, saved, log, deciding, decided, faults>>

---------------------------------------------------------------------------
(* The commands.                                                           *)

CrawlElsewhere  == <<"create", "propose", "save", "verdict">>
Browser         == <<"create", "propose", "save", "verdict">>
Desktop         == <<"create", "propose", "save", "verdict">>
ToolsRun        == <<"create", "propose", "save", "verdict">>
Reproduce       == <<"save", "create", "propose", "save", "verdict">>
Crawl           == <<"create", "planOrPause", "running", "work", "save", "save", "completed">>
Check           == <<"create", "planOrPause", "running", "work", "save", "completed">>
Javascript      == <<"create", "planOrPause", "running", "work", "save", "completed">>
Research        == <<"create", "plan", "save", "verdict">>
AgentRun        == <<"create", "plan", "save", "completed">>
AgentPlan       == <<"create", "save", "plan", "plan", "completed">>
McpCall         == <<"create", "running", "call", "completed">>
McpSessionOf    == <<"create", "running", "call", "completed">>
EvidenceRecord  == <<"create", "work", "save", "completed">>
HuntRecon       == <<"create", "running", "note", "save", "tool", "tool", "sum", "note">>
HuntPlaybook    == <<"create", "running", "save", "propose", "propose", "save", "completed", "note">>
HuntPlaybookLive ==
    <<"create", "running", "save", "propose", "propose", "work", "save", "save", "completed", "note">>

Scripts ==
    [crawlElsewhere |-> CrawlElsewhere, browser |-> Browser, desktop |-> Desktop,
     toolsRun |-> ToolsRun, reproduce |-> Reproduce, crawl |-> Crawl, check |-> Check,
     js |-> Javascript, research |-> Research, agentRun |-> AgentRun, agentPlan |-> AgentPlan,
     mcpCall |-> McpCall, mcpSession |-> McpSessionOf, evidence |-> EvidenceRecord,
     recon |-> HuntRecon, playbook |-> HuntPlaybook, playbookLive |-> HuntPlaybookLive]

Kinds == DOMAIN Scripts

\* They complete only where nothing is left to decide.
Strict == Kinds \ {"agentRun", "agentPlan", "playbook", "playbookLive", "recon"}
Mcp    == {"mcpCall", "mcpSession"}

Artifacts(p) == Cardinality({i \in DOMAIN Scripts[kind[p]] : Scripts[kind[p]][i] = "save"})

Init ==
    /\ kind \in [Procs -> Kinds]
    /\ job = [p \in Procs |-> "none"]
    /\ todo = [p \in Procs |-> Scripts[kind[p]]] /\ ended = [p \in Procs |-> "no"]
    /\ rows = [p \in Procs |-> <<>>] /\ verdicts = [p \in Procs |-> <<>>]
    /\ results = [p \in Procs |-> <<>>] /\ lost = [p \in Procs |-> FALSE]
    /\ saved = [p \in Procs |-> 0]
    /\ events = {} /\ noting = [x \in Procs \cup People |-> Nothing] /\ shared = {}
    /\ deciding = [x \in People |-> Nothing] /\ decided = [p \in Procs |-> 0]
    /\ overtaken = {} /\ faults = 0

---------------------------------------------------------------------------
(* JobManager, a call as one step: nobody else writes the row of this job. *)
(* ActionQueue, whose calls are a SELECT and an UPDATE by id.              *)

JobMay(from, to) ==
    \/ from = to
    \/ from = "queued"  /\ to \in {"running", "paused", "failed", "completed"}
    \/ from = "running" /\ to \in {"paused", "failed", "completed"}
    \/ from = "paused"  /\ to \in {"running", "failed", "completed"}

RowMay(from, to) ==
    \/ from = to
    \/ from = "pending"  /\ to \in {"approved", "blocked", "failed"}
    \/ from = "approved" /\ to \in {"executed", "blocked", "failed"}

Verdicts == {"allow", "require", "block"}
Queued(v) == CASE v = "allow" -> "approved" [] v = "require" -> "pending" [] v = "block" -> "blocked"

\* Mutant: what is refused is not queued.
EnqueueUnlessBlocked(p, v) ==
    /\ rows' = IF v = "block" THEN rows ELSE [rows EXCEPT ![p] = Append(@, Queued(v))]
    /\ verdicts' = [verdicts EXCEPT ![p] = Append(@, v)] /\ UNCHANGED overtaken

Enqueue(p, v) == /\ rows' = [rows EXCEPT ![p] = Append(@, Queued(v))]
                 /\ verdicts' = [verdicts EXCEPT ![p] = Append(@, v)]
                 /\ UNCHANGED overtaken

Last(p) == Len(rows[p])

\* The UPDATE of a row that was read as `from`, whatever it is by now.
SetRow(p, i, from, to) ==
    /\ rows' = [rows EXCEPT ![p][i] = to] /\ UNCHANGED verdicts
    /\ overtaken' = IF rows[p][i] = from THEN overtaken ELSE overtaken \cup {<<p, i>>}

---------------------------------------------------------------------------
(* WorkflowEventStore.record.                                              *)

\* Mutant: the number is that of the last event.
NextSequenceStale(p) == Cardinality({e \in events : e.job = p})

NextSequence(p) ==
    LET numbers == {e.number : e \in {d \in events : d.job = p}}
    IN  IF numbers = {} THEN 1 ELSE 1 + CHOOSE n \in numbers : \A m \in numbers : m =< n

BeginNote(x, p, status) ==
    /\ noting' = [noting EXCEPT ![x] = [job |-> p, number |-> NextSequence(p), status |-> status]]
    /\ shared' = IF \E y \in DOMAIN noting \ {x} : noting[y] # Nothing /\ noting[y].job = p
                 THEN shared \cup {p} ELSE shared
    /\ UNCHANGED events

FinishNote(x) ==
    /\ noting[x] # Nothing
    /\ events' = events \cup
          {[job |-> noting[x].job, number |-> noting[x].number, by |-> x,
            status |-> noting[x].status,
            order |-> Cardinality({e \in events : e.job = noting[x].job}) + 1]}
    /\ noting' = [noting EXCEPT ![x] = Nothing]
    /\ UNCHANGED <<kind, job, todo, ended, queue, results, lost, saved, shared, deciding, decided,
                   faults>>

---------------------------------------------------------------------------
(* The statements of a command.                                            *)

At(p, what) == /\ ended[p] = "no" /\ noting[p] = Nothing
               /\ todo[p] # <<>> /\ Head(todo[p]) = what
               /\ UNCHANGED <<kind, deciding, decided, faults>>

Rest(p) == Tail(todo[p])
Goes(p, rest) == todo' = [todo EXCEPT ![p] = rest] /\ UNCHANGED ended

\* The statements of a hunt whose exceptions are those of the tool.
Tried == {"execute", "mark", "marked", "miss", "missed"}

\* What a catch does about an exception: the commands of MCP fail the job that
\* they set running, a hunt fails the action of the tool; else there is none.
Catch(p) == IF kind[p] \in Mcp /\ job[p] = "running" /\ Head(todo[p]) # "catch" THEN <<"catch">>
            ELSE IF Head(todo[p]) \in Tried THEN <<"fail">> \o Rest(p)
            ELSE <<>>

Throws(p) == /\ todo' = [todo EXCEPT ![p] = Catch(p)]
             /\ ended' = IF Catch(p) = <<>> THEN [ended EXCEPT ![p] = "threw"] ELSE ended
             /\ UNCHANGED job

\* The error of the command is thrown on.
Rethrow(p) ==
    /\ At(p, "catch") /\ JobMay(job[p], "failed")
    /\ job' = [job EXCEPT ![p] = "failed"]
    /\ todo' = [todo EXCEPT ![p] = <<>>] /\ ended' = [ended EXCEPT ![p] = "threw"]
    /\ UNCHANGED <<queue, results, lost, saved, log>>

Create(p) == /\ At(p, "create") /\ Goes(p, Rest(p))
             /\ job' = [job EXCEPT ![p] = "queued"]
             /\ UNCHANGED <<queue, results, lost, saved, log>>

SetStatus(p, status) ==
    /\ At(p, status) /\ JobMay(job[p], status) /\ Goes(p, Rest(p))
    /\ job' = [job EXCEPT ![p] = status]
    /\ UNCHANGED <<queue, results, lost, saved, log>>

\* enqueue with the verdict of a plan: a refusal does not throw here.
Propose(p) ==
    /\ At(p, "propose") /\ Goes(p, Rest(p))
    /\ \E v \in Verdicts : Enqueue(p, v)
    /\ UNCHANGED <<job, results, lost, saved, log>>

\* Mutant: a plan that is not blocked is complete.
SettledLoosely(v) == IF v = "block" THEN "failed" ELSE "completed"

\* What the command makes of the verdict on its only action.
Settled(v) == CASE v = "block" -> "failed" [] v = "allow" -> "completed" [] v = "require" -> "paused"

Verdict(p) ==
    LET v == verdicts[p][Last(p)]
    IN  /\ At(p, "verdict") /\ JobMay(job[p], Settled(v))
        /\ job' = [job EXCEPT ![p] = Settled(v)]
        /\ todo' = [todo EXCEPT ![p] = <<>>]
        /\ ended' = IF v = "block" THEN [ended EXCEPT ![p] = "refused"] ELSE ended
        /\ UNCHANGED <<queue, results, lost, saved, log>>

\* Mutant: the command waits for the approval.
PlanWaiting(p, pauses) ==
    /\ At(p, IF pauses THEN "planOrPause" ELSE "plan")
    /\ \E v \in Verdicts :
          /\ Enqueue(p, v)
          /\ IF v = "block" THEN Throws(p)
             ELSE /\ Goes(p, IF v = "require" THEN <<"approved">> \o Rest(p) ELSE Rest(p))
                  /\ UNCHANGED job
    /\ UNCHANGED <<results, lost, saved, log>>

\* planAllowedAction: a block is queued and thrown.  The commands that do the
\* work themselves pause when a person has to approve it, and end.
Plan(p, pauses) ==
    /\ At(p, IF pauses THEN "planOrPause" ELSE "plan")
    /\ \E v \in Verdicts :
          /\ Enqueue(p, v)
          /\ IF v = "block" THEN Throws(p)
             ELSE /\ Goes(p, IF v = "require" /\ pauses THEN <<"paused">> ELSE Rest(p))
                  /\ UNCHANGED job
    /\ UNCHANGED <<results, lost, saved, log>>

Work(p, what) ==
    /\ At(p, what)
    /\ \/ Goes(p, Rest(p)) /\ UNCHANGED <<job, lost>>
       \/ Throws(p) /\ lost' = [lost EXCEPT ![p] = TRUE]
    /\ UNCHANGED <<queue, results, saved, log>>

Save(p) == /\ At(p, "save") /\ Goes(p, Rest(p))
           /\ saved' = [saved EXCEPT ![p] = @ + 1]
           /\ UNCHANGED <<job, queue, results, lost, log>>

---------------------------------------------------------------------------
(* A hunt: runHuntRecon goes on with the next tool whatever one does.      *)

Says(p, result, rest) == /\ results' = [results EXCEPT ![p] = Append(@, result)]
                         /\ Goes(p, rest)

\* A tool is planned; with --live, one that needs no review and has an approved
\* executable is run.
Tool(p) ==
    /\ At(p, "tool")
    /\ \/ Says(p, "skipped", Rest(p)) /\ UNCHANGED queue
       \/ Enqueue(p, "block") /\ Says(p, "blocked", Rest(p))
       \/ Enqueue(p, "require") /\ Says(p, "pending", Rest(p))
       \/ /\ Enqueue(p, "allow")
          /\ \/ \E result \in {"planned", "skipped"} : Says(p, result, Rest(p))
             \/ Goes(p, <<"execute">> \o Rest(p)) /\ UNCHANGED results
    /\ UNCHANGED <<job, lost, saved, log>>

\* runner.execute: it ends well, ends badly, or throws.
Execute(p) ==
    /\ At(p, "execute")
    /\ \/ Goes(p, <<"mark">> \o Rest(p)) /\ UNCHANGED lost
       \/ /\ \E what \in {"miss", "fail"} : Goes(p, <<what>> \o Rest(p))
          /\ lost' = [lost EXCEPT ![p] = TRUE]
    /\ UNCHANGED <<job, queue, results, saved, log>>

\* A call of the queue: the SELECT, and its check; a row that is there already
\* is left alone.
Looks(p, what, then, to) ==
    /\ At(p, what)
    /\ \/ rows[p][Last(p)] = to /\ Says(p, to, Rest(p)) /\ UNCHANGED job
       \/ /\ rows[p][Last(p)] # to /\ RowMay(rows[p][Last(p)], to)
          /\ Goes(p, <<then>> \o Rest(p)) /\ UNCHANGED <<job, results>>
       \/ ~RowMay(rows[p][Last(p)], to) /\ Throws(p) /\ UNCHANGED results
    /\ UNCHANGED <<queue, lost, saved, log>>

\* And the UPDATE.  What a hunt runs was approved when it looked.
Puts(p, what, to) ==
    /\ At(p, what)
    /\ SetRow(p, Last(p), "approved", to) /\ Says(p, to, Rest(p))
    /\ UNCHANGED <<job, lost, saved, log>>

\* markExecuted; where it throws, the catch fails the action instead.
Mark(p) == Looks(p, "mark", "marked", "executed") \/ Puts(p, "marked", "executed")

\* fail, for a tool that ended badly or in the catch: there it may throw in its
\* turn, and nobody catches that.
FailTool(p) == \/ Looks(p, "miss", "missed", "failed") \/ Puts(p, "missed", "failed")
               \/ Looks(p, "fail", "failed", "failed") \/ Puts(p, "failed", "failed")

Said(p, what) == \E i \in DOMAIN results[p] : results[p][i] \in what

Summary(p) == IF Said(p, {"failed"}) THEN "failed"
              ELSE IF Said(p, {"pending", "planned", "skipped"}) THEN "paused" ELSE "completed"

Sum(p) == /\ At(p, "sum") /\ JobMay(job[p], Summary(p)) /\ Goes(p, Rest(p))
          /\ job' = [job EXCEPT ![p] = Summary(p)]
          /\ UNCHANGED <<queue, results, lost, saved, log>>

\* The first event of a hunt says that it runs, the last how it ended; a hunt
\* that paused says completed.
Note(p) ==
    /\ At(p, "note") /\ Goes(p, Rest(p))
    /\ BeginNote(p, p, CASE job[p] = "running" -> "running" [] job[p] = "failed" -> "failed"
                         [] OTHER -> "completed")
    /\ UNCHANGED <<job, queue, results, lost, saved>>

Return(p) ==
    /\ ended[p] = "no" /\ todo[p] = <<>> /\ noting[p] = Nothing
    /\ ended' = [ended EXCEPT ![p] = "returned"]
    /\ UNCHANGED <<kind, job, todo, queue, results, lost, saved, log, deciding, decided, faults>>

\* A statement fails, or the process is stopped, which nobody catches.
Fault(p) ==
    /\ faults < MaxFaults /\ faults' = faults + 1
    /\ ended[p] = "no" /\ todo[p] # <<>> /\ todo[p] # Scripts[kind[p]]
    /\ \/ noting[p] = Nothing /\ Throws(p)
       \/ /\ todo' = [todo EXCEPT ![p] = <<>>] /\ ended' = [ended EXCEPT ![p] = "stopped"]
          /\ UNCHANGED job
    /\ noting' = [noting EXCEPT ![p] = Nothing]
    /\ UNCHANGED <<kind, queue, results, lost, saved, events, shared, deciding, decided>>

Command(p) ==
    \/ Create(p) \/ Propose(p) \/ Verdict(p) \/ Save(p)
    \/ (\E status \in {"running", "paused", "completed"} : SetStatus(p, status))
    \/ Plan(p, TRUE) \/ Plan(p, FALSE) \/ Work(p, "work") \/ Work(p, "call") \/ Rethrow(p)
    \/ Tool(p) \/ Execute(p) \/ Mark(p) \/ FailTool(p) \/ Sum(p) \/ Note(p)
    \/ FinishNote(p) \/ Return(p)

---------------------------------------------------------------------------
(* A person approves, blocks or runs an action, and the job gets an event. *)

\* Decisions about the actions of a job, those under way too.
Begun(p) == decided[p] + Cardinality({x \in People : deciding[x] # Nothing /\ deciding[x].job = p})

\* The SELECT of a call of the queue, and its check; an approval or a block that
\* is there already is only noted.
Decide(x) ==
    /\ deciding[x] = Nothing /\ noting[x] = Nothing
    /\ \E p \in Procs, to \in {"approved", "blocked", "executed", "failed"} : \E i \in DOMAIN rows[p] :
          /\ Begun(p) < MaxDecisions /\ RowMay(rows[p][i], to)
          /\ \/ /\ rows[p][i] # to
                /\ deciding' = [deciding EXCEPT ![x] =
                                   [job |-> p, action |-> i, from |-> rows[p][i], to |-> to]]
                /\ UNCHANGED <<decided, log>>
             \/ /\ rows[p][i] = to /\ to \in {"approved", "blocked"}
                /\ decided' = [decided EXCEPT ![p] = @ + 1]
                /\ BeginNote(x, p, to) /\ UNCHANGED deciding
    /\ UNCHANGED <<kind, job, todo, ended, queue, results, lost, saved, faults>>

\* The UPDATE, and the event.
Settle(x) ==
    LET d == deciding[x]
    IN  /\ d # Nothing
        /\ SetRow(d.job, d.action, d.from, d.to)
        /\ deciding' = [deciding EXCEPT ![x] = Nothing]
        /\ decided' = [decided EXCEPT ![d.job] = @ + 1]
        /\ BeginNote(x, d.job, d.to)
        /\ UNCHANGED <<kind, job, todo, ended, results, lost, saved, faults>>

Next == \/ \E p \in Procs : Command(p) \/ Fault(p)
        \/ \E x \in People : Decide(x) \/ Settle(x) \/ FinishNote(x)

\* A command that has begun goes on; nobody has to decide anything.
Spec == Init /\ [][Next]_vars /\ \A p \in Procs : WF_vars(Command(p))

---------------------------------------------------------------------------

Statuses == {"queued", "running", "paused", "failed", "completed"}

\* Jobs, actions and events keep their types.
TypeOK ==
    /\ kind \in [Procs -> Kinds] /\ job \in [Procs -> Statuses \cup {"none"}]
    /\ ended \in [Procs -> {"no", "returned", "refused", "threw", "stopped"}]
    /\ \A p \in Procs : /\ Len(rows[p]) = Len(verdicts[p])
                        /\ \A i \in DOMAIN rows[p] : verdicts[p][i] \in Verdicts
                        /\ saved[p] =< Artifacts(p)
    /\ \A e \in events : e.job \in Procs /\ e.number \in Nat
    /\ decided \in [Procs -> Nat] /\ faults \in 0 .. MaxFaults

\* What a job row says was so.  A completed job saved all its command saves
\* and, where the command waits for approvals, queued nothing that was refused
\* or had to wait; a failed one has a refused action, or work that failed; a
\* paused one met an action that it did not carry out; and one that is left
\* queued or running was left by an exception or a stop.  A call or session of
\* MCP that throws fails its job, unless a record fails first: the job is set
\* running before the try.  (the settling statements of the direct commands and
\* hunts)
JobIsTrue ==
    \A p \in Procs :
        /\ job[p] = "completed" =>
              /\ saved[p] = Artifacts(p) /\ ~(lost[p] /\ kind[p] # "recon")
              /\ kind[p] \in Strict => \A i \in DOMAIN verdicts[p] : verdicts[p][i] = "allow"
        /\ job[p] = "failed" =>
              lost[p] \/ faults > 0 \/ (\E i \in DOMAIN verdicts[p] : verdicts[p][i] = "block")
                      \/ decided[p] > 0
        /\ job[p] = "paused" =>
              \/ kind[p] = "recon"
              \/ \E i \in DOMAIN verdicts[p] : verdicts[p][i] = "require"
        /\ ended[p] \in {"returned", "refused"} => job[p] \in {"completed", "paused", "failed"}
        /\ ended[p] = "threw" /\ kind[p] \in Mcp => job[p] = "failed" \/ faults > 0

\* A hunt tells the truth about its tools: what it says was executed is
\* executed, but for a row that changed between the SELECT and the UPDATE of the
\* hunt or of a person; a tool that failed fails the hunt; and it dies of an
\* exception only when a record fails or a person decided about its action
\* behind its back (runHuntRecon: markExecuted, fail and the catch around them).
HuntIsTrue ==
    \A p \in Procs : kind[p] = "recon" =>
        /\ Cardinality({i \in DOMAIN results[p] : results[p][i] = "executed"})
             =< Cardinality({i \in DOMAIN rows[p] :
                                rows[p][i] = "executed" \/ <<p, i>> \in overtaken})
        /\ Said(p, {"failed"}) => job[p] \in {"running", "failed"}
        /\ ended[p] = "threw" => faults > 0 \/ decided[p] > 0

\* The numbers of the events of a job are the order in which they were written,
\* without gaps or repetitions, unless two processes noted one at once
\* (WorkflowEventStore.record: a SELECT of the maximum, then an INSERT).
EventsInOrder ==
    /\ \A e \in events : e.job \notin shared => e.number = e.order
    /\ \A e, f \in events : e.job = f.job /\ e.number = f.number /\ e # f =>
          e.job \in shared /\ e.by # f.by

=============================================================================
