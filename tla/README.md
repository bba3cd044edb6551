# BountyPilot in TLA+

Models of the program in `src/` (a TypeScript command line for authorised bug
bounty work), checked with TLC on small instances and, where it matters most,
proved with TLAPS for all of them. Paths below are relative to `src/`.

1. The system
2. The modules
3. The runs, their bounds and what they show
4. What is proved
5. Where code and documents disagree
6. What is not modelled, and the plan

## 1. The system

`bounty` is one process per command. A workspace is a directory with a SQLite
database, files of evidence and reports, checkpoints of workflows, and JSON
files of configuration. Several commands may run in one workspace at once. No
command opens a transaction: every statement is committed as it comes, nearly
every update is a SELECT, a check in JavaScript, and an UPDATE by id, and
nothing repairs what a command that died left behind. Within a process there is
one thread, and the interesting interleavings are those of callbacks at an
`await`: child processes, timers, HTTP.

| component | state | operations | hard because of |
|---|---|---|---|
| action queue (`core/actions`) | `actions`, `action_reviews` | enqueue, approve, block, fail, markExecuted, record a review | check and UPDATE are two statements; others write in between |
| action executor, action commands (`workflows/action-executor.ts`, `cli/index.ts`) | the place of a command; `workflow_events`, the audit log | actions approve, block, review, execute, run-approved; check | nothing claims a row while its work is done; crash after the work |
| policy gate, integration manager (`core/policy`, `integrations/integration-manager`) | the rules of the program, in a file | evaluate, validateCallPlan | asked twice, about two descriptions, under rules that may have changed |
| workflow runner (`workflows/run-workflow.ts`), job manager (`core/jobs`) | `jobs`, checkpoint file, summary | run, resume, fourteen phases | file and row do not move together; torn files; chains of resumes |
| MCP executor (`integrations/mcp`), `utils/process-tree.ts` | child process, parser, timers, records | call, session | timeout against answer against close against death; chunks |
| findings, candidates, evidence (`stores`), reports (`engines/report-generator`) | three tables, drafts on disk | detect, promote, link, mark, draft | lists in JSON columns are read and written back; several statements per command |
| recon engine, hunts (`hunting`) | observations, crawl graph, and the above | recon, playbooks | tools that fail one by one; writes of several stores |
| direct commands (`cli/index.ts`) | their job | check, crawl, js, browser, desktop, research, reproduce, agent | an exception leaves the job where it was |
| scoped HTTP, rate limiter, scope guard (`core/http`, `core/rate-limit`, `core/scope`) | visited URLs; next time per host | fetch, wait, test | redirects; one limiter per process |
| tools, external integrations, approved executables (`integrations/tool-manager`, `integrations/external`, `utils/local-process-policy.ts`) | child process, approval file, evidence file, observations, crawl graph | plan, approve, execute | a child and its descendants against the timeout; a file changed by two; one evidence file for two runs |
| event store (`core/jobs/workflow-event-store.ts`) | numbered events | record, list | number is MAX + 1, not unique |
| terminal interface (`cli/tui`) | screens, composer, transcript with undo, session files | keys, chat, sessions | an answer that comes after the screen moved on; two terminals on one session; a selection in a list that changed |
| providers (`providers`) | configuration and credentials, in two files | connect, disconnect | both read, changed and written whole |
| release (`core/release`) | the checkout, the bundle directory, origin and its workflows | check, bundle, verify, bootstrap, publish status, public gate | checks made one after the other of things that move; a shared directory |
| skills, triage, duplicate risk, planner, summary, lab, output | none of their own | pure functions, or readers | text |

How they interact: a planner (a command, the workflow runner, a hunt, MCP)
describes an action to the **policy gate** and queues the answer in the
**action queue**; a person reviews it; the **executor** asks the gate again and
lets an adapter work: safe checks, a crawl, a tool, an external program, an MCP
server. The work leaves **evidence**, **findings** and **candidates**, which
are triaged, promoted and drafted. A **workflow** is a job that does all this
phase by phase and leaves a checkpoint after each. Everything writes events and
audit lines.

What makes each part correct, in one line:

- queue: a reviewed action is never pending again; what was blocked when it was
  queued stays blocked; a settled row is settled for good (it is not: section 5);
- executor: nothing runs without the approval it needs; executed means the work
  was finished, but for the research phase of `run`, which settles its rows
  first; work is done twice only in a race, after a fault, or where a command
  never settles its row; rows, reviews and events tell the same story;
- policy: stricter rules never give a milder answer; what is carried out obeys
  the rules of the day;
- workflow: a checkpoint is true, a resume repeats nothing it records, row and
  checkpoint agree at the end, every run ends;
- MCP: no server before all checks, requests in order and none past a failure
  (an answer is tied to its request by the id alone, so one at a time holds of a
  server that answers what it was asked), one settlement, evidence before the
  report;
- records: an artifact a finding rests on stays with it, candidates can always
  be promoted, readiness and drafts are backed by what they claim, unless a
  person set the status by hand;
- jobs: a row says what became of its command, and stays open only after an
  exception or a stop; the events of a job are numbered in their order;
- child processes: only what was approved is started, nothing outlives its run,
  every run settles once and its report is true; no place outside the scope is
  recorded, though a sign seen at one may be;
- requests: nothing outside the scope is asked, redirects end, a host is asked
  no more often than the rules allow;
- terminal: sessions stay apart, and a key does what the screen says it does,
  except in a list of sessions that got shorter under the selection;
- providers: a key is never joined to the base URL of another connect (the name
  of a variable is);
- release: verification accepts one build whole; what passes the last gate is
  the commit that was checked, unless the local tag was moved after it was
  pushed, or the PowerShell script went on after a refused push.

## 2. The modules

| module | models | extends, composes |
|---|---|---|
| `ActionLifecycle` | what the queue promises: the statuses of an action and the moves between them, each atomic | |
| `ActionQueue` | `action-queue.ts`: each operation as its SELECT with the check, then its UPDATE | |
| `ActionExecution` | the commands that use the queue, statement by statement, in several processes, with crashes | extends `ActionQueue`; `LifecycleSpec` says that one process alone implements `ActionLifecycle` |
| `PolicyGate` | `PolicyGate.evaluate` as an operator on rules and actions | |
| `ToolPlan` | the registry of built-in tools and what a planned run tells the gate | extends `PolicyGate` |
| `PolicyReview` | one action planned, reviewed, the rules edited, executed | extends `PolicyGate` |
| `WorkflowRun` | run, resume, the units of a pipeline, checkpoints, job rows, torn writes | |
| `CommandJob` | every command with a job of its own as a list of statements, the numbering of events, people who decide meanwhile | |
| `McpSession` | one MCP call or session, the server, and the event loop of Node.js | |
| `ToolRun` | runs of tools and external programs with their children, the file of approvals, evidence, observations | |
| `FindingRecords` | the three tables, the drafts, and the commands that fill them as lists of statements | |
| `ScopeGuard` | `ScopeGuard.test` as an operator, and beside it what a person reads in a pattern | |
| `ScopedFetch` | fetches with redirects, the checks of a playbook, the rate limiter, in one process or two | extends `ScopeGuard` |
| `TuiSession` | the sessions of two terminals, in memory and on disk | |
| `TuiScreens` | the keys of one terminal | |
| `ProviderStore` | connect and disconnect over two files | |
| `ReleaseBundle` | builds in one directory, and verification | |
| `ReleasePublish` | the checks around a release and the script that pushes it | |
| `MC*` | instances for TLC | `MCJobs` composes `ActionExecution`, `CommandJob`, `WorkflowRun`; `MCChildProcesses` composes `ToolRun`, `McpSession`; `MCPolicyReview` composes `PolicyReview`, `ToolPlan`, `ScopedFetch`; `MCDesk` composes the last five |
| `*_proof` | theorems (section 4) | each extends the component or the instance it is about; those of the composed instances take their components' by INSTANCE |

The four composed instances put modules that share no state side by side. A
variable `part`, fixed in the first state, says which of them moves; the others
keep their first state. A state of such a run is a state of one module, and no
interleaving between parts is claimed.

How state and actions correspond to the code:

**ActionQueue, ActionExecution.** `row[a]` is the status column, `call[p]` the
queue operation process `p` is inside: it has read and checked, and not written.
`pc[p]`, `cur[p]`, `todo[p]`, `decisions[p]` are where a command is, on which
action, which rows of its list are left. `Take` is all of `execute` up to the
work (status, policy, target), `Asks` which call of the queue comes at which
place, `AfterReturn` and `AfterThrow` what follows its return and its
exception: the catch block of `execute` calls `fail`, which may throw itself.
The research phase of `run` has the steps of its own order: `RunResearch`, then
`PlanSeed` and the settlement of each seed, then the one ledger that is the work
of all (`WriteLedger`), then the event (`Conclude`); `history.dropped` are the
actions it had settled when it was cut off.
`reviews` and `events` are tables that only grow. `history` and `raced` are for
the properties. The work of an adapter is one step that may fail. The policy
decision at execution is left open here; `PolicyReview` models it.

**PolicyGate, ToolPlan, PolicyReview.** Rules and actions are records of the
fields the gate reads; names of action types and capabilities are abstracted to
the sets the rules ask about. A `form` is an action as its planner describes it
(`planned`) and as the executor recovers it (`recovered`): the queue keeps
neither the capability nor the flags. `MCPolicyReview` lists the forms the
planners do plan, and takes those of tools from `ToolPlan`, which translates the
registry and `validateRunPlan`; an assumption checks that every built-in tool is
trusted by its own rules. A hunt in passive mode plans an `exploit_validation`
that waits for approval, while the executor, which has lost the capability,
blocks it afterwards; and an action approved automatically that is refused after
an edit of the rules stays approved with no way on. Both are in the model.

**WorkflowRun.** A unit is a phase, or a phase at one target. `row[j]` is the
job row, `file[j]` the checkpoint (absent, torn or readable), `run[j]` the
process with its summary in memory. Every write of a file may be cut by a crash
(`Crash` leaves `TornFile`). `resumableProgress` is `Resumable`; the legacy
branch for checkpoints written without targets is left out.

**CommandJob.** `todo[p]` is the list of statements of the command, one of
`Scripts`, in the order of the code: create the job, plan an action and go on,
wait or stop, work, save, settle. A crawl by a tool or a browser proposes and
settles by the verdict; a check pauses its job and ends where the action must
wait; an MCP call has a catch that fails the job; a hunt runs its tools one by
one and sums up what they say. Calls of the queue are two statements here too:
`Looks` and `Puts` of a hunt, `Decide` and `Settle` of a person who approves,
blocks or runs one of the actions; `overtaken` are the rows an UPDATE wrote after
they had changed. That people may decide between any two statements is the point.
`Throws` goes where the code goes: to the `catch` of an MCP command once its job
is running (`Rethrow`), to `fail` in a hunt's tool, else out. `noting[x]` is an
event whose number was read and not inserted.

**McpSession.** Actions are callbacks, each run to its end; a chunk of data is
handled whole, message by message. `timer`, `fallback`, `released`, `signalled`
say what still holds the process: `Drain` is Node.js ending because nothing
does, which `Held` excludes. `Puts`, `Answer`, `Noise`, `Die` are the server,
external code of which nothing is assumed: a stray answer may name any step,
asked or not. A session takes the answer to the step at hand, a single call the
first with the id of its request, whenever it came (`Expected`). `lines` is the
audit log: one line for a call, one for each answered step of a session. Gates
of the steps are the answers of scope, policy and review, taken as given.

**ToolRun.** `run[r]` is a run with its child: `leader` the program itself,
`holder` whether a descendant holds its pipe, `timer` and the fallback what may
still settle it, `todo` the records to write. A tool and an external program
take the same path except where the code differs: which approval they look up,
the wait of the rate limiter, the kill fallback (`KillFallback`, external only)
and the path of the evidence (`FileOf`: a tool has one per job and action type).
`BeginApprove` and `FinishApprove` are the read and the rename of
`approved-executables.json`; `Replace` is somebody putting another file at the
path. `Exit` and `Release` are the child, of which nothing is assumed. An
observation is what it is about (`kind`), where that is (`at`) and what the
runner can read of the place (`read`), which is what it decides by.

**FindingRecords.** `todo[p]` is the list of statements a command has still to
issue: `Signal`, `Promote`, `Draft` and the like are such lists in the order of
the code, and `Stop` forgets the rest. `seen[p]` is a JSON list read and not
written back. Every candidate of the program is created with a finding, so the
branch of `promoteCandidate` that makes one is unreachable and left out. What
scores decide (similarity, severity, the contents of evidence) is left open.
The notes of `reproduce`, `reports review --write` and `findings status` and the
reports carry the id of their finding and are never moved, so `own[f]` keeps
their kinds and not their number. A person may give a finding any status, when
creating it too; `byHand` are those called drafted that way. What
`ai plan --write` stores belongs to no finding, like some of `RecordEvidence`.

**ScopeGuard, ScopedFetch.** A host is the sequence of its labels from the top, a
path that of its segments. `Parsed` is what the parser makes of a pattern,
losses included: without a scheme it drops the path and leaves the port in the
name. `Reads` is what a person reads in it, the reference of `StaysInScope`.
`fetch[p]` is a fetch at its hop, with the URLs seen; `visits[p]` the requests a
task has still to make, with whether each waits for the limiter and follows
redirects; `limiter[p]` the map of the process.

**TuiSession, TuiScreens.** `shown`, `undo`, `redo` and `context` are the state
of the component, `file[s]` a session on disk, `stage[t]` how far a change of it
has come: `Read`, `Truncate` and `Fill` are the steps of reading, opening and
writing a JSON file, between which another terminal may do the same or be
killed. A message carries the session and the question it belongs to, which is
how a property tells that it strayed. `TuiScreens` has every screen with the
keys it takes, the leader and its timeout, the palette; a list is its length,
which a query or the reading of files may change under the selection. The list
of sessions is filtered again at every drawing, by the mode among others, which
Tab switches (`SwitchMode`) and another terminal may store (`Elsewhere`), while
the selection stays: `shrunk`. Panels that only show text are one screen. Keys
are ignored while a request is under way in both, as in the code.

**ProviderStore.** A connect is known by its number, in the configuration (base
URL) as in the credentials (key, or name of a variable). What an entry takes
over from the one before is in `ConfigEntry` and `AuthEntry`: that it is disabled,
and the name of the variable. Reads and writes of the two files are steps;
`Stop` may come between any two, or in the middle of a write.

**ReleaseBundle, ReleasePublish.** A build is the sequence of `release bundle`:
check, empty the directory, tarball, skill, SBOM, manifest, checksums; a digest
stands for the content. `Verifies` is `verify-bundle`. In `ReleasePublish` the
commands of one terminal run to their ends one after the other (`sc` is the next
line of the script) while a second terminal commits, pushes and moves the tag,
others push, and GitHub works (`Meddle`, `Retag`, `Work`). There are two scripts:
that of the shell stops at a command that fails, that of PowerShell goes on
(`Goto`), since its `$ErrorActionPreference` is not about the exit codes of
programs. A check is a name with pass, warn or fail.

## 3. The runs, their bounds and what they show

| run | instance | distinct states | shows |
|---|---|---|---|
| `execution_race` | 1 action, 2 processes, 1 fault | 215,654 | safety of the review gate under every interleaving of statements; records and timeline agree; work is repeated only in a race or after a fault |
| `execution_batch` | 2 actions, 1 process, batches of 2, 1 fault | 456,808 | a reviewer's decisions are all applied and stored; alone, the queue is the abstract lifecycle |
| `execution_terminal` | 1 action, 2 processes | violation | a terminal status is overwritten |
| `workflow_faults` | 2 units, 2 jobs, 2 faults | 993,824 | truth of checkpoints, agreement of row and file, no repetition by a resume |
| `workflow_chain` | 2 units, 3 jobs | violation | a chain of resumes starts over |
| `policy_edits` | all planned forms and 5 tools in 3 modes, all rules; 6 scopes, 4 URLs, 2 redirects | 386,140 | planner and executor agree; stricter is never milder; requests stay in scope and keep their pace |
| `child_processes` | an MCP session of up to 3 steps with 1 stray message and 1 fault; 2 runs, 2 people, 2 approvals, 1 replacement, 1 fault | 189,740 | order, checks, settlement, records; only approved programs; no child left |
| `mcp_timeout` | 1 step | violation | a call that ends without evidence |
| `finding_races` | 2 commands of 2 processes, 1 stop, from 15 prepared states | 1,519,750 | evidence, promotion, readiness, drafts |
| `jobs` | every command with 1 person, 2 decisions, 1 stop; 1 action with 2 processes; 2 workflow runs of 2 units | 290,424 | what a job row says is so, events keep their order, everything started ends |
| `hunt_pace` | 1 process | violation | a request that does not wait |
| `desk` | 2 terminals, 2 sessions, 4 keys, 1 kill; all screens; 2 processes, 3 commands; 2 builders, 1 edit, 1 fault; both scripts for 2 branches, 2 commits, 3 foreign steps | 1,640,108 | sessions stay apart, keys find their target, settled providers stay, verification tells, a release is whole |

Why the bounds are enough. A race needs two processes and one row: a third
process can only repeat what the second did, and rows do not interact except
through the batch of one process, which `execution_batch` has. Two faults let a
crash hit the recovery from a first one. Three jobs are the shortest chain of
resumes, two the shortest resume. Two units suffice for one done and one not,
one of them with a target and one external. Three MCP steps have a first, a
middle and a last. `finding_races` starts after a few commands have prepared
the ground, in every combination `MCInit` lists, because their result (two
findings sharing their only artifact, one of them perhaps with another of its
own, promoted, rejected, drafted, or left short by an earlier race) is where
every hazard begins; then two commands race, with ids enough for both, except that two
captures of a URL do not race. In the
same way `child_processes` lets either one run race the approvals of its
program, or two started runs race each other, and the sessions of `desk` start
with one exchange in the first, so that undo, compaction and trimming have
something to work on. A job of a direct command is touched by its own process
and by people only, so one command at a time is enough in `jobs`, and one person,
whose call of the queue may overlap a hunt's and who may note an event at the
same time as the command. Two redirects have a loop and a limit. Of the bounds of
`desk`, four keys are the shortest path to a question, its undo, a resume and an
answer; two builders and two texts suffice for a directory of two builds; two
commits for a tag behind the head; three foreign steps for a commit, a tag moved
to it and one more.
Processes are symmetric in `execution_race` and `finding_races`, where no
property is temporal beyond one step.

`CHECK_DEADLOCK FALSE` stands where the bounds, or the end of the call, stop the
system: all jobs used, all commands issued, a call over, a terminal left. The
runs of `ActionExecution` check for deadlock.

Fairness. `ActionExecution`: a process inside a command goes on
(`WF` of its steps); nobody has to begin one. `WorkflowRun`, `CommandJob`: the
same, for the steps of a run or command; nobody has to resume or to decide.
These are the scheduler's: a command waits for nothing but its own statements
and for adapters, which have a timeout or an end, `Deserted` below aside. `McpSession`,
`ToolRun`: the callbacks of the executor, timer included, are executed; of the
server or child nothing is assumed, neither that it answers nor that it dies.
`EverythingEnds` is checked without faults where a crash would excuse
everything (`jobs` gives `NoStop` and no fault to its actions and workflows; the
direct commands may be stopped, which is one of their ends). `CallsSettle` makes
one exception: a tool that has exited while a descendant holds its pipe
(`Deserted`), for which the code has no fallback.

Every property is broken by at least one mutant of the model, an operator
placed before the one it replaces and named after it (`SlotEarly` for `Slot`): a
dropped guard, a swapped order, an unreset list.

## 4. What is proved

For every value of the constants that satisfies the named assumptions of the
modules, by eight modules of theorems, one per component or pair of components.
Where a theorem names a property, the run of section 3 shows the same formula on
a small instance.

| module | theorems | of the property |
|---|---|---|
| `ActionExecution_proof` | `TypeCorrect`, `GateHolds`, `ExecutedIsTrue`, `RefusalIsFinal`, `NoReturnToPending` | `TypeOK`, `ApprovedBeforeRun`, `ExecutedWasFinished`, `RefusalStands`, `NeverPendingAgain` |
| | `HistoryExplains`, `DoneOnce`, `OneLife` | `OnRecord`, `OnceAndForAll`, `LifecycleSpec` |
| `WorkflowRun_proof` | `TypesHold`, `CheckpointsAreTrue`, `ResumeRepeatsNothing`, `EndingsAreTrue` | `TypeOK`, `CheckpointIsTrue`, `HopIsIncremental`, `EndsAreTrue` |
| `PolicyReview_proof` | `StricterIsNeverMilder`, `ReviewTypes`, `CarriedOutByTheRules`, `PlannerAndExecutorAgree`, `TighteningHolds` | of the gate as an operator; `TypeOK`, `RulesOfTheDay`, `RefusedAfterEdit`, `TighteningIsFelt` |
| | `RequestsKeepTheRules` | `FetchesStay`, `Paced`, of the composed instance |
| `ScopedFetch_proof` | `GuardMeansWhatItReads`, `RequestsStayInScope`, `RequestsArePaced` | the same, of the component |
| `ChildProcesses_proof` | `StepsGoInOrder`, `ReportsFollowAnswers`, `RunsReportTruly` | of the components `McpSession` and `ToolRun` |
| | `OnlyApprovedIsRun`, `ChildrenAreKept` | `RunIsOfApproved`; `TypesOK`, `AskedInOrder`, `ReportsAreTrue`, `NoChildLeft` of the composed instance |
| `FindingRecords_proof` | `RowsAreTyped`, `EvidenceIsKept`, `CandidatesStayPromotable`, `BackedReports`, `RejectionIsRespected` | `TypeOK`, `EvidenceStays`, `CandidateCanBePromoted`, `ReportsAreBacked`, `RejectionRespected` |
| `CommandJob_proof` | `JobsTellTheTruth`, `EventsAreNumbered`, `TypesHoldInEachPart` | `JobsAreTrue`, `EventsInOrder`, `TypesOK` of the composed instance |
| `Desk_proof` | `DeskIsTyped`, `TalksStayApart`, `KeysReachTheirTarget`, `ProvidersStaySettled`, `VerifyIsTruthful`, `ReleasesAreWhole` | `TypeOK`, `SessionsStayApart`, `KeysFindTheirTarget`, `SettledStays`, `VerifyTells`, `ReleaseIsWhole` |
| | `TalksStartApart` | the sessions, from the component's own first state |

The arguments. Few properties are inductive alone; each proof has an invariant of
named parts, one lemma per action, and a last step in temporal logic.

- `ActionExecution`: a queue call in flight carries a check made on an older
  row, so the invariant speaks of calls too (`CallInv`): a call that intends to
  write `executed` is made by a process that has finished the work, or is in the
  research phase, whose rows are in hand until the ledger is written; one that
  read a row approved, where an approval is needed, read it after a person's.
  `HistoryExplains` and `DoneOnce` add what the tables say of a row (`RecordInv`,
  `StoryInv`), with an exception for a fault, a race or a direct command, each of
  which is remembered. `OneLife` is the refinement of the abstract life of an
  action where a workspace has one process; with two it is false, as
  `execution_terminal` shows. `QueueKeeps` maps each step of the queue to a step
  or a stutter, and the lemma `UsesQueue` says that the commands take only those.
- `WorkflowRun`: a chain. `Sound` (types, and a process that works is at a
  unit); `Honest` (a job nobody created left no trace; what a summary in memory
  claims was done; the same of the file); what a resumed process avoids and
  reuses; `Ends` (what is recorded of the units a process has passed, and for a
  job without a fault that row and file go together at each place).
- `PolicyReview`: the invariant ties the row of an action to the rules it was
  planned under, for the row is all that is left of the full description.
- `ScopeGuard`: `GuardMeansWhatItReads` says that what passes the guard is what a
  person reads in the rules, for all hosts, paths and patterns that are
  `Legible`. Labels and segments became constants for it. The proof found one
  more piece of small print: a scheme other than http and https makes a pattern
  match both, so such patterns are not `Legible`.
- `ScopedFetch`: a fetch that waits has passed the guard, waits for the slot its
  limiter holds and remembers its chain, in which only a page that redirects to
  itself comes twice (`Onward`); the limiter is later than all its process has
  asked (`Held`), so that waiting requests of one process are `Apart`.
  `Paced` follows by counting: more requests than processes in an interval would
  be two of one process.
- `McpSession`: the answers taken are the good ones of the steps before the one
  at hand, and where each was given in turn what was asked and has no answer is
  that step (`OneAtATime`); an answer under way that was given in turn is to
  something no longer asked (`Fresh`), which is what holds against servers that
  repeat themselves. The lines of the audit are those of the answers they come
  after.
- `ToolRun`: approvals in the file, and in the copy a person has read, are ones
  given; who is alone with the file has read what is there (`ReadsGranted`); an
  approval missing from the file was replaced by a later one or lost where two
  overlapped (`NoneLost`). A run past its checks was approved or refused
  (`Passed`); its row comes after its file and its success after its row
  (`Backed`).
- `FindingRecords`: a command under way is the list of the statements it has
  still to issue, and `Fits` says that such a list may be issued against the rows
  there are: a candidate is only written after its finding, a draft only marked
  after its report, whatever the other commands do in between. Half the lemmas
  are about lists (every command begins with one that fits; what fits still fits
  when rows are added; its tail fits after its head), the others about steps.
- `CommandJob`: `Shape` says what may remain of a script of each kind (only
  notes after the statement that settles the job; one that waits for approvals
  asks once). `Course` relates it to the job row, `Saving` to the artifacts
  stored, `Reasons` to the why of a failure, `Waiting` to the verdict. `Hunt`
  counts: a hunt says `executed` of no more tools than have executed rows,
  leaving aside the row it is at and those overtaken between a SELECT and an
  UPDATE. `Numbering` says that the last event of a job
  has the largest number, unless two noted at once. `ScriptsHaveShape` looks at
  each script once; no other lemma does.
- `TuiSession`: a terminal that has begun to store a change holds the record it
  read, the file may be cut off meanwhile, and the screen already shows the
  result. So the invariant speaks of what the file will hold once the change
  under way is in it (`NextMessages`, `NextContext` over `Base`), and says of a
  session with one visitor that this is what its terminal shows (`Stored`).
  `Own` says that everything a terminal has in memory, stacks to undo and a
  transcript sent included, belongs to its session, and that the question it
  waits for is the last thing it sent, which is why an answer that comes late is
  put behind it; a terminal that waits for nothing has nothing sent (`Opens`),
  or it could be answered in the next session. `TerminalMoves` is the step that
  all actions share: one terminal moves, and touches only files of sessions it
  has opened, so no other is the only visitor of a file that changes.
- `TuiScreens`: which screens have a list whose pick is used unseen, that such a
  pick is in its list unless the list is filtered and got shorter, and that the
  provider whose key is asked for is the one announced.
- `ProviderStore`: what is settled of a provider is also in every copy of the
  files that a command under way has read (`Settled`); a command nobody has
  disturbed is the only one, and what it wrote of the configuration is there when
  it writes the credentials (`Undisturbed`), so that the two belong together.
- `ReleaseBundle`: a checksum file is that of the build that ended last, whoever
  wrote or removed the other files (`Pinned`), which gives the first half of
  `VerifyTells`; a build alone in the directory has there what it has recorded,
  place by place (`Progress`), which gives the second.
- `ReleasePublish`: the runs that GitHub shows of the Release workflow are of the
  tag at the origin; past the push of the tag that is the local one, unless the
  push was refused and the script went on, or the local one was moved since
  (`Scripted`).
- The composed instances. `RequestsKeepTheRules` and `TypesHoldInEachPart` take
  the invariants of the components from their own modules of proofs by INSTANCE,
  once the assumptions of those are shown to hold of the instance;
  `ChildrenAreKept` and the theorems of `Desk_proof` join the invariants of their
  parts (`DeskInv`), of which one moves and the others stay as they are.

What is assumed. Bounds are naturals (`BoundsAssumption`, `BoundAssumption`,
`CommandsAssumption`, `SessionAssumption`); "nothing" is none of the things
(`NoActionAssumption`, `NoneAssumption`, `NamesAssumption`); a pipeline is a
sequence of different phases, `NoStop` a natural (`PipelineAssumption`,
`WorkflowAssumption`); the forms are what a planner may plan (`FormsAssumption`,
`BuiltInsAreTrusted`); rows, people and processes that are counted are finitely
many (`FiniteAssumption`, `PeopleAssumption`, `Bounds` of `ScopedFetch`); URLs
and patterns have the parts they should, and the small letters of a segment are
a segment (`Bounds`, `RequestsAssumption`); the prepared states of an instance
have the program and contents they begin with (`InstanceAssumption`). TLC
evaluates them on every run that uses them. The bounds of `MCDesk` are at least 1
where its first state needs it (a key for the exchange, a transcript to undo, an
option, a commit). `OneLife` assumes one process, and the theorems on
`ScopedFetch` and `McpSession` name their `Bounds` and `CallBounds`.

Only model-checked:

liveness (`DecisionsLand`, `CallsSettle`, `EverythingEnds`), which the prover
cannot reach for want of ENABLED. Every invariant and action property of a run
has a theorem. The inductive invariants of `Desk_proof` were checked by TLC on
the instance of `desk` before they were proved, all but the conjuncts of type
whose sets it cannot enumerate.

## 5. Where code and documents disagree

Shown by a run:

- `execution_terminal`: the queue refuses to leave a terminal status, but checks
  an older row than it writes; two commands at once overwrite one terminal
  status with another, or with approved (`core/actions/action-queue.ts:104`).
- `workflow_chain`: "Resume is incremental", but a phase that a resume skipped
  counts as no progress for the next resume, so the third job of a chain repeats
  what the first completed (`workflows/run-workflow.ts:1603`).
- `mcp_timeout`: after a timeout nothing keeps the event loop alive until the
  call is settled; the process may end with no evidence, no audit line and the
  action still approved (`integrations/mcp/mcp-stdio-executor.ts:635`).
- `hunt_pace`: "Target actions flow through [...] `RateLimiter`", but the check of
  an open redirect in a live playbook does not wait
  (`hunting/recon-engine.ts:1207`).

Met while modelling, and in the models as the code has them; each is an exception
that a property names:

- The research phase of `run` marks its actions executed as it plans them, and
  writes their ledger afterwards; a run cut off in between leaves executed rows
  nobody finished (`workflows/run-workflow.ts:427`): `ExecutedWasFinished`.
- `findings status <id> report_drafted` and `findings create --status
  report_drafted` need neither a draft nor `--force`, for a rejected finding
  either (`cli/index.ts:2130`, `2013`): `ReportsAreBacked`, `RejectionRespected`.
- A single MCP call takes the first answer with the id of its request, sent
  before the request or not (`integrations/mcp/mcp-stdio-executor.ts:680`), and in
  a session the early answer in the right place of a chunk counts too:
  `AskedInOrder`.
- A session that had no answer leaves no line in the audit log
  (`integrations/mcp/mcp-stdio-executor.ts:446`), and a result that says `isError`
  is logged as completed: `ReportsAreTrue`.
- A sign of a weakness or technology is judged by the first field of it that may
  name a place, and is recorded when none can be read
  (`integrations/tool-manager/tool-adapter-runner.ts:650`): `ReportsAreTrue`.
- The job of an MCP command stays queued when setting it running fails, since
  that comes before the `try` (`cli/index.ts:5812`, `5858`); and a block or a mark
  by a person during a hunt overwrites what the hunt said of the row meanwhile, or
  is overwritten (`hunting/recon-engine.ts:214`): `JobsAreTrue`.
- Tab switches the mode of a session on the screen of the sessions too, and the
  list is filtered by mode; with a query and the last match selected, Enter then
  picks nothing and throws (`cli/tui/app.tsx:269`, `702`): `KeysFindTheirTarget`.
- A connect that names a new base URL and no credential keeps the name of the
  variable of the one before (`providers/provider-manager.ts:221`), so the key in
  it goes to the new URL: the comment of `SettledStays`.
- The PowerShell script goes on after `git push` was refused
  (`core/release/release-github-bootstrap.ts:365`), the gate asks of the tag at
  the origin only whether it exists (`core/release/release-publish-plan.ts:556`),
  and `git tag -f` is what `publish-status` advises when the tag is behind
  (line 705): `ReleaseIsWhole`.
- The input of an MCP server has no error listener; a server that dies before a
  request is written ends the program as the timeout does
  (`integrations/mcp/mcp-stdio-executor.ts:663`).
- A tool that has exited while a descendant holds its output keeps its run
  waiting, timeout or not (`integrations/tool-manager/tool-adapter-runner.ts:258`
  against `README.md:478`, "enforce timeouts"): `Deserted` in `ToolRun`.
- A session opened from the list keeps the attached files of the one before
  (`cli/tui/app.tsx:701`): the exception in `ShownIsStored`.
- The footer offers "esc interrupt" while a request is under way
  (`cli/tui/app.tsx:2187`); keys are ignored then (line 217).
- A session file that was cut short ends every terminal: the list of sessions is
  read on each drawing without a handler (`Drawn` in `TuiSession`).
- A bootstrap script for a branch other than `main` stops at
  `skill score --strict`, which counts the branch as a warning (`Score` in
  `ReleasePublish`; `core/release/release-github-bootstrap.ts:411` against
  `docs/github-publish.md:101`).
- The public branch may hold an older commit than the tag when the gate passes:
  `PublishesWhole` says so.
- A pattern without a scheme loses its path and its port matches nothing
  (`core/scope/scope-guard.ts:126`), and one with a scheme
  other than http and https matches both (line 117): `Legible` in `ScopeGuard`.

## 6. What is not modelled, and the plan

Left out for good: text (reports, scores of similarity, parsing of tool output,
masking, what a skill's files must say), pages and browsers, the lab server,
terminal output, rendering, and tables of constants. What the models need of
them is an open choice. Of the tool manager, plans of installs and updates and
the doctor are pure listings that nobody executes. The workspace summary and the
handoff bundle read every store and keep no state. `recon-engine.ts` chooses
tools and builds playbooks by heuristics over observations; only their order,
their records and their requests are modelled. Settings, custom commands and
context files of the terminal are read and shown.

The plan of the proofs is carried out. What would come next: a refinement of the
bundle directory by an abstract one that holds a build or nothing, true only of
builds that run alone; two screens on one `TuiSession`, so that the keys of
`TuiScreens` and the transcripts share their state; and more of the direct
commands of `cli/index.ts`, which `CommandJob` has as lists of statements.
