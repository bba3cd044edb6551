------------------------------ MODULE ToolRun ------------------------------
(***************************************************************************)
(* A program somebody else wrote is run: a tool (ToolAdapterRunner) or an  *)
(* external integration (ExternalIntegrationExecutor).  Both look up what  *)
(* was approved, hash the file, spawn it, watch it with a timeout, and     *)
(* record what came of it.  They differ in the approval they take, in the  *)
(* wait of the integrations for the rate limiter, in the kill fallback     *)
(* that the tools lack, and in the path of the evidence.                   *)
(*                                                                         *)
(* Each run is a process of its own; so is each person who approves an     *)
(* executable.  The file of the approvals, the evidence directory and the  *)
(* database are shared.                                                    *)
(***************************************************************************)
EXTENDS Naturals, Sequences, FiniteSets, Functions

CONSTANTS
    Runs,     \* actions that are executed, each in a process
    People,   \* processes of `approve-executable`
    Programs, \* paths of executables
    Contents, \* what may be at a path, by its SHA-256
    Nobody,
    MaxApprovals, MaxEdits, MaxFaults \* bounds

ASSUME BoundsAssumption == /\ MaxApprovals \in Nat /\ MaxEdits \in Nat /\ MaxFaults \in Nat
                           /\ Nobody \notin Runs

\* So many people that they can be counted.
ASSUME PeopleAssumption == IsFiniteSet(People)

VARIABLES
    kind,      \* of each run
    disk,      \* what is at each path
    edits,
    approvals, \* approved-executables.json
    reviewer,  \* what a person approves, and the file as it was read
    granted,   \* every approval that was given, for the properties
    overlap,   \* two were given at once, for the properties
    run,       \* the run and its child process
    file,      \* evidence file -> the run whose output it holds
    rows,      \* evidence_artifacts: run and file
    audit,     \* the audit lines: run and status
    observed,  \* the recon observations: where they are
    page,      \* there is a crawl_pages row of the target
    faults

approvalVars == <<approvals, reviewer, granted, overlap>>
world  == <<disk, edits>>
report == <<file, rows, audit, observed, page>>
vars == <<kind, world, approvalVars, run, report, faults>>

Kinds    == {"tool", "external"}
Launched == {"running", "settled", "done", "gone"}
Phases   == {"idle", "checked"} \cup Launched
Outcomes == {"none", "refused", "spawn", "thrown", "timeout", "nonzero", "completed"}
Leaders  == {"none", "up", "zero", "nonzero", "killed"}
Requests == [kind : Kinds, path : Programs, note : BOOLEAN]
Records  == [kind : Kinds, path : Programs, hash : Contents, at : 1 .. MaxApprovals]

\* Mutant: every run has the evidence file of its action type.
FileOfAction(r) == Nobody

\* The evidence file of a run: a tool has one per job and action type.
FileOf(r) == IF kind[r] = "tool" THEN Nobody ELSE r

Unstarted ==
    [phase |-> "idle", path |-> Nobody, hash |-> Nobody, leader |-> "none", holder |-> FALSE,
     signalled |-> FALSE, timer |-> FALSE, force |-> FALSE, fallback |-> FALSE,
     timedOut |-> FALSE, code |-> "none", todo |-> <<>>, sawPage |-> FALSE, outcome |-> "none"]

Init ==
    /\ kind \in [Runs -> Kinds]
    /\ disk \in [Programs -> Contents] /\ edits = 0
    /\ approvals = {} /\ reviewer = [x \in People |-> Nobody]
    /\ granted = {} /\ overlap = FALSE
    /\ run = [r \in Runs |-> Unstarted]
    /\ file = [f \in Runs \cup {Nobody} |-> Nobody]
    /\ rows = {} /\ audit = {} /\ observed = {} /\ page = FALSE /\ faults = 0

---------------------------------------------------------------------------
(* LocalExecutableApprovalStore.                                           *)

\* Somebody updates, or replaces, the program at a path.
Replace ==
    /\ edits < MaxEdits /\ edits' = edits + 1
    /\ \E p \in Programs, c \in Contents : c # disk[p] /\ disk' = [disk EXCEPT ![p] = c]
    /\ UNCHANGED <<kind, approvalVars, run, report, faults>>

\* approve: the executable is hashed and the file is read.
BeginApprove(x) ==
    /\ reviewer[x] = Nobody
    /\ Cardinality(granted) + Cardinality({y \in People : reviewer[y] # Nobody}) < MaxApprovals
    /\ \E q \in Requests :
          reviewer' = [reviewer EXCEPT ![x] =
              [kind |-> q.kind, path |-> q.path, hash |-> disk[q.path], note |-> q.note,
               read |-> approvals]]
    /\ overlap' = (overlap \/ \E y \in People : reviewer[y] # Nobody)
    /\ UNCHANGED <<kind, world, approvals, granted, run, report, faults>>

\* The file with one more record: a path has one for each integration.
Amended(q, new) == {a \in q.read : ~(a.kind = q.kind /\ a.path = q.path)} \cup {new}

\* write: the whole file is renamed into place.
FinishApprove(x) ==
    LET q    == reviewer[x]
        same == {a \in q.read : a.kind = q.kind /\ a.path = q.path /\ a.hash = q.hash}
        new  == [kind |-> q.kind, path |-> q.path, hash |-> q.hash, at |-> Cardinality(granted) + 1]
    IN  /\ q # Nobody
        /\ IF same # {}
           THEN approvals' = (IF q.note THEN q.read ELSE approvals) /\ UNCHANGED granted
           ELSE approvals' = Amended(q, new) /\ granted' = granted \cup {new}
        /\ reviewer' = [reviewer EXCEPT ![x] = Nobody]
        /\ UNCHANGED <<kind, world, overlap, run, report, faults>>

---------------------------------------------------------------------------
(* A run, up to the spawn.                                                 *)

Update(r, new) == run' = [run EXCEPT ![r] = new]

\* The records for an integration; the tools take the newest, the integrations
\* the path of their configuration.
RecordsOf(k) == {a \in approvals : a.kind = k}
Chosen(r) == IF kind[r] = "tool"
             THEN {a.path : a \in {b \in RecordsOf("tool") : \A c \in RecordsOf("tool") : c.at =< b.at}}
             ELSE Programs

\* Mutant: any record of the path will do.
VerifiedByPath(r, p) == \E a \in RecordsOf(kind[r]) : a.path = p

\* verify.
Verified(r, p) == \E a \in RecordsOf(kind[r]) : a.path = p /\ a.hash = disk[p]

\* Scope, mode, plan, arguments: their answer is open here.
Check(r) ==
    /\ run[r].phase = "idle"
    /\ \/ \E p \in Chosen(r) :
             /\ Verified(r, p)
             /\ Update(r, [run[r] EXCEPT !.phase = "checked", !.path = p, !.hash = disk[p]])
       \/ Update(r, [run[r] EXCEPT !.phase = "done", !.outcome = "refused"])
    /\ UNCHANGED <<kind, world, approvalVars, report, faults>>

\* For an integration, once the rate limiter lets it.
Spawn(r) ==
    /\ run[r].phase = "checked"
    /\ \/ Update(r, [run[r] EXCEPT !.phase = "running", !.leader = "up", !.timer = TRUE])
       \/ Update(r, [run[r] EXCEPT !.phase = "done", !.outcome = "spawn"])
    /\ UNCHANGED <<kind, world, approvalVars, report, faults>>

---------------------------------------------------------------------------
(* The child: a leader, and perhaps descendants that hold its stdout.      *)

Child(r, new) == /\ Update(r, new)
                 /\ UNCHANGED <<kind, world, approvalVars, report, faults>>

Exit(r) ==
    /\ run[r].leader = "up"
    /\ \E how \in {"zero", "nonzero"} \cup (IF run[r].signalled THEN {"killed"} ELSE {}),
          held \in BOOLEAN :
             Child(r, [run[r] EXCEPT !.leader = how, !.holder = held])

Release(r) == run[r].holder /\ Child(r, [run[r] EXCEPT !.holder = FALSE])

---------------------------------------------------------------------------
(* The callbacks of runProcess.                                            *)

\* What there is to record; the graph of an integration is that of a crawl
\* that ended well, and its raw output is there if the program wrote it.
Reports(r, code) ==
    IF kind[r] = "tool" THEN <<"observe", "seekPage", "page", "file", "row", "audit">>
    ELSE (IF code = "zero" /\ ~run[r].timedOut THEN <<"seekPage", "page">> ELSE <<>>)
            \o <<"file", "row">>

Resolved(r, code) ==
    [run[r] EXCEPT !.phase = "settled", !.timer = FALSE, !.fallback = FALSE, !.code = code,
                   !.todo = Reports(r, code)]

\* killProcessTree: SIGTERM to the group, and SIGKILL a second later.
Killed(new) == IF new.leader # "up" THEN new
               ELSE [new EXCEPT !.signalled = TRUE, !.force = TRUE]

Timeout(r) ==
    /\ run[r].phase = "running" /\ run[r].timer
    /\ Child(r, Killed([run[r] EXCEPT !.timedOut = TRUE, !.timer = FALSE,
                                      !.fallback = (kind[r] = "external")]))

\* Mutant: the SIGKILL is not sent.
ForceKillNever(r) ==
    /\ run[r].phase \notin {"idle", "gone"} /\ run[r].force
    /\ Child(r, [run[r] EXCEPT !.force = FALSE])

\* A descendant that left the group survives.
ForceKill(r) ==
    /\ run[r].phase \notin {"idle", "gone"} /\ run[r].force
    /\ \E held \in BOOLEAN :
          Child(r, IF run[r].leader = "up"
                   THEN [run[r] EXCEPT !.force = FALSE, !.leader = "killed", !.holder = held]
                   ELSE [run[r] EXCEPT !.force = FALSE])

\* The grace is two seconds, so the SIGKILL comes first.
KillFallback(r) ==
    /\ run[r].phase = "running" /\ run[r].fallback /\ ~run[r].force
    /\ Child(r, Resolved(r, "none"))

\* Mutant: it is enough that the pipe is closed, be the leader still up.
CloseEarly(r) ==
    /\ run[r].phase = "running" /\ ~run[r].holder
    /\ Child(r, Resolved(r, run[r].leader))

Close(r) ==
    /\ run[r].phase = "running" /\ run[r].leader # "up" /\ ~run[r].holder
    /\ Child(r, Resolved(r, run[r].leader))

---------------------------------------------------------------------------
(* What follows the await, one statement or write at a time.               *)

Recording(r, what) ==
    /\ run[r].phase = "settled" /\ run[r].todo # <<>> /\ Head(run[r].todo) = what
    /\ UNCHANGED <<kind, world, approvalVars, faults>>

Recorded(r) == Update(r, [run[r] EXCEPT !.todo = Tail(run[r].todo)])

Throws(r) == Update(r, [run[r] EXCEPT !.todo = <<>>, !.phase = "done", !.outcome = "thrown"])

\* What the output can say: a place, as hosts, ports and URLs are, or the sign
\* of a technology, a weakness or a finding, seen at some place.
Places == {"inScope", "elsewhere"}

\* What is read of it to judge it: the place itself; of a sign the source and
\* the first field that may name a place, as far as they look like one.
Observations == {o \in [kind : {"place", "sign"}, at : Places, read : SUBSET Places] :
                    o.kind = "place" => o.read = {o.at}}

\* A sign of which no place can be read is allowed.
ScopedObservationAllowed(o) == o.read \subseteq {"inScope"}

\* Bound: one observation of each run.
Observe(r) ==
    /\ Recording(r, "observe") /\ Recorded(r)
    /\ \E o \in Observations :
          observed' = IF ScopedObservationAllowed(o) THEN observed \cup {o} ELSE observed
    /\ UNCHANGED <<file, rows, audit, page>>

\* upsertPage: a SELECT, then an UPDATE or an INSERT; the URL is the primary key.
SeekPage(r) ==
    /\ Recording(r, "seekPage")
    /\ Update(r, [run[r] EXCEPT !.todo = Tail(run[r].todo), !.sawPage = page])
    /\ UNCHANGED report

PutPage(r) ==
    /\ Recording(r, "page")
    /\ IF page /\ ~run[r].sawPage THEN Throws(r) ELSE Recorded(r)
    /\ page' = TRUE
    /\ UNCHANGED <<file, rows, audit, observed>>

WriteFile(r) ==
    /\ Recording(r, "file") /\ Recorded(r)
    /\ file' = [file EXCEPT ![FileOf(r)] = r]
    /\ UNCHANGED <<rows, audit, observed, page>>

InsertRow(r) ==
    /\ Recording(r, "row") /\ Recorded(r)
    /\ rows' = rows \cup {[run |-> r, file |-> FileOf(r)]}
    /\ UNCHANGED <<file, audit, observed, page>>

Well(r) == run[r].code = "zero" /\ ~run[r].timedOut

WriteAudit(r) ==
    /\ Recording(r, "audit") /\ Recorded(r)
    /\ audit' = audit \cup {[run |-> r, status |-> IF Well(r) THEN "completed" ELSE "failed"]}
    /\ UNCHANGED <<file, rows, observed, page>>

\* The result is returned, or an error thrown that the executor turns into a
\* failed action.
Conclude(r) ==
    /\ run[r].phase = "settled" /\ run[r].todo = <<>>
    /\ Update(r, [run[r] EXCEPT !.phase = "done",
                    !.outcome = IF Well(r) THEN "completed"
                                ELSE IF run[r].timedOut THEN "timeout" ELSE "nonzero"])
    /\ UNCHANGED <<kind, world, approvalVars, report, faults>>

\* A write fails, or the process is stopped; a child is in a group of its own
\* and does not notice.
Fail(r) ==
    /\ faults < MaxFaults /\ faults' = faults + 1
    /\ \/ run[r].phase = "settled" /\ run[r].todo # <<>> /\ Throws(r)
       \/ run[r].phase \in {"checked", "running", "settled"}
          /\ Update(r, [run[r] EXCEPT !.phase = "gone", !.timer = FALSE, !.todo = <<>>])
    /\ UNCHANGED <<kind, world, approvalVars, report>>

Proceeds(r) ==
    \/ Timeout(r) \/ ForceKill(r) \/ KillFallback(r) \/ Close(r)
    \/ Observe(r) \/ SeekPage(r) \/ PutPage(r) \/ WriteFile(r) \/ InsertRow(r)
    \/ WriteAudit(r) \/ Conclude(r)

Next ==
    \/ Replace
    \/ \E x \in People : BeginApprove(x) \/ FinishApprove(x)
    \/ \E r \in Runs : Check(r) \/ Spawn(r) \/ Exit(r) \/ Release(r) \/ Proceeds(r) \/ Fail(r)

\* The callbacks and timers of a process that runs; of the child, nothing.
Spec == Init /\ [][Next]_vars /\ \A r \in Runs : WF_vars(Proceeds(r))

---------------------------------------------------------------------------

\* Approvals, runs and records keep their types.
TypeOK ==
    /\ kind \in [Runs -> Kinds] /\ disk \in [Programs -> Contents] /\ edits \in 0 .. MaxEdits
    /\ approvals \subseteq Records /\ granted \subseteq Records /\ overlap \in BOOLEAN
    /\ \A r \in Runs : /\ run[r].phase \in Phases /\ run[r].outcome \in Outcomes
                       /\ run[r].leader \in Leaders /\ run[r].code \in Leaders \ {"up"}
                       /\ run[r].path \in Programs \cup {Nobody}
                       /\ run[r].hash \in Contents \cup {Nobody}
    /\ file \in [Runs \cup {Nobody} -> Runs \cup {Nobody}]
    /\ rows \subseteq [run : Runs, file : Runs \cup {Nobody}]
    /\ audit \subseteq [run : Runs, status : {"completed", "failed"}]
    /\ observed \subseteq Observations /\ page \in BOOLEAN /\ faults \in 0 .. MaxFaults

\* Approvals.  What runs was approved, with the contents it was checked to
\* have, for the integration it is run for; and an approval is lost from the
\* file only when two were given at once, or a later one replaced it
\* (LocalExecutableApprovalStore.approve, verify).
RunIsOfApproved ==
    /\ \A r \in Runs : run[r].phase \in Launched =>
          \/ run[r].outcome = "refused"
          \/ \E a \in granted : a.kind = kind[r] /\ a.path = run[r].path /\ a.hash = run[r].hash
    /\ \A a \in granted \ approvals :
          overlap \/ \E b \in granted : b.kind = a.kind /\ b.path = a.path /\ b.at > a.at

\* Reports.  A success that is reported had a program that exited with 0
\* before the timeout, and its evidence; an audit line never contradicts the
\* report; and no place outside the scope is recorded, whatever the program
\* prints, while the sign of one may be: it is judged by what can be read of it
\* (ToolAdapterRunner.execute, executeAction; ExternalIntegrationExecutor.execute).
ReportIsTrue ==
    /\ \A r \in Runs :
          run[r].outcome = "completed" => /\ run[r].leader = "zero" /\ ~run[r].timedOut
                                          /\ [run |-> r, file |-> FileOf(r)] \in rows
    /\ \A l \in audit : /\ run[l.run].outcome = "completed" => l.status = "completed"
                        /\ l.status = "completed" => ~run[l.run].timedOut
    /\ \A o \in observed : o.at = "elsewhere" => o.kind = "sign"

\* Evidence.  The file behind the row of an integration is its own output; that
\* of a tool may be another run's of the same tool in the same job
\* (writeTextArtifact with the paths of the two executors).
OwnEvidence ==
    \A e \in rows : \/ file[e.file] = e.run
                    \/ kind[e.run] = "tool" /\ kind[file[e.file]] = "tool" /\ e.run # file[e.file]

\* A program does not outlive its run, unless the process of the run was
\* stopped (killProcessTree, and runProcess that waits for 'close').
NoneOutlives == \A r \in Runs : run[r].phase = "done" => run[r].leader # "up"

\* A tool that has exited while a descendant holds its stdout.
Deserted(r) == kind[r] = "tool" /\ run[r].leader # "up" /\ run[r].holder

\* Every run settles and is reported or stopped.  A tool has no fallback: where
\* a descendant keeps the pipe open after the tool is gone, its run waits for
\* that, timeout or not (runProcess of the two executors).
RunsSettle ==
    \A r \in Runs : run[r].phase = "running" ~> (run[r].phase \in {"done", "gone"} \/ Deserted(r))
=============================================================================
