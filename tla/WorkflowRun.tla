---------------------------- MODULE WorkflowRun ----------------------------
(***************************************************************************)
(* WorkflowRunner (src/workflows/run-workflow.ts): `bounty run` and        *)
(* `bounty jobs resume`.  A run takes the units of a pipeline in order: a  *)
(* unit is a local phase (research-note, d-research-skill, planner,        *)
(* triage, reports), a seeded one (safe-checks, js-analyzer, playwright)   *)
(* at one target, or an external component.  Each unit leaves its result   *)
(* in the checkpoint file of the job, from which a later job resumes.  The *)
(* job row is in SQLite, the checkpoint is a file: nothing keeps the two   *)
(* together.                                                               *)
(***************************************************************************)
EXTENDS Naturals, Sequences, FiniteSets

CONSTANTS Pipeline,  \* the units of one run, in order
          Kind,      \* how the phase of a unit works
          MaxJobs,   \* bound: jobs of a behaviour
          MaxFaults  \* bound: exceptions out of place and crashes

Units == {Pipeline[i] : i \in DOMAIN Pipeline}
Jobs  == 1 .. MaxJobs

\* A unit is named by its phase and target, and no two have the same name.
ASSUME PipelineAssumption ==
    /\ Pipeline \in Seq(Units)
    /\ \A i, j \in DOMAIN Pipeline : Pipeline[i] = Pipeline[j] => i = j
    /\ Kind \in [Units -> {"local", "seeded", "external"}]
    /\ MaxJobs \in Nat /\ MaxFaults \in Nat

VARIABLES
    row,    \* row[j]: the status in the jobs table
    file,   \* file[j]: the checkpoint on disk
    run,    \* run[j]: the process of job j and its summary in memory
    parent, \* parent[j]: the job j resumes, 0 if none
    fresh,  \* fresh[j]: j was given overrides that change the execution
    done,   \* done[j]: the units whose work job j has brought to its end
    faults, \* exceptions out of place and crashes so far
    struck, \* the jobs they struck
    early   \* the jobs resumed while their process was still alive

vars == <<row, file, run, parent, fresh, done, faults, struck, early>>

Results  == {"none", "completed", "failed", "planned", "skipped"}
Summary  == [status : {"queued", "running", "failed", "completed"},
             phases : [Units -> Results],  \* phases[], by unit
             reused : SUBSET Units]        \* resumeSkippedWork[]
NoFile   == [status |-> "absent"]
TornFile == [status |-> "torn"]
Readable(j) == file[j] \notin {NoFile, TornFile}

(***************************************************************************)
(* A process is: off; created (the row is queued), begun (running, first   *)
(* checkpoint not written), at the next unit, working, recording a result, *)
(* writing it to the checkpoint, catching an exception, closing or leaving *)
(* (the final summary is on disk, by the try or by the catch block, and    *)
(* the row not updated), announcing (the row is completed, the event not   *)
(* stored).                                                                *)
(***************************************************************************)
Places == {"off", "created", "begun", "next", "working", "recording", "writing",
           "catching", "closing", "leaving", "announcing"}
Process == [at : Places,
            unit : 1 .. Len(Pipeline) + 1,
            result : Results,
            skip : SUBSET Units,
            summary : Summary]

NewSummary == [status |-> "queued", phases |-> [u \in Units |-> "none"], reused |-> {}]
Off == [at |-> "off", unit |-> 1, result |-> "none", skip |-> {}, summary |-> NewSummary]

At(j, place) == run[j].at = place
Alive(j) == ~At(j, "off")
Unit(j) == Pipeline[run[j].unit]

\* How a step of the process of j leaves it.
Becomes(j, place, unit, result, summary) ==
    run' = [run EXCEPT ![j] = [at |-> place, unit |-> unit, result |-> result,
                               skip |-> run[j].skip, summary |-> summary]]
Goes(j, place) == Becomes(j, place, run[j].unit, run[j].result, run[j].summary)
Yields(j, result) == Becomes(j, "recording", run[j].unit, result, run[j].summary)
Reports(j, place, status) ==
    Becomes(j, place, run[j].unit, "none",
            [status |-> status, phases |-> run[j].summary.phases,
             reused |-> run[j].summary.reused])
Stops(j) == run' = [run EXCEPT ![j] = Off]
-----------------------------------------------------------------------------
Init == /\ row = [j \in Jobs |-> "absent"]
        /\ file = [j \in Jobs |-> NoFile]
        /\ run = [j \in Jobs |-> Off]
        /\ parent = [j \in Jobs |-> 0]
        /\ fresh = [j \in Jobs |-> FALSE]
        /\ done = [j \in Jobs |-> {}]
        /\ faults = 0
        /\ struck = {}
        /\ early = {}

(***************************************************************************)
(* run up to its try block: the job row is queued, then running, then the  *)
(* first checkpoint is written.                                            *)
(***************************************************************************)
Create(j, skip) ==
    /\ row[j] = "absent"
    /\ \A i \in 1 .. j - 1 : row[i] # "absent"
    /\ row' = [row EXCEPT ![j] = "queued"]
    /\ run' = [run EXCEPT ![j] =
          [at |-> "created", unit |-> 1, result |-> "none", skip |-> skip,
           summary |-> NewSummary]]

Run(j) ==
    /\ Create(j, {})
    /\ UNCHANGED <<file, parent, fresh, done, faults, struck, early>>

\* Mutant: only a run that failed by itself leaves progress, not a killed one.
ResumableFailedOnly(f) ==
    IF f.status = "failed" THEN {u \in Units : f.phases[u] = "completed"} ELSE {}

\* Mutant: what was planned or failed counts as progress too.
ResumableEager(f) == {u \in Units : f.phases[u] # "none"}

\* resumableProgress: what the checkpoint says was completed, nothing else.
Resumable(f) == {u \in Units : f.phases[u] = "completed"}

(***************************************************************************)
(* resume: a new job over the checkpoint of an old one, whether or not the *)
(* old job still runs.  A completed one is returned as it is unless an     *)
(* override changes the execution; with such an override nothing is        *)
(* skipped.                                                                *)
(***************************************************************************)
Resume(j, k, override) ==
    /\ Readable(j)
    /\ override \/ file[j].status # "completed"
    /\ Create(k, IF override THEN {} ELSE Resumable(file[j]))
    /\ parent' = [parent EXCEPT ![k] = j]
    /\ fresh' = [fresh EXCEPT ![k] = override]
    /\ early' = IF Alive(j) THEN early \cup {j} ELSE early
    /\ UNCHANGED <<file, done, faults, struck>>

Begin(j) ==
    /\ At(j, "created")
    /\ row' = [row EXCEPT ![j] = "running"]
    /\ Reports(j, "begun", "running")
    /\ UNCHANGED <<file, parent, fresh, done, faults, struck, early>>

Save(j) == file' = [file EXCEPT ![j] = run'[j].summary]

FirstCheckpoint(j) ==
    /\ At(j, "begun")
    /\ Goes(j, "next")
    /\ Save(j)
    /\ UNCHANGED <<row, parent, fresh, done, faults, struck, early>>
-----------------------------------------------------------------------------
(***************************************************************************)
(* One unit.  skipResumePhase and skipResumeSeedPhase record it as skipped *)
(* when the resumed job completed it.  Otherwise the phase is skipped for  *)
(* reasons of its own (not selected, no seed, not ready) or goes to work.  *)
(* A seeded one first queues its action: policy may block it, which throws *)
(* out of the whole run, or want an approval, which leaves it planned.     *)
(***************************************************************************)
HasUnit(j) == At(j, "next") /\ run[j].unit <= Len(Pipeline)

Skip(j) ==
    /\ HasUnit(j)
    /\ Unit(j) \in run[j].skip
    /\ Becomes(j, "recording", run[j].unit, "skipped",
               [status |-> run[j].summary.status, phases |-> run[j].summary.phases,
                reused |-> run[j].summary.reused \cup {Unit(j)}])
    /\ UNCHANGED <<row, file, parent, fresh, done, faults, struck, early>>

Plan(j) ==
    /\ HasUnit(j)
    /\ Unit(j) \notin run[j].skip
    /\ \/ Goes(j, "working")
       \/ Yields(j, "skipped")
       \/ Kind[Unit(j)] = "seeded" /\ (Goes(j, "catching") \/ Yields(j, "planned"))
    /\ UNCHANGED <<row, file, parent, fresh, done, faults, struck, early>>

(***************************************************************************)
(* The work.  A local phase has no catch of its own: what it throws, such  *)
(* as a policy block of the planner, ends the run.  It is planned when it  *)
(* leaves actions to be approved.                                          *)
(***************************************************************************)
Finishes(j) == done' = [done EXCEPT ![j] = @ \cup {Unit(j)}]

WorkLocal(j) ==
    /\ Kind[Unit(j)] = "local"
    /\ \/ Finishes(j) /\ Yields(j, "completed")
       \/ UNCHANGED done /\ (Yields(j, "planned") \/ Goes(j, "catching"))

(***************************************************************************)
(* A seeded phase records what it catches as failed, and fails the action. *)
(* Its result may be lost: the work ends, the calls after it (audit,       *)
(* markExecuted) throw, and so may actions.fail if another process settled *)
(* the action.                                                             *)
(***************************************************************************)
WorkSeeded(j) ==
    /\ Kind[Unit(j)] = "seeded"
    /\ \/ Finishes(j) /\ Yields(j, "completed")
       \/ /\ UNCHANGED done \/ Finishes(j)
          /\ Yields(j, "failed") \/ Goes(j, "catching")

(***************************************************************************)
(* An external component runs its action at every seed and catches what    *)
(* each of them throws: one that fails makes the phase failed, one that    *)
(* waits for approval leaves it planned.                                   *)
(***************************************************************************)
WorkExternal(j) ==
    /\ Kind[Unit(j)] = "external"
    /\ \/ Finishes(j) /\ Yields(j, "completed")
       \/ (UNCHANGED done \/ Finishes(j)) /\ Yields(j, "failed")
       \/ UNCHANGED done /\ (Yields(j, "planned") \/ Yields(j, "skipped"))

Work(j) ==
    /\ At(j, "working")
    /\ WorkLocal(j) \/ WorkSeeded(j) \/ WorkExternal(j)
    /\ UNCHANGED <<row, file, parent, fresh, faults, struck, early>>

\* recordPhase: the phase in memory and its event, then the checkpoint.
Record(j) ==
    /\ At(j, "recording")
    /\ Becomes(j, "writing", run[j].unit, run[j].result,
               [status |-> run[j].summary.status,
                phases |-> [run[j].summary.phases EXCEPT ![Unit(j)] = run[j].result],
                reused |-> run[j].summary.reused])
    /\ UNCHANGED <<row, file, parent, fresh, done, faults, struck, early>>

Checkpoint(j) ==
    /\ At(j, "writing")
    /\ Becomes(j, "next", run[j].unit + 1, "none", run[j].summary)
    /\ Save(j)
    /\ UNCHANGED <<row, parent, fresh, done, faults, struck, early>>
-----------------------------------------------------------------------------
(***************************************************************************)
(* After the last unit: a failed phase makes the run failed.  The summary  *)
(* is written first, the job row is updated after it, and the event of a   *)
(* completed run comes last.                                               *)
(***************************************************************************)
\* Mutant: failed phases are not looked at.
VerdictBlind(s) == "completed"

\* Mutant: a run with planned phases ends with their status.
VerdictPlanned(s) ==
    IF \E u \in Units : s.phases[u] = "failed" THEN "failed"
    ELSE IF \E u \in Units : s.phases[u] = "planned" THEN "planned" ELSE "completed"

Verdict(s) == IF \E u \in Units : s.phases[u] = "failed" THEN "failed" ELSE "completed"

Seal(j) ==
    /\ At(j, "next")
    /\ run[j].unit > Len(Pipeline)
    /\ Reports(j, "closing", Verdict(run[j].summary))
    /\ Save(j)
    /\ UNCHANGED <<row, parent, fresh, done, faults, struck, early>>

\* The catch block of run: the same, with status failed.
Catch(j) ==
    /\ At(j, "catching")
    /\ Reports(j, "leaving", "failed")
    /\ Save(j)
    /\ UNCHANGED <<row, parent, fresh, done, faults, struck, early>>

\* jobs.updateStatus: a completed row does not become failed, it throws.
Close(j) ==
    /\ At(j, "closing") \/ At(j, "leaving")
    /\ IF row[j] = "running" THEN row' = [row EXCEPT ![j] = run[j].summary.status]
                             ELSE UNCHANGED row
    /\ IF run[j].summary.status = "completed" THEN Goes(j, "announcing") ELSE Stops(j)
    /\ UNCHANGED <<file, parent, fresh, done, faults, struck, early>>

Announce(j) ==
    /\ At(j, "announcing")
    /\ Stops(j)
    /\ UNCHANGED <<row, file, parent, fresh, done, faults, struck, early>>
-----------------------------------------------------------------------------
(***************************************************************************)
(* Faults.  A statement or a file write throws: inside the try block the   *)
(* run goes on in the catch block, elsewhere the process ends.  A crash    *)
(* ends it anywhere, and in the middle of writing the checkpoint, which    *)
(* writeFileSync truncates first, leaves a torn file.                      *)
(***************************************************************************)
Fault(j) ==
    /\ faults < MaxFaults
    /\ faults' = faults + 1
    /\ struck' = struck \cup {j}
    /\ UNCHANGED <<row, parent, fresh, done, early>>

InTry(j) == run[j].at \in {"next", "working", "recording", "writing", "closing",
                           "announcing"}

Exception(j) ==
    /\ Alive(j) /\ Fault(j)
    /\ IF InTry(j) THEN Goes(j, "catching") ELSE Stops(j)
    /\ UNCHANGED file

Writes(j) == \/ run[j].at \in {"begun", "writing", "catching"}
             \/ At(j, "next") /\ run[j].unit > Len(Pipeline)

Crash(j) ==
    /\ Alive(j) /\ Fault(j)
    /\ Stops(j)
    /\ \/ UNCHANGED file
       \/ Writes(j) /\ file' = [file EXCEPT ![j] = TornFile]
-----------------------------------------------------------------------------
Step(j) == \/ Begin(j) \/ FirstCheckpoint(j) \/ Skip(j) \/ Plan(j) \/ Work(j)
           \/ Record(j) \/ Checkpoint(j) \/ Seal(j) \/ Catch(j) \/ Close(j) \/ Announce(j)

Next == \E j \in Jobs :
           \/ Run(j) \/ Step(j) \/ Exception(j) \/ Crash(j)
           \/ \E i \in 1 .. j - 1, override \in BOOLEAN : Resume(i, j, override)

Spec == Init /\ [][Next]_vars

\* A process that runs goes on; nobody has to start or resume one.
FairSpec == Spec /\ \A j \in Jobs : WF_vars(Step(j))
-----------------------------------------------------------------------------
(***************************************************************************)
(* Every variable has its type.                                            *)
(***************************************************************************)
TypeOK ==
    /\ row \in [Jobs -> {"absent", "queued", "running", "failed", "completed"}]
    /\ file \in [Jobs -> Summary \cup {NoFile, TornFile}]
    /\ run \in [Jobs -> Process]
    /\ parent \in [Jobs -> 0 .. MaxJobs]
    /\ fresh \in [Jobs -> BOOLEAN]
    /\ done \in [Jobs -> SUBSET Units]
    /\ faults \in 0 .. MaxFaults
    /\ struck \subseteq Jobs /\ early \subseteq Jobs

(***************************************************************************)
(* A checkpoint never claims work that was not brought to its end: what it *)
(* calls completed its own job did, and what it calls reused the job it    *)
(* resumed did, through every crash and exception.                         *)
(***************************************************************************)
CheckpointIsTrue ==
    \A j \in Jobs : Readable(j) =>
        /\ \A u \in Units : file[j].phases[u] = "completed" => u \in done[j]
        /\ \A u \in file[j].reused : parent[j] # 0 /\ u \in done[parent[j]]

(***************************************************************************)
(* A workflow that reports completed left no unit out and none failed.     *)
(***************************************************************************)
CompletedIsWhole ==
    \A j \in Jobs : file[j].status = "completed" =>
        \A u \in Units : file[j].phases[u] \in {"completed", "planned", "skipped"}

(***************************************************************************)
(* A job whose process is gone has settled, row and checkpoint agreeing,   *)
(* unless a fault struck it: nobody repairs the row afterwards.            *)
(***************************************************************************)
EndsAgree ==
    \A j \in Jobs : row[j] # "absent" /\ ~Alive(j) /\ j \notin struck =>
        row[j] = file[j].status /\ row[j] \in {"failed", "completed"}

(***************************************************************************)
(* The row claims no more than the checkpoint: it is completed only when   *)
(* the summary on disk is, or a fault struck after that.                   *)
(***************************************************************************)
RowIsBehindFile ==
    \A j \in Jobs : row[j] = "completed" =>
        file[j].status = "completed" \/ j \in struck

(***************************************************************************)
(* How a run ended is what its row and its checkpoint say: the three       *)
(* properties above.                                                       *)
(***************************************************************************)
EndsAreTrue == CompletedIsWhole /\ EndsAgree /\ RowIsBehindFile

(***************************************************************************)
(* One resume repeats no work that was saved: what the checkpoint of the   *)
(* resumed job calls completed is not done again, however that job ended,  *)
(* unless an override asked for it or the job was still running.           *)
(***************************************************************************)
HopIsIncremental ==
    \A j, k \in Jobs : parent[k] = j /\ j # 0 /\ ~fresh[k] /\ Readable(j) =>
        \A u \in done[k] : file[j].phases[u] # "completed" \/ j \in early

(***************************************************************************)
(* "Resume is incremental: unchanged completed global phases are skipped,  *)
(* seed-scoped phases [...] resume per target" (README, Safe Workflow      *)
(* Guide, step 8), along a chain of resumes of failed jobs.                *)
(***************************************************************************)
ChainIsIncremental ==
    \A i, j, k \in Jobs :
        parent[k] = j /\ parent[j] = i /\ i # 0 /\ ~fresh[k] /\ ~fresh[j] =>
            \A u \in done[k] \cap done[i] :
                file[i].phases[u] # "completed" \/ {i, j} \cap early # {}

=============================================================================
