------------------------- MODULE WorkflowRun_proof -------------------------
(***************************************************************************)
(* What a checkpoint of WorkflowRun is worth, for every pipeline, number   *)
(* of jobs and number of faults: a chain of two invariants.  Sound says    *)
(* where the processes are; Honest adds what they and the files claim.     *)
(***************************************************************************)
EXTENDS WorkflowRun, TLAPS

\* A process is at a unit wherever it works on one.
AtUnit == \A j \in Jobs :
    run[j].at \in {"working", "recording", "writing"} => run[j].unit \in 1 .. Len(Pipeline)

\* A job nobody created has left no trace.
Untouched == \A j \in Jobs : row[j] = "absent" =>
    file[j] = NoFile /\ run[j] = Off /\ parent[j] = 0 /\ done[j] = {}

Sound == TypeOK /\ AtUnit

LEMMA UnitTyped ==
    ASSUME Sound, NEW j \in Jobs, run[j].at \in {"working", "recording", "writing"}
    PROVE  Unit(j) \in Units
<1>1. run[j].unit \in 1 .. Len(Pipeline)
  BY DEF Sound, AtUnit
<1>2. 1 .. Len(Pipeline) = DOMAIN Pipeline
  BY PipelineAssumption
<1> QED
  BY <1>1, <1>2 DEF Unit, Units

LEMMA LenIsNat == Len(Pipeline) \in Nat
  BY PipelineAssumption

LEMMA InitSound == Init => Sound
<1> SUFFICES ASSUME Init PROVE Sound
  OBVIOUS
<1> USE PipelineAssumption, LenIsNat
<1>1. NewSummary \in Summary
  BY DEF NewSummary, Summary, Results
<1>2. Off \in Process
  BY <1>1 DEF Off, Process, Places, Results
<1> QED
  BY <1>1, <1>2 DEF Init, Sound, TypeOK, AtUnit, Jobs, Off

\* The type a step of one process gives to run, whatever place it goes to.
LEMMA BecomesTyped ==
    ASSUME Sound, NEW j \in Jobs, NEW place \in Places, NEW unit \in 1 .. Len(Pipeline) + 1,
           NEW result \in Results, NEW summary \in Summary,
           Becomes(j, place, unit, result, summary)
    PROVE  /\ run' \in [Jobs -> Process]
           /\ \A i \in Jobs : i # j => run'[i] = run[i]
           /\ run'[j].at = place /\ run'[j].unit = unit /\ run'[j].result = result
           /\ run'[j].skip = run[j].skip /\ run'[j].summary = summary
<1>1. run \in [Jobs -> Process] /\ run[j].skip \in SUBSET Units
  BY DEF Sound, TypeOK, Process
<1> QED
  BY <1>1 DEF Becomes, Process

LEMMA Fields ==
    ASSUME Sound, NEW j \in Jobs
    PROVE  /\ run[j].at \in Places
           /\ run[j].unit \in 1 .. Len(Pipeline) + 1
           /\ run[j].result \in Results
           /\ run[j].skip \in SUBSET Units
           /\ run[j].summary \in Summary
           /\ run[j].summary.status \in {"queued", "running", "failed", "completed"}
           /\ run[j].summary.phases \in [Units -> Results]
           /\ run[j].summary.reused \in SUBSET Units
  BY DEF Sound, TypeOK, Process, Summary

LEMMA GoesTyped ==
    ASSUME Sound, NEW j \in Jobs, NEW place \in Places, Goes(j, place)
    PROVE  /\ run' \in [Jobs -> Process]
           /\ \A i \in Jobs : i # j => run'[i] = run[i]
           /\ run'[j].at = place /\ run'[j].unit = run[j].unit
           /\ run'[j].result = run[j].result
           /\ run'[j].skip = run[j].skip /\ run'[j].summary = run[j].summary
  BY Fields, BecomesTyped DEF Goes

LEMMA YieldsTyped ==
    ASSUME Sound, NEW j \in Jobs, NEW result \in Results, Yields(j, result)
    PROVE  /\ run' \in [Jobs -> Process]
           /\ \A i \in Jobs : i # j => run'[i] = run[i]
           /\ run'[j].at = "recording" /\ run'[j].unit = run[j].unit
           /\ run'[j].result = result
           /\ run'[j].skip = run[j].skip /\ run'[j].summary = run[j].summary
<1>1. "recording" \in Places
  BY DEF Places
<1> QED
  BY <1>1, Fields, BecomesTyped DEF Yields

LEMMA ReportsTyped ==
    ASSUME Sound, NEW j \in Jobs, NEW place \in Places,
           NEW status \in {"queued", "running", "failed", "completed"},
           Reports(j, place, status)
    PROVE  /\ run' \in [Jobs -> Process]
           /\ \A i \in Jobs : i # j => run'[i] = run[i]
           /\ run'[j].at = place /\ run'[j].unit = run[j].unit
           /\ run'[j].result = "none" /\ run'[j].skip = run[j].skip
           /\ run'[j].summary.status = status
           /\ run'[j].summary.phases = run[j].summary.phases
           /\ run'[j].summary.reused = run[j].summary.reused
           /\ run'[j].summary \in Summary
<1>1. [status |-> status, phases |-> run[j].summary.phases,
       reused |-> run[j].summary.reused] \in Summary
  BY Fields DEF Summary
<1>2. "none" \in Results
  BY DEF Results
<1> QED
  BY <1>1, <1>2, Fields, BecomesTyped DEF Reports

LEMMA StopsTyped ==
    ASSUME Sound, NEW j \in Jobs, Stops(j)
    PROVE  /\ run' \in [Jobs -> Process]
           /\ \A i \in Jobs : i # j => run'[i] = run[i]
           /\ run'[j] = Off
<1>1. NewSummary \in Summary
  BY DEF NewSummary, Summary, Results
<1>2. Off \in Process
  BY <1>1, LenIsNat DEF Off, Process, Places, Results
<1> QED
  BY <1>2 DEF Stops, Sound, TypeOK

LEMMA SaveTyped ==
    ASSUME Sound, NEW j \in Jobs, run'[j].summary \in Summary, Save(j)
    PROVE  file' \in [Jobs -> Summary \cup {NoFile, TornFile}]
  BY DEF Sound, TypeOK, Save

\* AtUnit only looks at the process that moved.
LEMMA AtUnitStep ==
    ASSUME Sound, NEW j \in Jobs,
           \A i \in Jobs : i # j => run'[i] = run[i],
           run'[j].at \in {"working", "recording", "writing"} =>
               run'[j].unit \in 1 .. Len(Pipeline)
    PROVE  AtUnit'
  BY DEF Sound, AtUnit

LEMMA CreateSound ==
    ASSUME Sound, NEW j \in Jobs, NEW skip \in SUBSET Units, Create(j, skip)
    PROVE  /\ run' \in [Jobs -> Process]
           /\ \A i \in Jobs : i # j => run'[i] = run[i]
           /\ run'[j] = [at |-> "created", unit |-> 1, result |-> "none", skip |-> skip,
                         summary |-> NewSummary]
           /\ row' \in [Jobs -> {"absent", "queued", "running", "failed", "completed"}]
           /\ AtUnit'
<1> DEFINE new == [at |-> "created", unit |-> 1, result |-> "none", skip |-> skip,
                   summary |-> NewSummary]
<1>1. NewSummary \in Summary
  BY DEF NewSummary, Summary, Results
<1>2. new \in Process
  BY <1>1, LenIsNat DEF Process, Places, Results
<1>3. run' = [run EXCEPT ![j] = new]
  BY DEF Create
<1> HIDE DEF new
<1>4. /\ run' \in [Jobs -> Process]
      /\ \A i \in Jobs : i # j => run'[i] = run[i]
      /\ run'[j] = new
  BY <1>2, <1>3 DEF Sound, TypeOK
<1>5. row' \in [Jobs -> {"absent", "queued", "running", "failed", "completed"}]
  BY DEF Create, Sound, TypeOK
<1>6. run'[j].at = "created"
  BY <1>4 DEF new
<1>7. AtUnit'
  BY <1>4, <1>6, AtUnitStep
<1> QED
  BY <1>4, <1>5, <1>7 DEF new

LEMMA ResumableTyped == \A f : Resumable(f) \in SUBSET Units
  BY DEF Resumable

\* What the work of the three kinds of units has in common.
LEMMA WorkCases ==
    ASSUME NEW j \in Jobs, Work(j)
    PROVE  /\ At(j, "working")
           /\ UNCHANGED <<row, file, parent, fresh, faults, struck, early>>
           /\ \/ Yields(j, "completed") /\ Finishes(j)
              \/ /\ done' = done \/ Finishes(j)
                 /\ \/ Goes(j, "catching")
                    \/ \E result \in {"failed", "planned", "skipped"} : Yields(j, result)
  BY DEF Work, WorkLocal, WorkSeeded, WorkExternal

LEMMA StepSound ==
    ASSUME Sound, NEW j \in Jobs, Step(j)
    PROVE  Sound'
<1> USE DEF Sound
<1>0. /\ {"begun", "next", "working", "recording", "writing", "catching",
           "closing", "leaving", "announcing"} \subseteq Places
      /\ {"none", "skipped", "planned", "completed", "failed"} \subseteq Results
      /\ run[j].at \in {"working", "recording", "writing"} =>
            run[j].unit \in 1 .. Len(Pipeline)
  BY DEF Places, Results, AtUnit
<1>1. CASE Begin(j)
  <2>1. /\ run' \in [Jobs -> Process]
        /\ \A i \in Jobs : i # j => run'[i] = run[i]
        /\ run'[j].at = "begun"
    BY <1>0, <1>1, ReportsTyped DEF Begin
  <2>2. row' \in [Jobs -> {"absent", "queued", "running", "failed", "completed"}]
    BY <1>1 DEF Begin, TypeOK
  <2>3. AtUnit'
    BY <2>1, AtUnitStep
  <2> QED
    BY <1>1, <2>1, <2>2, <2>3 DEF Begin, TypeOK
<1>2. CASE FirstCheckpoint(j)
  <2>1. /\ run' \in [Jobs -> Process]
        /\ \A i \in Jobs : i # j => run'[i] = run[i]
        /\ run'[j].at = "next"
        /\ run'[j].summary \in Summary
    BY <1>0, <1>2, GoesTyped, Fields DEF FirstCheckpoint
  <2>2. file' \in [Jobs -> Summary \cup {NoFile, TornFile}]
    BY <1>2, <2>1, SaveTyped DEF FirstCheckpoint
  <2>3. AtUnit'
    BY <2>1, AtUnitStep
  <2> QED
    BY <1>2, <2>1, <2>2, <2>3 DEF FirstCheckpoint, TypeOK
<1>3. CASE Skip(j)
  <2> DEFINE s == [status |-> run[j].summary.status, phases |-> run[j].summary.phases,
                   reused |-> run[j].summary.reused \cup {Unit(j)}]
  <2>1. run[j].unit \in 1 .. Len(Pipeline)
    BY <1>3, Fields, LenIsNat DEF Skip, HasUnit
  <2>2. Unit(j) \in Units
    BY <2>1, PipelineAssumption DEF Unit, Units
  <2>3. s \in Summary
    BY <2>2, Fields DEF Summary
  <2>4. Becomes(j, "recording", run[j].unit, "skipped", s)
    BY <1>3 DEF Skip
  <2> HIDE DEF s
  <2>5. /\ run' \in [Jobs -> Process]
        /\ \A i \in Jobs : i # j => run'[i] = run[i]
        /\ run'[j].unit = run[j].unit
    BY <1>0, <2>3, <2>4, Fields, BecomesTyped
  <2>6. AtUnit'
    BY <2>1, <2>5, AtUnitStep
  <2> QED
    BY <1>3, <2>5, <2>6 DEF Skip, TypeOK
<1>4. CASE Plan(j)
  <2>1. run[j].unit \in 1 .. Len(Pipeline)
    BY <1>4, Fields, LenIsNat DEF Plan, HasUnit
  <2>2. /\ run' \in [Jobs -> Process]
        /\ \A i \in Jobs : i # j => run'[i] = run[i]
        /\ run'[j].unit = run[j].unit
    BY <1>0, <1>4, GoesTyped, YieldsTyped DEF Plan
  <2>3. AtUnit'
    BY <2>1, <2>2, AtUnitStep
  <2> QED
    BY <1>4, <2>2, <2>3 DEF Plan, TypeOK
<1>5. CASE Work(j)
  <2>1. /\ run[j].unit \in 1 .. Len(Pipeline)
        /\ Unit(j) \in Units
    BY <1>0, <1>5, UnitTyped, WorkCases DEF Finishes, At
  <2>2. /\ run' \in [Jobs -> Process]
        /\ \A i \in Jobs : i # j => run'[i] = run[i]
        /\ run'[j].unit = run[j].unit
    BY <1>0, <1>5, GoesTyped, YieldsTyped, WorkCases DEF Finishes
  <2>3. done' \in [Jobs -> SUBSET Units]
    <3>1. done' = done \/ Finishes(j)
      BY <1>5, WorkCases
    <3>2. done \in [Jobs -> SUBSET Units]
      BY DEF Sound, TypeOK
    <3>3. Finishes(j) => done' \in [Jobs -> SUBSET Units]
      BY <2>1, <3>2 DEF Finishes
    <3> QED
      BY <3>1, <3>2, <3>3
  <2>4. AtUnit'
    BY <2>1, <2>2, AtUnitStep
  <2> QED
    BY <1>5, <2>2, <2>3, <2>4, WorkCases DEF Finishes, TypeOK
<1>6. CASE Record(j)
  <2> DEFINE s == [status |-> run[j].summary.status,
                   phases |-> [run[j].summary.phases EXCEPT ![Unit(j)] = run[j].result],
                   reused |-> run[j].summary.reused]
  <2>1. /\ run[j].unit \in 1 .. Len(Pipeline)
        /\ Unit(j) \in Units
    BY <1>0, <1>6, UnitTyped DEF Record, At
  <2>2. s \in Summary
    BY <2>1, Fields DEF Summary
  <2>3. Becomes(j, "writing", run[j].unit, run[j].result, s)
    BY <1>6 DEF Record
  <2> HIDE DEF s
  <2>4. /\ run' \in [Jobs -> Process]
        /\ \A i \in Jobs : i # j => run'[i] = run[i]
        /\ run'[j].unit = run[j].unit
    BY <1>0, <2>2, <2>3, Fields, BecomesTyped
  <2>5. AtUnit'
    BY <2>1, <2>4, AtUnitStep
  <2> QED
    BY <1>6, <2>4, <2>5 DEF Record, TypeOK
<1>7. CASE Checkpoint(j)
  <2>1. run[j].unit + 1 \in 1 .. Len(Pipeline) + 1
    BY <1>0, <1>7, LenIsNat DEF Checkpoint, At
  <2>2. /\ run' \in [Jobs -> Process]
        /\ \A i \in Jobs : i # j => run'[i] = run[i]
        /\ run'[j].at = "next"
        /\ run'[j].summary \in Summary
    BY <1>0, <1>7, <2>1, Fields, BecomesTyped DEF Checkpoint
  <2>3. file' \in [Jobs -> Summary \cup {NoFile, TornFile}]
    BY <1>7, <2>2, SaveTyped DEF Checkpoint
  <2>4. AtUnit'
    BY <2>2, AtUnitStep
  <2> QED
    BY <1>7, <2>2, <2>3, <2>4 DEF Checkpoint, TypeOK
<1>8. CASE Seal(j) \/ Catch(j)
  <2>1. Verdict(run[j].summary) \in {"queued", "running", "failed", "completed"}
    BY DEF Verdict
  <2>2. /\ run' \in [Jobs -> Process]
        /\ \A i \in Jobs : i # j => run'[i] = run[i]
        /\ run'[j].at \in {"closing", "leaving"}
        /\ run'[j].summary \in Summary
    BY <1>0, <1>8, <2>1, ReportsTyped DEF Seal, Catch
  <2>3. file' \in [Jobs -> Summary \cup {NoFile, TornFile}]
    BY <1>8, <2>2, SaveTyped DEF Seal, Catch
  <2>4. AtUnit'
    BY <2>2, AtUnitStep
  <2> QED
    BY <1>8, <2>2, <2>3, <2>4 DEF Seal, Catch, TypeOK
<1>9. CASE Close(j) \/ Announce(j)
  <2>1. /\ run' \in [Jobs -> Process]
        /\ \A i \in Jobs : i # j => run'[i] = run[i]
        /\ run'[j].at \in {"announcing", "off"}
    BY <1>0, <1>9, GoesTyped, StopsTyped DEF Close, Announce, Off
  <2>2. row' \in [Jobs -> {"absent", "queued", "running", "failed", "completed"}]
    BY <1>9, Fields DEF Close, Announce, TypeOK
  <2>3. AtUnit'
    BY <2>1, AtUnitStep
  <2> QED
    BY <1>9, <2>1, <2>2, <2>3 DEF Close, Announce, TypeOK
<1> QED
  BY <1>1, <1>2, <1>3, <1>4, <1>5, <1>6, <1>7, <1>8, <1>9 DEF Step

LEMMA FaultSound ==
    ASSUME Sound, NEW j \in Jobs, Exception(j) \/ Crash(j)
    PROVE  /\ Sound'
           /\ \A i \in Jobs : i # j => run'[i] = run[i]
           /\ Alive(j)
           /\ \/ run'[j] = Off
              \/ /\ run'[j].at = "catching" /\ run'[j].skip = run[j].skip
                 /\ run'[j].summary = run[j].summary
           /\ \A i \in Jobs : file'[i] = file[i] \/ (i = j /\ file'[i] = TornFile)
<1>0. "catching" \in Places
  BY DEF Places
<1>1. /\ run' \in [Jobs -> Process]
      /\ \A i \in Jobs : i # j => run'[i] = run[i]
      /\ \/ run'[j] = Off
         \/ /\ run'[j].at = "catching" /\ run'[j].skip = run[j].skip
            /\ run'[j].summary = run[j].summary
  BY <1>0, GoesTyped, StopsTyped DEF Exception, Crash
<1>2. run'[j].at \in {"off", "catching"}
  BY <1>1 DEF Off
<1>3. AtUnit'
  BY <1>1, <1>2, AtUnitStep
<1>4. faults' \in 0 .. MaxFaults /\ struck' \subseteq Jobs
  BY PipelineAssumption DEF Exception, Crash, Fault, Sound, TypeOK
<1>5. /\ file' \in [Jobs -> Summary \cup {NoFile, TornFile}]
      /\ \A i \in Jobs : file'[i] = file[i] \/ (i = j /\ file'[i] = TornFile)
  BY DEF Exception, Crash, Sound, TypeOK
<1>6. Alive(j)
  BY DEF Exception, Crash
<1> QED
  BY <1>1, <1>3, <1>4, <1>5, <1>6 DEF Exception, Crash, Fault, Sound, TypeOK

LEMMA NextSound == Sound /\ [Next]_vars => Sound'
<1> SUFFICES ASSUME Sound, [Next]_vars PROVE Sound'
  OBVIOUS
<1>1. ASSUME NEW j \in Jobs, Run(j) PROVE Sound'
  <2>1. {} \in SUBSET Units
    OBVIOUS
  <2> QED
    BY <1>1, <2>1, CreateSound DEF Run, Sound, TypeOK
<1>2. ASSUME NEW i \in Jobs, NEW j \in Jobs, NEW override \in BOOLEAN, Resume(i, j, override)
      PROVE  Sound'
  <2> DEFINE skip == IF override THEN {} ELSE Resumable(file[i])
  <2>1. skip \in SUBSET Units
    BY ResumableTyped
  <2>2. Create(j, skip)
    BY <1>2 DEF Resume
  <2> HIDE DEF skip
  <2>3. /\ parent' \in [Jobs -> 0 .. MaxJobs]
        /\ fresh' \in [Jobs -> BOOLEAN]
        /\ early' \subseteq Jobs
    BY <1>2, PipelineAssumption DEF Resume, Sound, TypeOK, Jobs
  <2> QED
    BY <1>2, <2>1, <2>2, <2>3, CreateSound DEF Resume, Sound, TypeOK
<1>3. ASSUME NEW j \in Jobs, Step(j) PROVE Sound'
  BY <1>3, StepSound
<1>4. ASSUME NEW j \in Jobs, Exception(j) \/ Crash(j) PROVE Sound'
  BY <1>4, FaultSound
<1>5. CASE UNCHANGED vars
  BY <1>5 DEF vars, Sound, TypeOK, AtUnit
<1>6. \A j \in Jobs : \A i \in 1 .. j - 1 : i \in Jobs
  BY PipelineAssumption DEF Jobs
<1> QED
  BY <1>1, <1>2, <1>3, <1>4, <1>5, <1>6 DEF Next

LEMMA AlwaysSound == Spec => []Sound
<1> QED
  BY InitSound, NextSound, PTL DEF Spec

(***************************************************************************)
(* Every variable has its type, for every pipeline and every bound.        *)
(***************************************************************************)
THEOREM TypesHold == Spec => []TypeOK
<1>1. Sound => TypeOK
  BY DEF Sound
<1> QED
  BY <1>1, AlwaysSound, PTL
-----------------------------------------------------------------------------
(***************************************************************************)
(* The invariant behind CheckpointIsTrue: the summary in memory is true,   *)
(* and what a process will skip or has skipped its parent did.             *)
(***************************************************************************)
Memory == \A j \in Jobs :
    /\ \A u \in Units : run[j].summary.phases[u] = "completed" => u \in done[j]
    /\ run[j].at = "recording" /\ run[j].result = "completed" => Unit(j) \in done[j]
    /\ \A u \in run[j].skip \cup run[j].summary.reused :
          parent[j] # 0 /\ u \in done[parent[j]]

Honest == Untouched /\ Memory /\ CheckpointIsTrue

LEMMA InitHonest == Init => Honest
  BY DEF Init, Honest, Untouched, Memory, CheckpointIsTrue, Readable, Off, NewSummary

\* What a step of one process leaves alone.
LEMMA StepFrame ==
    ASSUME Sound, NEW j \in Jobs, Step(j)
    PROVE  /\ Alive(j)
           /\ \A i \in Jobs : i # j => /\ row'[i] = row[i] /\ file'[i] = file[i]
                                      /\ run'[i] = run[i] /\ done'[i] = done[i]
           /\ done[j] \subseteq done'[j]
           /\ file'[j] \in {file[j], run'[j].summary}
           /\ parent' = parent /\ fresh' = fresh /\ early' = early
           /\ row[j] # "absent" => row'[j] # "absent"
<1>1. Alive(j)
  BY WorkCases DEF Step, Alive, At, Begin, FirstCheckpoint, Skip, Plan, HasUnit,
         Finishes, Record, Checkpoint, Seal, Catch, Close, Announce
<1>2. /\ \A i \in Jobs : i # j => run'[i] = run[i]
  <2>1. \E new : run' = [run EXCEPT ![j] = new]
    BY WorkCases DEF Step, Begin, FirstCheckpoint, Skip, Plan, Finishes, Record,
           Checkpoint, Seal, Catch, Close, Announce, Goes, Yields, Reports, Becomes,
           Stops
  <2> QED
    BY <2>1 DEF Sound, TypeOK
<1>3. /\ \A i \in Jobs : i # j => file'[i] = file[i]
      /\ file'[j] \in {file[j], run'[j].summary}
  BY WorkCases DEF Step, Begin, FirstCheckpoint, Skip, Plan, Finishes, Record,
         Checkpoint, Seal, Catch, Close, Announce, Save, Sound, TypeOK
<1>4. /\ \A i \in Jobs : i # j => done'[i] = done[i]
      /\ done[j] \subseteq done'[j]
  BY WorkCases DEF Step, Begin, FirstCheckpoint, Skip, Plan, Finishes, Record,
         Checkpoint, Seal, Catch, Close, Announce, Sound, TypeOK
<1>5. parent' = parent /\ fresh' = fresh /\ early' = early
  BY WorkCases DEF Step, Begin, FirstCheckpoint, Skip, Plan, Finishes, Record,
         Checkpoint, Seal, Catch, Close, Announce
<1>6. /\ \A i \in Jobs : i # j => row'[i] = row[i]
      /\ row[j] # "absent" => row'[j] # "absent"
  <2>1. run[j].summary.status # "absent"
    BY Fields
  <2> QED
    BY <2>1, WorkCases DEF Step, Begin, FirstCheckpoint, Skip, Plan, Finishes, Record,
           Checkpoint, Seal, Catch, Close, Announce, Sound, TypeOK
<1> QED
  BY <1>1, <1>2, <1>3, <1>4, <1>5, <1>6

\* How a step changes the summary of its process.
LEMMA StepMemory ==
    ASSUME Sound, NEW j \in Jobs, Step(j)
    PROVE  \/ run'[j] = Off
           \/ /\ run'[j].skip = run[j].skip
              /\ \/ /\ run'[j].summary.phases = run[j].summary.phases
                    /\ run'[j].summary.reused = run[j].summary.reused
                    /\ \/ run'[j].at # "recording"
                       \/ run'[j].result # "completed"
                       \/ run'[j].unit = run[j].unit /\ Unit(j) \in done'[j]
                 \/ /\ run[j].at = "next" /\ Unit(j) \in run[j].skip
                    /\ run'[j].summary.phases = run[j].summary.phases
                    /\ run'[j].summary.reused = run[j].summary.reused \cup {Unit(j)}
                    /\ run'[j].result = "skipped"
                 \/ /\ run[j].at = "recording" /\ run'[j].at = "writing"
                    /\ run'[j].summary.reused = run[j].summary.reused
                    /\ run'[j].summary.phases =
                          [run[j].summary.phases EXCEPT ![Unit(j)] = run[j].result]
<1>0. /\ {"begun", "next", "working", "recording", "writing", "catching",
           "closing", "leaving", "announcing"} \subseteq Places
      /\ {"none", "skipped", "planned", "completed", "failed"} \subseteq Results
      /\ Verdict(run[j].summary) \in {"queued", "running", "failed", "completed"}
  BY DEF Places, Results, Verdict
<1>1. CASE Begin(j) \/ Seal(j) \/ Catch(j)
  BY <1>0, <1>1, ReportsTyped DEF Begin, Seal, Catch
<1>2. CASE FirstCheckpoint(j) \/ Close(j) \/ Announce(j)
  BY <1>0, <1>2, GoesTyped, StopsTyped DEF FirstCheckpoint, Close, Announce
<1>3. CASE Plan(j)
  BY <1>0, <1>3, GoesTyped, YieldsTyped DEF Plan
<1>4. CASE Work(j)
  <2>1. CASE Goes(j, "catching")
    BY <1>0, <2>1, GoesTyped
  <2>2. ASSUME NEW result \in {"failed", "planned", "skipped"}, Yields(j, result)
        PROVE  run'[j].skip = run[j].skip /\ run'[j].summary = run[j].summary
               /\ run'[j].result # "completed"
    BY <1>0, <2>2, YieldsTyped
  <2>3. CASE Yields(j, "completed") /\ Finishes(j)
    <3>1. Unit(j) \in done'[j]
      BY <2>3 DEF Finishes, Sound, TypeOK
    <3> QED
      BY <1>0, <2>3, <3>1, YieldsTyped
  <2> QED
    BY <1>4, <2>1, <2>2, <2>3, WorkCases DEF Finishes
<1>5. CASE Checkpoint(j)
  BY <1>5 DEF Checkpoint, Becomes, Sound, TypeOK
<1>6. CASE Skip(j)
  BY <1>6 DEF Skip, HasUnit, At, Becomes, Sound, TypeOK
<1>7. CASE Record(j)
  BY <1>7 DEF Record, At, Becomes, Sound, TypeOK
<1> QED
  BY <1>1, <1>2, <1>3, <1>4, <1>5, <1>6, <1>7 DEF Step

LEMMA StepHonest ==
    ASSUME Sound, Honest, NEW j \in Jobs, Step(j)
    PROVE  Honest'
<1>1. /\ Alive(j)
      /\ \A i \in Jobs : i # j => /\ row'[i] = row[i] /\ file'[i] = file[i]
                                 /\ run'[i] = run[i] /\ done'[i] = done[i]
      /\ done[j] \subseteq done'[j]
      /\ file'[j] \in {file[j], run'[j].summary}
      /\ parent' = parent
      /\ row[j] # "absent" => row'[j] # "absent"
  BY StepFrame
<1>2. \A i \in Jobs : done[i] \subseteq done'[i]
  BY <1>1
<1>3. row[j] # "absent"
  BY <1>1 DEF Honest, Untouched, Alive, At, Off
<1>4. Untouched'
  BY <1>1, <1>3 DEF Honest, Untouched
<1>5. \A i \in Jobs : parent[i] # 0 => parent[i] \in Jobs
  BY DEF Sound, TypeOK, Jobs
<1>6. ASSUME NEW i \in Jobs, i # j
      PROVE  /\ \A u \in Units : run'[i].summary.phases[u] = "completed" => u \in done'[i]
             /\ run'[i].at = "recording" /\ run'[i].result = "completed" => Unit(i)' \in done'[i]
             /\ \A u \in run'[i].skip \cup run'[i].summary.reused :
                   parent'[i] # 0 /\ u \in done'[parent'[i]]
  BY <1>1, <1>2, <1>5, <1>6 DEF Honest, Memory, Unit
<1>7. \A u \in Units : run'[j].summary.phases[u] = "completed" => u \in done'[j]
  <2>1. CASE run'[j] = Off
    BY <2>1 DEF Off, NewSummary
  <2>2. CASE run'[j].summary.phases = run[j].summary.phases
    BY <1>1, <2>2 DEF Honest, Memory
  <2>3. CASE /\ run[j].at = "recording"
             /\ run'[j].summary.phases =
                   [run[j].summary.phases EXCEPT ![Unit(j)] = run[j].result]
    <3>1. run[j].summary.phases \in [Units -> Results]
      BY Fields
    <3> QED
      BY <1>1, <2>3, <3>1 DEF Honest, Memory
  <2> QED
    BY <2>1, <2>2, <2>3, StepMemory
<1>8. run'[j].at = "recording" /\ run'[j].result = "completed" => Unit(j)' \in done'[j]
  <2>1. CASE run'[j] = Off
    BY <2>1 DEF Off
  <2>2. CASE run'[j].unit = run[j].unit /\ Unit(j) \in done'[j]
    BY <2>2 DEF Unit
  <2> QED
    BY <2>1, <2>2, StepMemory
<1>9. \A u \in run'[j].skip \cup run'[j].summary.reused :
          parent'[j] # 0 /\ u \in done'[parent'[j]]
  <2>1. CASE run'[j] = Off
    BY <2>1 DEF Off, NewSummary
  <2>2. CASE run'[j].skip \cup run'[j].summary.reused
                \subseteq run[j].skip \cup run[j].summary.reused
    BY <1>1, <1>2, <1>5, <2>2 DEF Honest, Memory
  <2> QED
    BY <2>1, <2>2, StepMemory
<1>10. Memory'
  BY <1>6, <1>7, <1>8, <1>9 DEF Memory
<1>11. CheckpointIsTrue'
  <2>1. ASSUME NEW i \in Jobs, Readable(i)'
        PROVE  /\ \A u \in Units : file'[i].phases[u] = "completed" => u \in done'[i]
               /\ \A u \in file'[i].reused : parent'[i] # 0 /\ u \in done'[parent'[i]]
    <3>1. CASE file'[i] = file[i]
      BY <1>1, <1>2, <1>5, <2>1, <3>1 DEF Honest, CheckpointIsTrue, Readable
    <3>2. CASE i = j /\ file'[i] = run'[j].summary
      BY <1>7, <1>9, <3>2
    <3> QED
      BY <1>1, <3>1, <3>2
  <2> QED
    BY <2>1 DEF CheckpointIsTrue
<1> QED
  BY <1>4, <1>10, <1>11 DEF Honest

LEMMA NewJobHonest ==
    ASSUME Sound, Honest, NEW j \in Jobs, NEW skip \in SUBSET Units, Create(j, skip),
           file' = file, done' = done,
           \A i \in Jobs : i # j => parent'[i] = parent[i],
           \A u \in skip : parent'[j] # 0 /\ u \in done[parent'[j]]
    PROVE  Honest'
<1>1. /\ \A i \in Jobs : i # j => run'[i] = run[i]
      /\ run'[j] = [at |-> "created", unit |-> 1, result |-> "none", skip |-> skip,
                    summary |-> NewSummary]
  BY CreateSound
<1>2. /\ row[j] = "absent" /\ row'[j] = "queued"
      /\ \A i \in Jobs : i # j => row'[i] = row[i]
  BY DEF Create, Sound, TypeOK
<1>3. file[j] = NoFile
  BY <1>2 DEF Honest, Untouched
<1>4. Untouched'
  BY <1>1, <1>2 DEF Honest, Untouched
<1>5. Memory'
  <2>1. ASSUME NEW i \in Jobs
        PROVE  /\ \A u \in Units : run'[i].summary.phases[u] = "completed" => u \in done'[i]
               /\ run'[i].at = "recording" /\ run'[i].result = "completed" => Unit(i)' \in done'[i]
               /\ \A u \in run'[i].skip \cup run'[i].summary.reused :
                     parent'[i] # 0 /\ u \in done'[parent'[i]]
    <3>1. CASE i = j
      BY <1>1, <3>1 DEF NewSummary
    <3>2. CASE i # j
      BY <1>1, <3>2 DEF Honest, Memory, Unit
    <3> QED
      BY <3>1, <3>2
  <2> QED
    BY <2>1 DEF Memory
<1>6. CheckpointIsTrue'
  BY <1>3 DEF Honest, CheckpointIsTrue, Readable
<1> QED
  BY <1>4, <1>5, <1>6 DEF Honest

LEMMA NextHonest == Sound /\ Honest /\ [Next]_vars => Honest'
<1> SUFFICES ASSUME Sound, Honest, [Next]_vars PROVE Honest'
  OBVIOUS
<1>0. \A j \in Jobs : \A i \in 1 .. j - 1 : i \in Jobs /\ i # j /\ i # 0
  BY PipelineAssumption DEF Jobs
<1>1. ASSUME NEW j \in Jobs, Run(j) PROVE Honest'
  BY <1>1, NewJobHonest DEF Run
<1>2. ASSUME NEW i \in Jobs, NEW j \in Jobs, i # 0, NEW override \in BOOLEAN,
             Resume(i, j, override)
      PROVE  Honest'
  <2> DEFINE skip == IF override THEN {} ELSE Resumable(file[i])
  <2>1. skip \in SUBSET Units
    BY ResumableTyped
  <2>2. Create(j, skip) /\ Readable(i) /\ file' = file /\ done' = done
    BY <1>2 DEF Resume
  <2>3. \A u \in skip : u \in done[i]
    BY <2>2 DEF Resumable, Honest, CheckpointIsTrue
  <2> HIDE DEF skip
  <2>4. parent'[j] = i /\ (\A k \in Jobs : k # j => parent'[k] = parent[k])
    BY <1>2 DEF Resume, Sound, TypeOK
  <2> QED
    BY <1>2, <2>1, <2>2, <2>3, <2>4, NewJobHonest
<1>3. ASSUME NEW j \in Jobs, Step(j) PROVE Honest'
  BY <1>3, StepHonest
<1>4. ASSUME NEW j \in Jobs, Exception(j) \/ Crash(j) PROVE Honest'
  <2>1. /\ \A i \in Jobs : i # j => run'[i] = run[i]
        /\ Alive(j)
        /\ \/ run'[j] = Off
           \/ /\ run'[j].at = "catching" /\ run'[j].skip = run[j].skip
              /\ run'[j].summary = run[j].summary
        /\ \A i \in Jobs : file'[i] = file[i] \/ (i = j /\ file'[i] = TornFile)
    BY <1>4, FaultSound
  <2>2. row' = row /\ parent' = parent /\ done' = done
    BY <1>4 DEF Exception, Crash, Fault
  <2>3. row[j] # "absent"
    BY <2>1 DEF Honest, Untouched, Alive, At, Off
  <2>4. Untouched'
    BY <2>1, <2>2, <2>3 DEF Honest, Untouched
  <2>5. Memory'
    BY <2>1, <2>2 DEF Honest, Memory, Unit, Off, NewSummary
  <2>6. CheckpointIsTrue'
    BY <2>1, <2>2 DEF Honest, CheckpointIsTrue, Readable
  <2> QED
    BY <2>4, <2>5, <2>6 DEF Honest
<1>5. CASE UNCHANGED vars
  BY <1>5 DEF vars, Honest, Untouched, Memory, CheckpointIsTrue, Readable, Unit
<1> QED
  BY <1>0, <1>1, <1>2, <1>3, <1>4, <1>5 DEF Next

LEMMA AlwaysHonest == Spec => []Honest
<1> QED
  BY InitHonest, AlwaysSound, NextHonest, PTL DEF Spec

(***************************************************************************)
(* A checkpoint claims no work that was not done, by its job or by the job *)
(* it resumed, whatever crashes, throws, is torn or is resumed too early.  *)
(***************************************************************************)
THEOREM CheckpointsAreTrue == Spec => []CheckpointIsTrue
<1>1. Honest => CheckpointIsTrue
  BY DEF Honest
<1> QED
  BY <1>1, AlwaysHonest, PTL
-----------------------------------------------------------------------------
(***************************************************************************)
(* The invariant behind HopIsIncremental: the file of a job resumed after  *)
(* its end never changes again, so the units its successor was told to     *)
(* skip at the start are the ones its checkpoint still calls completed.    *)
(***************************************************************************)
Avoids == \A k \in Jobs : run[k].at = "working" => Unit(k) \notin run[k].skip

Settled(j, k) ==
    /\ ~Alive(j) /\ row[j] # "absent"
    /\ Alive(k) => run[k].skip = Resumable(file[j])
    /\ \A u \in done[k] : file[j].phases[u] # "completed"

Reuse == \A j, k \in Jobs :
    parent[k] = j /\ ~fresh[k] /\ j \notin early => Settled(j, k)

LEMMA InitReuse == Init => Avoids /\ Reuse
  BY DEF Init, Avoids, Reuse, Off, Jobs

LEMMA StepAvoids ==
    ASSUME Sound, Avoids, NEW j \in Jobs, Step(j)
    PROVE  Avoids'
<1>1. \A i \in Jobs : i # j => run'[i] = run[i]
  BY StepFrame
<1>2. run'[j].at = "working" => Unit(j)' \notin run'[j].skip
  <2>1. CASE Plan(j)
    <3>1. /\ run'[j].unit = run[j].unit /\ run'[j].skip = run[j].skip
      <4>1. {"working", "catching"} \subseteq Places /\ {"planned", "skipped"} \subseteq Results
        BY DEF Places, Results
      <4> QED
        BY <2>1, <4>1, GoesTyped, YieldsTyped DEF Plan
    <3> QED
      BY <2>1, <3>1 DEF Plan, Unit
  <2>2. CASE ~Plan(j)
    <3>1. run'[j].at # "working"
      BY <2>2, WorkCases DEF Step, Begin, FirstCheckpoint, Skip, Finishes, Record,
             Checkpoint, Seal, Catch, Close, Announce, Goes, Yields, Reports, Becomes,
             Stops, Off, Sound, TypeOK
    <3> QED
      BY <3>1
  <2> QED
    BY <2>1, <2>2
<1> QED
  BY <1>1, <1>2 DEF Avoids, Unit

\* Only Work adds to done, and only the unit the process is at.
LEMMA StepDone ==
    ASSUME Sound, NEW j \in Jobs, Step(j)
    PROVE  \/ done' = done
           \/ /\ run[j].at = "working"
              /\ done'[j] = done[j] \cup {Unit(j)}
  BY WorkCases DEF Step, Begin, FirstCheckpoint, Skip, Plan, Finishes, At, Record,
         Checkpoint, Seal, Catch, Close, Announce, Sound, TypeOK

LEMMA StepReuse ==
    ASSUME Sound, Avoids, Reuse, NEW i \in Jobs, Step(i)
    PROVE  Reuse'
<1>1. /\ Alive(i)
      /\ \A h \in Jobs : h # i => /\ row'[h] = row[h] /\ file'[h] = file[h]
                                 /\ run'[h] = run[h] /\ done'[h] = done[h]
      /\ parent' = parent /\ fresh' = fresh /\ early' = early
  BY StepFrame
<1>2. ASSUME NEW j \in Jobs, NEW k \in Jobs, parent[k] = j, ~fresh[k], j \notin early
      PROVE  Settled(j, k)'
  <2>1. Settled(j, k)
    BY <1>2 DEF Reuse
  <2>2. j # i
    BY <1>1, <2>1 DEF Settled
  <2>3. row'[j] = row[j] /\ file'[j] = file[j] /\ run'[j] = run[j]
    BY <1>1, <2>2
  <2>4. Alive(k)' => run'[k].skip = Resumable(file'[j])
    <3>1. CASE k = i
      <4>1. run'[i] = Off \/ run'[i].skip = run[i].skip
        BY StepMemory
      <4>2. run[i].skip = Resumable(file[j])
        BY <1>1, <2>1, <3>1 DEF Settled
      <4> QED
        BY <2>3, <3>1, <4>1, <4>2 DEF Alive, At, Off
    <3>2. CASE k # i
      BY <1>1, <2>1, <2>3, <3>2 DEF Settled, Alive, At
    <3> QED
      BY <3>1, <3>2
  <2>5. \A u \in done'[k] : file'[j].phases[u] # "completed"
    <3>1. CASE done'[k] = done[k]
      BY <2>1, <2>3, <3>1 DEF Settled
    <3>2. CASE /\ k = i /\ run[i].at = "working"
               /\ done'[i] = done[i] \cup {Unit(i)}
      <4>1. Unit(i) \in Units
        BY <3>2, UnitTyped
      <4>2. Unit(i) \notin Resumable(file[j])
        BY <1>1, <2>1, <3>2 DEF Settled, Avoids
      <4>3. file[j].phases[Unit(i)] # "completed"
        BY <4>1, <4>2 DEF Resumable
      <4> QED
        BY <2>1, <2>3, <3>2, <4>3 DEF Settled
    <3> QED
      BY <1>1, <3>1, <3>2, StepDone
  <2> QED
    BY <2>1, <2>3, <2>4, <2>5 DEF Settled, Alive, At
<1> QED
  BY <1>1, <1>2 DEF Reuse

LEMMA NewJobReuse ==
    ASSUME Sound, Honest, Avoids, Reuse, NEW m \in Jobs, NEW skip \in SUBSET Units,
           Create(m, skip), file' = file, done' = done, early \subseteq early',
           \A k \in Jobs : k # m => parent'[k] = parent[k] /\ fresh'[k] = fresh[k],
           \A j \in Jobs : parent'[m] = j /\ ~fresh'[m] /\ j \notin early' =>
               ~Alive(j) /\ Readable(j) /\ j # m /\ skip = Resumable(file[j])
    PROVE  Avoids' /\ Reuse'
<1>1. /\ \A k \in Jobs : k # m => run'[k] = run[k]
      /\ run'[m] = [at |-> "created", unit |-> 1, result |-> "none", skip |-> skip,
                    summary |-> NewSummary]
  BY CreateSound
<1>2. /\ row[m] = "absent" /\ row'[m] = "queued"
      /\ \A k \in Jobs : k # m => row'[k] = row[k]
      /\ done[m] = {}
  BY DEF Create, Sound, TypeOK, Honest, Untouched
<1>3. Avoids'
  BY <1>1 DEF Avoids, Unit
<1>4. ASSUME NEW j \in Jobs, NEW k \in Jobs, parent'[k] = j, ~fresh'[k], j \notin early'
      PROVE  Settled(j, k)'
  <2>1. CASE k = m
    <3>1. ~Alive(j) /\ j # m /\ skip = Resumable(file[j])
      BY <1>4, <2>1
    <3>2. row[j] # "absent"
      BY <1>4, <2>1 DEF Honest, Untouched, Readable
    <3> QED
      BY <1>1, <1>2, <2>1, <3>1, <3>2 DEF Settled, Alive, At
  <2>2. CASE k # m
    <3>1. Settled(j, k)
      BY <1>4, <2>2 DEF Reuse
    <3>2. j # m
      BY <1>2, <3>1 DEF Settled
    <3> QED
      BY <1>1, <1>2, <2>2, <3>1, <3>2 DEF Settled, Alive, At
  <2> QED
    BY <2>1, <2>2
<1>5. Reuse'
  BY <1>4 DEF Reuse
<1> QED
  BY <1>3, <1>5

LEMMA NextReuse == Sound /\ Honest /\ Avoids /\ Reuse /\ [Next]_vars => (Avoids /\ Reuse)'
<1> SUFFICES ASSUME Sound, Honest, Avoids, Reuse, [Next]_vars PROVE Avoids' /\ Reuse'
  OBVIOUS
<1>0. \A j \in Jobs : \A i \in 1 .. j - 1 : i \in Jobs /\ i # j
  BY PipelineAssumption DEF Jobs
<1>1. ASSUME NEW j \in Jobs, Run(j) PROVE Avoids' /\ Reuse'
  <2>1. Create(j, {}) /\ UNCHANGED <<file, parent, fresh, done, early>>
    BY <1>1 DEF Run
  <2>2. parent[j] = 0 /\ 0 \notin Jobs
    BY <2>1 DEF Create, Honest, Untouched, Jobs
  <2> QED
    BY <2>1, <2>2, NewJobReuse
<1>2. ASSUME NEW i \in Jobs, NEW j \in Jobs, i # j, NEW override \in BOOLEAN,
             Resume(i, j, override)
      PROVE  Avoids' /\ Reuse'
  <2> DEFINE skip == IF override THEN {} ELSE Resumable(file[i])
  <2>1. skip \in SUBSET Units
    BY ResumableTyped
  <2>2. Create(j, skip) /\ Readable(i) /\ file' = file /\ done' = done /\ early \subseteq early'
    BY <1>2 DEF Resume
  <2>3. /\ parent'[j] = i /\ fresh'[j] = override
        /\ \A k \in Jobs : k # j => parent'[k] = parent[k] /\ fresh'[k] = fresh[k]
        /\ i \notin early' => ~Alive(i)
    BY <1>2 DEF Resume, Sound, TypeOK
  <2>4. ~override => skip = Resumable(file[i])
    OBVIOUS
  <2> HIDE DEF skip
  <2>5. \A h \in Jobs : parent'[j] = h /\ ~fresh'[j] /\ h \notin early' =>
            ~Alive(h) /\ Readable(h) /\ h # j /\ skip = Resumable(file[h])
    BY <1>2, <2>2, <2>3, <2>4
  <2> QED
    BY <2>1, <2>2, <2>3, <2>5, NewJobReuse
<1>3. ASSUME NEW j \in Jobs, Step(j) PROVE Avoids' /\ Reuse'
  BY <1>3, StepAvoids, StepReuse
<1>4. ASSUME NEW i \in Jobs, Exception(i) \/ Crash(i) PROVE Avoids' /\ Reuse'
  <2>1. /\ \A h \in Jobs : h # i => run'[h] = run[h]
        /\ Alive(i)
        /\ \/ run'[i] = Off
           \/ run'[i].at = "catching" /\ run'[i].skip = run[i].skip
        /\ \A h \in Jobs : file'[h] = file[h] \/ (h = i /\ file'[h] = TornFile)
    BY <1>4, FaultSound
  <2>2. UNCHANGED <<row, parent, fresh, done, early>>
    BY <1>4 DEF Exception, Crash, Fault
  <2>3. Avoids'
    BY <2>1 DEF Avoids, Unit, Off
  <2>4. ASSUME NEW j \in Jobs, NEW k \in Jobs, parent[k] = j, ~fresh[k], j \notin early
        PROVE  Settled(j, k)'
    <3>1. Settled(j, k)
      BY <2>4 DEF Reuse
    <3>2. j # i
      BY <2>1, <3>1 DEF Settled
    <3> QED
      BY <2>1, <2>2, <3>1, <3>2 DEF Settled, Alive, At, Off
  <2>5. Reuse'
    BY <2>2, <2>4 DEF Reuse
  <2> QED
    BY <2>3, <2>5
<1>5. CASE UNCHANGED vars
  BY <1>5 DEF vars, Avoids, Reuse, Settled, Alive, At, Unit
<1> QED
  BY <1>0, <1>1, <1>2, <1>3, <1>4, <1>5 DEF Next

(***************************************************************************)
(* No resume, whatever stopped the job it resumes, does again a unit that  *)
(* the checkpoint of that job calls completed.                             *)
(***************************************************************************)
THEOREM ResumeRepeatsNothing == Spec => []HopIsIncremental
<1>1. Reuse => HopIsIncremental
  BY DEF Reuse, Settled, HopIsIncremental
<1> QED
  BY <1>1, InitReuse, NextReuse, AlwaysSound, AlwaysHonest, PTL DEF Spec
-----------------------------------------------------------------------------
(***************************************************************************)
(* The invariant behind EndsAreTrue.  Recorded: the units a process has    *)
(* passed all have a result, so the summary it seals leaves none out.      *)
(* Tidy: at each place of a process no fault has struck, what its row and  *)
(* its checkpoint say.                                                     *)
(***************************************************************************)
Recorded(j) ==
    /\ \A i \in DOMAIN Pipeline :
          i < run[j].unit \/ (run[j].at = "writing" /\ i = run[j].unit) =>
              run[j].summary.phases[Pipeline[i]] # "none"
    /\ run[j].at \in {"recording", "writing"} => run[j].result # "none"
    /\ run[j].at \in {"begun", "next", "working", "recording", "writing"} =>
          run[j].summary.status = "running"

Whole(j) ==
    file[j].status = "completed" =>
        \A u \in Units : file[j].phases[u] \in {"completed", "planned", "skipped"}

Tidy(j) ==
    /\ run[j].at = "off" =>
          row[j] = "absent" \/ (row[j] = file[j].status /\ row[j] \in {"failed", "completed"})
    /\ run[j].at = "created" => row[j] = "queued"
    /\ run[j].at \in {"begun", "next", "working", "recording", "writing", "catching",
                      "closing", "leaving"} => row[j] = "running"
    /\ run[j].at \in {"closing", "leaving"} =>
          /\ file[j].status = run[j].summary.status
          /\ run[j].summary.status \in {"failed", "completed"}
    /\ run[j].at = "announcing" => row[j] = "completed" /\ file[j].status = "completed"

Ends == \A j \in Jobs : Recorded(j) /\ Whole(j) /\ (j \notin struck => Tidy(j))

LEMMA EndsSuffices == Sound /\ Ends => EndsAreTrue
<1> SUFFICES ASSUME Sound, Ends PROVE EndsAreTrue
  OBVIOUS
<1>1. CompletedIsWhole
  BY DEF Ends, Whole, CompletedIsWhole
<1>2. EndsAgree
  BY DEF Ends, Tidy, EndsAgree, Alive, At
<1>3. ASSUME NEW j \in Jobs, row[j] = "completed", j \notin struck
      PROVE  file[j].status = "completed"
  <2>1. Tidy(j) /\ run[j].at \in Places
    BY <1>3, Fields DEF Ends
  <2> QED
    BY <1>3, <2>1 DEF Tidy, Places
<1> QED
  BY <1>1, <1>2, <1>3 DEF EndsAreTrue, RowIsBehindFile

LEMMA InitEnds == Init => Ends
<1> SUFFICES ASSUME Init, NEW j \in Jobs PROVE Recorded(j) /\ Whole(j) /\ Tidy(j)
  BY DEF Ends
<1>1. run[j] = Off /\ file[j] = NoFile /\ row[j] = "absent"
  BY DEF Init
<1>2. \A i \in DOMAIN Pipeline : ~(i < 1)
  BY PipelineAssumption
<1>3. Recorded(j)
  BY <1>1, <1>2 DEF Recorded, Off
<1> QED
  BY <1>1, <1>3 DEF Whole, Tidy, Off, NoFile

\* What each step does to the process, the row and the file of its job.
LEMMA StepEnds ==
    ASSUME Sound, NEW j \in Jobs, Step(j), Recorded(j), Whole(j)
    PROVE  Recorded(j)' /\ Whole(j)' /\ (Tidy(j) => Tidy(j)')
<1>0. /\ {"begun", "next", "working", "recording", "writing", "catching",
           "closing", "leaving", "announcing"} \subseteq Places
      /\ {"none", "skipped", "planned", "completed", "failed"} \subseteq Results
      /\ DOMAIN Pipeline = 1 .. Len(Pipeline) /\ Len(Pipeline) \in Nat
      /\ run[j].unit \in 1 .. Len(Pipeline) + 1
  BY PipelineAssumption, Fields DEF Places, Results
<1>1. CASE Begin(j)
  <2>1. /\ run'[j].at = "begun" /\ run'[j].unit = run[j].unit
        /\ run'[j].summary.phases = run[j].summary.phases
        /\ run'[j].summary.status = "running"
        /\ row'[j] = "running" /\ file' = file /\ run[j].at = "created"
    BY <1>0, <1>1, ReportsTyped DEF Begin, At, Sound, TypeOK
  <2> QED
    BY <2>1 DEF Recorded, Whole, Tidy
<1>2. CASE FirstCheckpoint(j)
  <2>1. /\ run'[j].at = "next" /\ run'[j].unit = run[j].unit
        /\ run'[j].summary = run[j].summary
        /\ row' = row /\ run[j].at = "begun"
    BY <1>0, <1>2, GoesTyped DEF FirstCheckpoint, At
  <2>2. file'[j] = run[j].summary
    BY <1>2, <2>1 DEF FirstCheckpoint, Save, Sound, TypeOK
  <2> QED
    BY <2>1, <2>2 DEF Recorded, Whole, Tidy
<1>3. CASE Skip(j)
  <2>1. /\ run'[j].at = "recording" /\ run'[j].unit = run[j].unit
        /\ run'[j].result = "skipped"
        /\ run'[j].summary.phases = run[j].summary.phases
        /\ run'[j].summary.status = run[j].summary.status
        /\ row' = row /\ file' = file /\ run[j].at = "next"
    BY <1>3 DEF Skip, HasUnit, At, Becomes, Sound, TypeOK
  <2> QED
    BY <2>1 DEF Recorded, Whole, Tidy
<1>4. CASE Plan(j)
  <2>1. /\ run'[j].at \in {"working", "catching", "recording"}
        /\ run'[j].at = "recording" => run'[j].result # "none"
        /\ run'[j].unit = run[j].unit /\ run'[j].summary = run[j].summary
        /\ row' = row /\ file' = file /\ run[j].at = "next"
    BY <1>0, <1>4, GoesTyped, YieldsTyped DEF Plan, HasUnit, At
  <2> QED
    BY <2>1 DEF Recorded, Whole, Tidy
<1>5. CASE Work(j)
  <2>1. /\ run'[j].at \in {"catching", "recording"}
        /\ run'[j].at = "recording" => run'[j].result # "none"
        /\ run'[j].unit = run[j].unit /\ run'[j].summary = run[j].summary
    BY <1>0, <1>5, WorkCases, GoesTyped, YieldsTyped
  <2>2. row' = row /\ file' = file /\ run[j].at = "working"
    BY <1>5, WorkCases DEF At
  <2> QED
    BY <2>1, <2>2 DEF Recorded, Whole, Tidy
<1>6. CASE Record(j)
  <2>1. /\ run[j].at = "recording" /\ row' = row /\ file' = file
        /\ run'[j].at = "writing" /\ run'[j].unit = run[j].unit
        /\ run'[j].result = run[j].result
        /\ run'[j].summary.status = run[j].summary.status
        /\ run'[j].summary.phases =
              [run[j].summary.phases EXCEPT ![Unit(j)] = run[j].result]
    BY <1>6 DEF Record, At, Becomes, Sound, TypeOK
  <2>2. run[j].summary.phases \in [Units -> Results] /\ run[j].result # "none"
    BY <2>1, Fields DEF Recorded
  <2>3. \A i \in DOMAIN Pipeline : Pipeline[i] \in Units
    BY DEF Units
  <2>4. \A i \in DOMAIN Pipeline :
            i < run[j].unit \/ i = run[j].unit =>
                run'[j].summary.phases[Pipeline[i]] # "none"
    BY <2>1, <2>2, <2>3 DEF Recorded, Unit
  <2>5. Recorded(j)'
    BY <2>1, <2>2, <2>4 DEF Recorded
  <2> QED
    BY <2>1, <2>5 DEF Whole, Tidy
<1>7. CASE Checkpoint(j)
  <2>1. /\ run[j].at = "writing" /\ row' = row
        /\ run'[j].at = "next" /\ run'[j].unit = run[j].unit + 1
        /\ run'[j].summary = run[j].summary
    BY <1>7 DEF Checkpoint, At, Becomes, Sound, TypeOK
  <2>2. file'[j] = run[j].summary /\ run[j].summary.status = "running"
    BY <1>7, <2>1 DEF Checkpoint, Save, Sound, TypeOK, Recorded
  <2>3. \A i \in DOMAIN Pipeline :
            i < run'[j].unit => run'[j].summary.phases[Pipeline[i]] # "none"
    BY <1>0, <2>1 DEF Recorded
  <2>4. Recorded(j)'
    BY <2>1, <2>2, <2>3 DEF Recorded
  <2> QED
    BY <2>1, <2>2, <2>4 DEF Whole, Tidy
<1>8. CASE Seal(j)
  <2> DEFINE verdict == Verdict(run[j].summary)
  <2>1. verdict \in {"failed", "completed"}
    BY DEF Verdict
  <2>2. /\ run'[j].at = "closing" /\ run'[j].unit = run[j].unit
        /\ run'[j].summary.phases = run[j].summary.phases
        /\ run'[j].summary.status = verdict
    BY <1>0, <1>8, <2>1, ReportsTyped DEF Seal
  <2>3. /\ run[j].at = "next" /\ run[j].unit > Len(Pipeline) /\ row' = row
        /\ file'[j] = run'[j].summary
    BY <1>8 DEF Seal, At, Save, Sound, TypeOK
  <2>4. \A u \in Units : run[j].summary.phases[u] \in Results \ {"none"}
    <3>1. ASSUME NEW u \in Units PROVE run[j].summary.phases[u] \in Results \ {"none"}
      <4>1. PICK i \in DOMAIN Pipeline : u = Pipeline[i]
        BY DEF Units
      <4>2. i < run[j].unit
        BY <1>0, <2>3
      <4> QED
        BY <4>1, <4>2, Fields DEF Recorded
    <3> QED
      BY <3>1
  <2>5. verdict = "completed" =>
            \A u \in Units :
                run[j].summary.phases[u] \in {"completed", "planned", "skipped"}
    BY <2>4 DEF Verdict, Results
  <2> HIDE DEF verdict
  <2>6. Recorded(j)'
    BY <2>2, <2>3 DEF Recorded
  <2>7. Whole(j)'
    BY <2>2, <2>3, <2>5 DEF Whole
  <2> QED
    BY <2>1, <2>2, <2>3, <2>6, <2>7 DEF Tidy
<1>9. CASE Catch(j)
  <2>1. /\ run'[j].at = "leaving" /\ run'[j].unit = run[j].unit
        /\ run'[j].summary.phases = run[j].summary.phases
        /\ run'[j].summary.status = "failed"
    BY <1>0, <1>9, ReportsTyped DEF Catch
  <2>2. /\ run[j].at = "catching" /\ row' = row
        /\ file'[j] = run'[j].summary
    BY <1>9 DEF Catch, At, Save, Sound, TypeOK
  <2> QED
    BY <2>1, <2>2 DEF Recorded, Whole, Tidy
<1>10. CASE Close(j)
  <2>1. run[j].at \in {"closing", "leaving"} /\ file' = file
    BY <1>10 DEF Close, At
  <2>2. row[j] = "running" => row'[j] = run[j].summary.status
    BY <1>10 DEF Close, Sound, TypeOK
  <2>3. CASE run[j].summary.status = "completed"
    <3>1. /\ run'[j].at = "announcing" /\ run'[j].unit = run[j].unit
          /\ run'[j].summary = run[j].summary
      BY <1>0, <1>10, <2>3, GoesTyped DEF Close
    <3> QED
      BY <2>1, <2>2, <2>3, <3>1 DEF Recorded, Whole, Tidy
  <2>4. CASE run[j].summary.status # "completed"
    <3>1. run'[j].at = "off" /\ run'[j].unit = 1
      BY <1>10, <2>4, StopsTyped DEF Close, Off
    <3>2. Recorded(j)'
      BY <1>0, <3>1 DEF Recorded
    <3> QED
      BY <2>1, <2>2, <2>4, <3>1, <3>2 DEF Whole, Tidy
  <2> QED
    BY <2>3, <2>4
<1>11. CASE Announce(j)
  <2>1. /\ run'[j].at = "off" /\ run'[j].unit = 1
        /\ run[j].at = "announcing" /\ file' = file /\ row' = row
    BY <1>11, StopsTyped DEF Announce, At, Off
  <2>2. Recorded(j)'
    BY <1>0, <2>1 DEF Recorded
  <2> QED
    BY <2>1, <2>2 DEF Whole, Tidy
<1> QED
  BY <1>1, <1>2, <1>3, <1>4, <1>5, <1>6, <1>7, <1>8, <1>9, <1>10, <1>11 DEF Step

\* A step of another job changes nothing that Ends says of this one.
LEMMA EndsFrame ==
    ASSUME NEW j \in Jobs, Recorded(j), Whole(j),
           row'[j] = row[j], file'[j] = file[j], run'[j] = run[j]
    PROVE  Recorded(j)' /\ Whole(j)' /\ (Tidy(j) => Tidy(j)')
  BY DEF Recorded, Whole, Tidy

LEMMA NewJobEnds ==
    ASSUME Sound, Honest, Ends, NEW k \in Jobs, NEW skip \in SUBSET Units,
           Create(k, skip), file' = file, struck' = struck
    PROVE  Ends'
<1>1. /\ \A j \in Jobs : j # k => run'[j] = run[j] /\ row'[j] = row[j]
      /\ run'[k].at = "created" /\ run'[k].unit = 1 /\ row'[k] = "queued"
      /\ file[k] = NoFile
  BY CreateSound DEF Create, Sound, TypeOK, Honest, Untouched
<1>2. ASSUME NEW j \in Jobs, j # k
      PROVE  Recorded(j)' /\ Whole(j)' /\ (Tidy(j) => Tidy(j)')
  BY <1>1, <1>2, EndsFrame DEF Ends
<1>3. Recorded(k)' /\ Whole(k)' /\ Tidy(k)'
  <2>1. \A i \in DOMAIN Pipeline : ~(i < 1)
    BY PipelineAssumption
  <2>2. Recorded(k)'
    BY <1>1, <2>1 DEF Recorded
  <2> QED
    BY <1>1, <2>2 DEF Whole, Tidy, NoFile
<1> QED
  BY <1>2, <1>3 DEF Ends

LEMMA NextEnds == Sound /\ Honest /\ Ends /\ [Next]_vars => Ends'
<1> SUFFICES ASSUME Sound, Honest, Ends, [Next]_vars PROVE Ends'
  OBVIOUS
<1>1. ASSUME NEW j \in Jobs, Run(j) PROVE Ends'
  <2>1. {} \in SUBSET Units
    OBVIOUS
  <2> QED
    BY <1>1, <2>1, NewJobEnds DEF Run
<1>2. ASSUME NEW i \in Jobs, NEW j \in Jobs, NEW override \in BOOLEAN, Resume(i, j, override)
      PROVE  Ends'
  <2> DEFINE skip == IF override THEN {} ELSE Resumable(file[i])
  <2>1. skip \in SUBSET Units
    BY ResumableTyped
  <2>2. Create(j, skip) /\ file' = file /\ struck' = struck
    BY <1>2 DEF Resume
  <2> HIDE DEF skip
  <2> QED
    BY <2>1, <2>2, NewJobEnds
<1>3. ASSUME NEW j \in Jobs, Step(j) PROVE Ends'
  <2>1. \A i \in Jobs : i # j => row'[i] = row[i] /\ file'[i] = file[i] /\ run'[i] = run[i]
    BY <1>3, StepFrame
  <2>2. struck' = struck
    BY <1>3, WorkCases DEF Step, Begin, FirstCheckpoint, Skip, Plan, Record, Checkpoint,
           Seal, Catch, Close, Announce
  <2>3. ASSUME NEW i \in Jobs PROVE Recorded(i)' /\ Whole(i)' /\ (Tidy(i) => Tidy(i)')
    <3>1. CASE i = j
      BY <1>3, <3>1, StepEnds DEF Ends
    <3>2. CASE i # j
      BY <2>1, <3>2, EndsFrame DEF Ends
    <3> QED
      BY <3>1, <3>2
  <2> QED
    BY <2>2, <2>3 DEF Ends
<1>4. ASSUME NEW j \in Jobs, Exception(j) \/ Crash(j) PROVE Ends'
  <2>1. /\ \A i \in Jobs : i # j => run'[i] = run[i]
        /\ \/ run'[j] = Off
           \/ run'[j].at = "catching" /\ run'[j].summary = run[j].summary
        /\ \A i \in Jobs : file'[i] = file[i] \/ (i = j /\ file'[i] = TornFile)
    BY <1>4, FaultSound
  <2>2. row' = row /\ struck' = struck \cup {j}
    BY <1>4 DEF Exception, Crash, Fault
  <2>3. ASSUME NEW i \in Jobs, i # j
        PROVE  Recorded(i)' /\ Whole(i)' /\ (Tidy(i) => Tidy(i)')
    BY <2>1, <2>2, <2>3, EndsFrame DEF Ends
  <2>4. Recorded(j)'
    <3>1. CASE run'[j] = Off
      <4>1. \A i \in DOMAIN Pipeline : ~(i < 1)
        BY PipelineAssumption
      <4> QED
        BY <3>1, <4>1 DEF Recorded, Off
    <3>2. CASE /\ run'[j].at = "catching" /\ run'[j].unit = run[j].unit
               /\ run'[j].summary = run[j].summary
      BY <3>2 DEF Ends, Recorded
    <3>3. "catching" \in Places
      BY DEF Places
    <3> QED
      BY <1>4, <3>1, <3>2, <3>3, GoesTyped, StopsTyped DEF Exception, Crash
  <2>5. Whole(j)'
    BY <2>1 DEF Ends, Whole, TornFile
  <2> QED
    BY <2>2, <2>3, <2>4, <2>5 DEF Ends
<1>5. CASE UNCHANGED vars
  BY <1>5, EndsFrame DEF vars, Ends
<1>6. \A j \in Jobs : \A i \in 1 .. j - 1 : i \in Jobs
  BY PipelineAssumption DEF Jobs
<1> QED
  BY <1>1, <1>2, <1>3, <1>4, <1>5, <1>6 DEF Next

(***************************************************************************)
(* How a run ended is what its row and its checkpoint say: a completed     *)
(* checkpoint left no unit out, and a job whose process is gone has        *)
(* settled, row and checkpoint agreeing, unless a fault struck it.         *)
(***************************************************************************)
THEOREM EndingsAreTrue == Spec => []EndsAreTrue
<1> QED
  BY InitEnds, NextEnds, EndsSuffices, AlwaysSound, AlwaysHonest, PTL DEF Spec
=============================================================================
