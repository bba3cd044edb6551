----------------------- MODULE ActionExecution_proof -----------------------
(***************************************************************************)
(* What ActionExecution guarantees for every set of actions and processes, *)
(* every batch limit and any number of faults.                             *)
(***************************************************************************)
EXTENDS ActionExecution, TLAPS

(***************************************************************************)
(* A call knows the row it is about: it asks what the place of its process *)
(* asks, and what it read is no more than the row has been through.        *)
(***************************************************************************)
CallInv(p) == Busy(p) =>
    /\ pc[p] \in DOMAIN Asks
    /\ call[p].act = cur[p]
    /\ call[p].next = Asks[pc[p]]
    /\ row[call[p].act] # "absent"
    /\ /\ call[p].seen \in {"approved", "executed"}
       /\ needsApproval[call[p].act]
       => call[p].act \in history.approved
    /\ call[p].act \in history.refused => call[p].seen = "blocked"

(***************************************************************************)
(* Only between two actions is a process at none.                          *)
(***************************************************************************)
Between == {"idle", "reviewing", "running", "researching", "concluding"}
PlaceInv(p) == pc[p] \notin Between => cur[p] \in Actions

RowInv(a) ==
    /\ row[a] \in {"approved", "executed"} /\ needsApproval[a] => a \in history.approved
    /\ a \in history.refused => row[a] = "blocked" /\ a \notin history.started
    /\ a \in history.started =>
          row[a] # "absent" /\ (needsApproval[a] => a \in history.approved)

(***************************************************************************)
(* The inductive invariant: the properties alone say nothing of the calls  *)
(* in flight, whose writes come later.                                     *)
(***************************************************************************)
IndInv == /\ TypeOK
          /\ \A p \in Procs : PlaceInv(p) /\ CallInv(p)
          /\ \A a \in Actions : RowInv(a)

USE NoActionAssumption, BoundsAssumption

(***************************************************************************)
(* Initially nothing is queued, so nothing can have gone wrong.            *)
(***************************************************************************)
LEMMA InitInd == Init => IndInv
  BY DEF Init, QueueInit, IndInv, TypeOK, QueueTypeOK, PlaceInv, CallInv, RowInv, Between,
         Busy, At, NoCall, Calls, Statuses, Targets, Places, AfterThrow, NoHistory,
         Decisions, Events

(***************************************************************************)
(* A step of p that moves p and touches neither the queue nor what the     *)
(* invariant knows of the past keeps the invariant.                        *)
(***************************************************************************)
Moves(p, place, a) == Go(p, place, a) /\ ~Busy(p)
SamePast == /\ history'.approved = history.approved /\ history'.refused = history.refused
            /\ history'.started = history.started

LEMMA QuietStep ==
  ASSUME IndInv, TypeOK', NEW p \in Procs, NEW place \in Places,
         NEW a \in Actions \cup {NoAction}, Moves(p, place, a),
         place \notin Between => a \in Actions,
         UNCHANGED queueVars, SamePast
  PROVE  IndInv'
<1>1. ASSUME NEW q \in Procs PROVE PlaceInv(q)' /\ CallInv(q)'
  BY DEF IndInv, TypeOK, PlaceInv, CallInv, Moves, Go, queueVars, Busy, At, SamePast
<1>2. ASSUME NEW b \in Actions PROVE RowInv(b)'
  BY DEF IndInv, RowInv, queueVars, SamePast
<1> QED
  BY <1>1, <1>2 DEF IndInv

LEMMA RacedType == NoteRaces /\ TypeOK => raced' \subseteq Actions
  BY DEF NoteRaces, TypeOK

\* The types of the sets the definitions name.
LEMMA PlaceTypes ==
  /\ {"idle", "reviewing", "running", "working", "direct", "approving", "blocking",
      "recording", "refusing", "dropping", "marking", "failing", "completed",
      "failed", "blocked", "settling", "researching", "concluding"} = Places
  /\ DOMAIN Asks = {"approving", "blocking", "refusing", "dropping", "marking", "failing",
                    "settling"}
  /\ DOMAIN Asks \subseteq Places /\ DOMAIN Asks \cap Between = {}
  BY DEF Places, AfterThrow, Asks, Between
\* What is in hand is in the list.
LEMMA HandTypes == ASSUME TypeOK, NEW p \in Procs PROVE InHand(p) \subseteq Actions
  BY DEF TypeOK, InHand

LEMMA CommandType ==
  ASSUME TypeOK, NEW p \in Procs, Command(p), NoteRaces
  PROVE  TypeOK'
<1> USE DEF TypeOK, QueueTypeOK, queueVars
<1>r. raced' \subseteq Actions
  BY RacedType
<1>1. CASE Review(p)
  BY <1>1, <1>r, PlaceTypes DEF Review, Leave, Go
<1>2. CASE RunApproved(p)
  BY <1>2, <1>r, PlaceTypes DEF RunApproved, Leave, Go
<1>3. ASSUME NEW a \in Actions, DecideOne(p, a) PROVE TypeOK'
  BY <1>3, <1>r, PlaceTypes DEF DecideOne, Decisions, Leave, Go
<1>4. ASSUME NEW a \in Actions, ExecuteOne(p, a) PROVE TypeOK'
  BY <1>4, <1>r, PlaceTypes DEF ExecuteOne, Leave, Go
<1>5. ASSUME NEW a \in Actions, PlanBlocked(p, a) PROVE TypeOK'
  BY <1>5, <1>r DEF PlanBlocked, EnqueueBlocked, Insert, Note, Statuses
<1>6. ASSUME NEW a \in Actions, PlanPending(p, a) PROVE TypeOK'
  BY <1>6, <1>r DEF PlanPending, Enqueue, InitialStatus, Insert, Statuses
<1>7. ASSUME NEW a \in Actions, PlanOnly(p, a) PROVE TypeOK'
  BY <1>7, <1>r DEF PlanOnly, Enqueue, InitialStatus, Insert, Statuses
<1>8. ASSUME NEW a \in Actions, PlanAndRun(p, a) PROVE TypeOK'
  BY <1>8, <1>r, PlaceTypes DEF PlanAndRun, Enqueue, InitialStatus, Insert, Start, Note,
     Statuses, Go
<1>9. ASSUME NEW a \in Actions, PlanAndCheck(p, a) PROVE TypeOK'
  BY <1>9, <1>r, PlaceTypes DEF PlanAndCheck, Enqueue, InitialStatus, Insert, Note,
     Statuses, Go
<1>10. CASE RunResearch(p)
  BY <1>10, <1>r, PlaceTypes DEF RunResearch, Leave, Go
<1> QED
  BY <1>1, <1>2, <1>3, <1>4, <1>5, <1>6, <1>7, <1>8, <1>9, <1>10 DEF Command

LEMMA StepType ==
  ASSUME TypeOK, NEW p \in Procs, PlaceInv(p), CallInv(p), Step(p), NoteRaces
  PROVE  TypeOK'
<1> USE DEF TypeOK, QueueTypeOK, queueVars
<1>r. raced' \subseteq Actions
  BY RacedType
<1>1. CASE Decide(p)
  BY <1>1, <1>r, PlaceTypes DEF Decide, Go, Decisions
<1>2. CASE Record(p)
  BY <1>2, <1>r, PlaceTypes DEF Record, Leave, Go
<1>3. CASE Take(p)
  BY <1>3, <1>r, PlaceTypes DEF Take, Leave, Start, Note, Go
<1>4. CASE CheckEnds(p)
  <2>1. cur[p] \in Actions
    BY <1>4 DEF CheckEnds, PlaceInv, At, Between
  <2> QED
    BY <1>4, <1>r, <2>1, PlaceTypes DEF CheckEnds, NoteFinished, Note, Leave, Go
<1>5. CASE WorkEnds(p)
  <2>1. cur[p] \in Actions
    BY <1>5 DEF WorkEnds, PlaceInv, At, Between
  <2> QED
    BY <1>5, <1>r, <2>1, PlaceTypes DEF WorkEnds, NoteFinished, Note, Go
<1>6. CASE CallQueue(p)
  <2>1. Asks[pc[p]] \in Targets
    BY <1>6, PlaceTypes DEF CallQueue, Asks, Targets
  <2>2. call' \in [Procs -> Calls \cup {NoCall}]
    <3>1. cur[p] \in Actions
      BY <1>6, PlaceTypes DEF CallQueue, PlaceInv
    <3> QED
      BY <1>6, <2>1, <3>1 DEF CallQueue, Read, Calls
  <2> QED
    BY <1>6, <1>r, <2>2 DEF CallQueue
<1>7. CASE CallReturns(p)
  <2>1. pc[p] \in DOMAIN Asks /\ cur[p] \in Actions
    BY <1>7, PlaceTypes DEF CallReturns, Return, Write, CallInv, PlaceInv
  <2>2. row' \in [Actions -> Statuses \cup {"absent"}]
    BY <1>7 DEF CallReturns, Return, Write, Busy, Calls, Targets, Statuses
  <2>3. history' \in [DOMAIN NoHistory -> SUBSET Actions]
    BY <1>7, <2>1 DEF CallReturns, Note
  <2>4. pc' \in [Procs -> Places] /\ cur' \in [Procs -> Actions \cup {NoAction}]
    <3>1. AfterReturn[pc[p]] \in Places
      BY <2>1, PlaceTypes DEF AfterReturn, Asks
    <3> QED
      BY <1>7, <2>1, <3>1 DEF CallReturns, Go
  <2>5. call' \in [Procs -> Calls \cup {NoCall}]
    BY <1>7 DEF CallReturns, Return, Write, Done
  <2>6. todo' \in [Procs -> SUBSET Actions]
    BY <1>7, <2>1 DEF CallReturns
  <2> QED
    BY <1>7, <1>r, <2>2, <2>3, <2>4, <2>5, <2>6 DEF CallReturns
<1>8. CASE CallThrows(p)
  <2>1. pc[p] \in DOMAIN Asks
    BY <1>8 DEF CallThrows, Throw, CallInv
  <2>2. AfterThrow[pc[p]] \in Places
    BY <2>1, PlaceTypes DEF AfterThrow, Asks
  <2>3. history' \in [DOMAIN NoHistory -> SUBSET Actions]
    BY <1>8, HandTypes DEF CallThrows
  <2> QED
    BY <1>8, <1>r, <2>2, <2>3 DEF CallThrows, Throw, Done, Unwind, Go
<1>9. CASE Log(p)
  <2>1. cur[p] \in Actions
    BY <1>9 DEF Log, PlaceInv, Between
  <2> QED
    BY <1>9, <1>r, <2>1, PlaceTypes DEF Log, Events, Leave, Go
<1>10. CASE End(p)
  BY <1>10, <1>r, PlaceTypes DEF End, Leave, Go
<1>11. ASSUME NEW a \in Actions, PlanSeed(p, a) PROVE TypeOK'
  <2>1. history' \in [DOMAIN NoHistory -> SUBSET Actions]
    <3>1. CASE Note({"started"}, a)
      BY <3>1 DEF Note
    <3>2. CASE history' = [history EXCEPT !.refused = @ \cup {a}, !.dropped = @ \cup InHand(p)]
      BY <3>2, HandTypes
    <3> QED
      BY <1>11, <3>1, <3>2 DEF PlanSeed
  <2>2. row' \in [Actions -> Statuses \cup {"absent"}] /\ needsApproval' \in [Actions -> BOOLEAN]
    <3>1. PICK s \in Statuses, r \in BOOLEAN : Insert(a, s, r)
      BY <1>11 DEF PlanSeed, Enqueue, EnqueueBlocked, InitialStatus, Statuses
    <3> QED
      BY <3>1 DEF Insert
  <2>3. /\ pc' \in [Procs -> Places] /\ cur' \in [Procs -> Actions \cup {NoAction}]
        /\ todo' \in [Procs -> SUBSET Actions]
    <3>1. \/ UNCHANGED <<pc, cur, todo>>
          \/ Go(p, "settling", a) /\ UNCHANGED todo
          \/ Leave(p, "idle") /\ todo' = [todo EXCEPT ![p] = {}]
      BY <1>11 DEF PlanSeed
    <3> QED
      BY <3>1, PlaceTypes DEF Leave, Go
  <2> QED
    BY <1>11, <1>r, <2>1, <2>2, <2>3 DEF PlanSeed
<1>12. CASE WriteLedger(p)
  <2>1. history' \in [DOMAIN NoHistory -> SUBSET Actions]
    BY <1>12 DEF WriteLedger
  <2> QED
    BY <1>12, <1>r, <2>1, PlaceTypes DEF WriteLedger, Leave, Go
<1>13. CASE Conclude(p)
  <2>1. events' \subseteq Events
    BY <1>13 DEF Conclude, Events
  <2> QED
    BY <1>13, <1>r, <2>1, PlaceTypes DEF Conclude, Leave, Go
<1> QED
  BY <1>1, <1>2, <1>3, <1>4, <1>5, <1>6, <1>7, <1>8, <1>9, <1>10, <1>11, <1>12, <1>13 DEF Step

LEMMA FaultType ==
  ASSUME TypeOK, NEW p \in Procs, PlaceInv(p), DatabaseError(p) \/ Crash(p), NoteRaces
  PROVE  TypeOK'
<1> USE DEF TypeOK, QueueTypeOK, queueVars
<1>r. raced' \subseteq Actions
  BY RacedType
<1>1. Fault(p)
  BY DEF DatabaseError, Crash
<1>2. /\ faults' \in 0 .. MaxFaults
      /\ history' \in [DOMAIN NoHistory -> SUBSET Actions]
  <2>1. faults' \in 0 .. MaxFaults
    BY <1>1 DEF Fault
  <2>2. InHand(p) \subseteq Actions /\ {cur[p]} \ {NoAction} \subseteq Actions
    BY HandTypes
  <2>3. history' \in [DOMAIN NoHistory -> SUBSET Actions]
    BY <1>1, <2>2 DEF Fault
  <2> QED
    BY <2>1, <2>3
<1>3. /\ row' \in [Actions -> Statuses \cup {"absent"}]
      /\ call' \in [Procs -> Calls \cup {NoCall}]
  BY <1>1 DEF Fault, Abandon, Done
<1>4. CASE DatabaseError(p)
  <2>1. /\ AfterThrow[pc[p]] \in Places
        /\ AfterThrow[pc[p]] = "failing" => pc[p] \notin Between
    BY <1>4 DEF DatabaseError, AfterThrow, Places, Between
  <2>2. pc' \in [Procs -> Places] /\ cur' \in [Procs -> Actions \cup {NoAction}]
    BY <1>4, <2>1 DEF DatabaseError, Unwind, Go, PlaceInv
  <2> QED
    BY <1>4, <1>1, <1>2, <1>3, <1>r, <2>2 DEF DatabaseError, Fault, Unwind
<1>5. CASE Crash(p)
  BY <1>5, <1>1, <1>2, <1>3, <1>r, PlaceTypes DEF Crash, Fault, Leave, Go
<1> QED
  BY <1>4, <1>5

(***************************************************************************)
(* A row that is queued was absent, so that nothing in flight is about it. *)
(***************************************************************************)
LEMMA InsertInd ==
  ASSUME IndInv, TypeOK', NEW p \in Procs, ~Busy(p), NEW a \in Actions, NEW s \in Statuses,
         NEW r \in BOOLEAN, Insert(a, s, r), UNCHANGED call,
         s # "executed", s = "approved" => ~r,
         NEW place \in Places,
         \/ UNCHANGED <<pc, cur>>
         \/ Leave(p, "idle")
         \/ Go(p, place, a),
         history'.approved = history.approved,
         \/ history'.refused = history.refused
         \/ history'.refused = history.refused \cup {a} /\ s = "blocked"
            /\ history'.started = history.started,
         \/ history'.started = history.started
         \/ history'.started = history.started \cup {a} /\ ~r /\ s = "approved"
  PROVE  IndInv'
<1>1. /\ row[a] = "absent"
      /\ row' = [row EXCEPT ![a] = s]
      /\ needsApproval' = [needsApproval EXCEPT ![a] = r]
  BY DEF Insert
<1>2. /\ a \in history'.refused => s = "blocked" /\ a \notin history'.started
      /\ a \in history'.started => ~r
  BY <1>1 DEF IndInv, RowInv
<1>3. \A b \in Actions : b # a => /\ b \in history'.refused <=> b \in history.refused
                                  /\ b \in history'.started <=> b \in history.started
  OBVIOUS
<1>4. ASSUME NEW q \in Procs PROVE PlaceInv(q)' /\ CallInv(q)'
  <2>1. PlaceInv(q) /\ CallInv(q)
    BY DEF IndInv
  <2>2. PlaceInv(q)'
    BY <2>1 DEF PlaceInv, Between, Leave, Go, IndInv, TypeOK
  <2>3. ASSUME Busy(q) PROVE CallInv(q)'
    <3>1. q # p /\ pc'[q] = pc[q] /\ cur'[q] = cur[q] /\ call'[q] = call[q]
      BY <2>3 DEF Leave, Go, IndInv, TypeOK
    <3>2. call[q].act \in Actions /\ call[q].act # a
      BY <1>1, <2>1, <2>3 DEF CallInv, Busy, IndInv, TypeOK, QueueTypeOK, Calls
    <3> QED
      BY <1>1, <1>3, <2>1, <2>3, <3>1, <3>2
         DEF CallInv, Busy, IndInv, TypeOK, QueueTypeOK
  <2> QED
    BY <2>2, <2>3 DEF CallInv, Busy
<1>5. ASSUME NEW b \in Actions PROVE RowInv(b)'
  BY <1>1, <1>2, <1>3 DEF RowInv, IndInv, TypeOK, QueueTypeOK, Statuses
<1> QED
  BY <1>4, <1>5 DEF IndInv

LEMMA CommandInd ==
  ASSUME IndInv, NEW p \in Procs, Command(p), NoteRaces
  PROVE  IndInv'
<1>t. TypeOK /\ TypeOK'
  BY CommandType DEF IndInv
<1>i. At(p, "idle") /\ ~Busy(p)
  BY PlaceTypes DEF Command, Review, RunApproved, RunResearch, DecideOne, ExecuteOne,
     PlanBlocked, PlanPending, PlanOnly, PlanAndRun, PlanAndCheck, At, IndInv, CallInv
\* The commands that only begin.
<1>1. CASE \/ Review(p) \/ RunApproved(p) \/ RunResearch(p)
           \/ \E a \in Actions : DecideOne(p, a) \/ ExecuteOne(p, a)
  <2>1. PICK place \in {"reviewing", "running", "researching"} : Moves(p, place, NoAction)
    BY <1>1, <1>i DEF Review, RunApproved, RunResearch, DecideOne, ExecuteOne, Moves, Leave
  <2>2. UNCHANGED queueVars /\ SamePast
    BY <1>1 DEF Review, RunApproved, RunResearch, DecideOne, ExecuteOne, SamePast
  <2> QED
    BY <1>t, <2>1, <2>2, QuietStep, PlaceTypes DEF Between
\* The commands that queue an action.
<1>2. ASSUME NEW a \in Actions, PlanBlocked(p, a) PROVE IndInv'
  <2>1. /\ history'.approved = history.approved /\ history'.started = history.started
        /\ history'.refused = history.refused \cup {a}
    BY <1>t, <1>2 DEF PlanBlocked, Note, NoHistory, TypeOK
  <2> QED
    BY <1>t, <1>i, <1>2, <2>1, InsertInd, PlaceTypes DEF PlanBlocked, EnqueueBlocked, Statuses
<1>3. ASSUME NEW a \in Actions, PlanPending(p, a) \/ PlanOnly(p, a) PROVE IndInv'
  BY <1>t, <1>i, <1>3, InsertInd, PlaceTypes
     DEF PlanPending, PlanOnly, Enqueue, InitialStatus, Statuses
<1>4. ASSUME NEW a \in Actions, PlanAndRun(p, a) \/ PlanAndCheck(p, a) PROVE IndInv'
  <2>1. /\ history'.approved = history.approved /\ history'.refused = history.refused
        /\ history'.started = history.started \cup {a}
    BY <1>t, <1>4 DEF PlanAndRun, PlanAndCheck, Start, Note, NoHistory, TypeOK
  <2>2. PICK place \in {"working", "direct"} : Go(p, place, a)
    BY <1>4 DEF PlanAndRun, PlanAndCheck, Start
  <2>3. Insert(a, "approved", FALSE) /\ UNCHANGED call
    BY <1>4 DEF PlanAndRun, PlanAndCheck, Enqueue, InitialStatus
  <2> QED
    BY <1>t, <1>i, <2>1, <2>2, <2>3, InsertInd, PlaceTypes DEF Statuses
<1> QED
  BY <1>1, <1>2, <1>3, <1>4 DEF Command

(***************************************************************************)
(* A step of p that ends or begins a call of the queue leaves the calls of *)
(* the other processes alone; what they have read stays accounted for as   *)
(* long as no row becomes absent and the history only grows.               *)
(***************************************************************************)
LEMMA OthersKeep ==
  ASSUME IndInv, NEW p \in Procs, NEW q \in Procs, q # p,
         pc'[q] = pc[q], cur'[q] = cur[q], call'[q] = call[q],
         UNCHANGED needsApproval,
         \A b \in Actions : row[b] # "absent" => row'[b] # "absent",
         history.approved \subseteq history'.approved,
         history'.refused = history.refused
  PROVE  PlaceInv(q)' /\ CallInv(q)'
<1>1. PlaceInv(q) /\ CallInv(q)
  BY DEF IndInv
<1>2. Busy(q) => call[q].act \in Actions
  BY DEF Busy, IndInv, TypeOK, QueueTypeOK, Calls
<1> QED
  BY <1>1, <1>2 DEF PlaceInv, CallInv, Busy

(***************************************************************************)
(* An exception at a place of p drops its call and writes nothing.         *)
(***************************************************************************)
LEMMA ThrowInd ==
  ASSUME IndInv, TypeOK', NEW p \in Procs, NEW place \in Places,
         NEW a \in Actions \cup {NoAction}, Go(p, place, a),
         place \notin Between => a \in Actions,
         ~Busy(p)', \A q \in Procs : q # p => call'[q] = call[q],
         UNCHANGED <<row, needsApproval>>, SamePast
  PROVE  IndInv'
<1>1. ASSUME NEW q \in Procs PROVE PlaceInv(q)' /\ CallInv(q)'
  <2>1. CASE q = p
    BY <2>1 DEF IndInv, TypeOK, Go, PlaceInv, CallInv
  <2>2. CASE q # p
    BY <2>2, OthersKeep DEF IndInv, TypeOK, Go, SamePast
  <2> QED
    BY <2>1, <2>2
<1>2. ASSUME NEW b \in Actions PROVE RowInv(b)'
  BY DEF IndInv, RowInv, SamePast
<1> QED
  BY <1>1, <1>2 DEF IndInv

LEMMA StepInd ==
  ASSUME IndInv, NEW p \in Procs, Step(p), NoteRaces
  PROVE  IndInv'
<1>t. TypeOK /\ TypeOK'
  BY StepType DEF IndInv
<1>p. PlaceInv(p) /\ CallInv(p)
  BY DEF IndInv
\* Steps that touch neither the queue nor what the invariant knows of the past.
<1>1. CASE Decide(p) \/ Record(p) \/ Log(p) \/ End(p) \/ WriteLedger(p) \/ Conclude(p)
  <2>1. ~Busy(p)
    BY <1>1, <1>p, PlaceTypes DEF Decide, Record, Log, End, WriteLedger, Conclude, At, CallInv
  <2>2. PICK place \in {"approving", "blocking", "reviewing", "running", "idle", "concluding"},
             a \in Actions \cup {NoAction} :
          Moves(p, place, a) /\ (place \in {"approving", "blocking"} => a \in Actions)
    <3>1. \A d \in decisions[p] : d.act \in Actions
      BY <1>t DEF TypeOK, Decisions
    <3> QED
      BY <1>1, <2>1, <3>1 DEF Decide, Record, Log, End, WriteLedger, Conclude, Leave, Moves
  <2>3. UNCHANGED queueVars
    BY <1>1 DEF Decide, Record, Log, End, WriteLedger, Conclude
  <2>4. SamePast
    <3>1. CASE WriteLedger(p)
      BY <1>t, <3>1 DEF WriteLedger, SamePast, TypeOK, NoHistory
    <3>2. CASE ~WriteLedger(p)
      BY <1>1, <3>2 DEF Decide, Record, Log, End, Conclude, SamePast
    <3> QED
      BY <3>1, <3>2
  <2> QED
    BY <1>t, <2>2, <2>3, <2>4, QuietStep, PlaceTypes DEF Between
\* Steps of the executor between two calls.
<1>2. CASE Take(p) \/ CheckEnds(p) \/ WorkEnds(p)
  <2>1. ~Busy(p) /\ UNCHANGED queueVars
    BY <1>2, <1>p, PlaceTypes DEF Take, CheckEnds, WorkEnds, At, CallInv
  <2>2. /\ history.approved = history'.approved
        /\ history'.refused = history.refused
    BY <1>2, <1>t DEF Take, Start, CheckEnds, WorkEnds, NoteFinished, Note, NoHistory, TypeOK
  <2>3. \A a \in history'.started :
           a \in history.started \/ (a \in Actions /\ row[a] = "approved")
    BY <1>2, <1>t DEF Take, Start, CheckEnds, WorkEnds, NoteFinished, Note, NoHistory, TypeOK
  <2>4. \A b \in Actions : RowInv(b)'
    BY <2>1, <2>2, <2>3 DEF IndInv, RowInv, queueVars
  <2>5. ASSUME NEW q \in Procs PROVE PlaceInv(q)' /\ CallInv(q)'
    <3>1. CASE q = p
      <4>1. ~Busy(q)'
        BY <2>1, <3>1 DEF Busy, queueVars
      <4>2. PlaceInv(q)'
        BY <1>2, <1>t, <1>p, <3>1
           DEF Take, Start, CheckEnds, WorkEnds, TypeOK, PlaceInv, Between, At, Leave, Go
      <4> QED
        BY <4>1, <4>2 DEF CallInv
    <3>2. CASE q # p
      <4>1. pc'[q] = pc[q] /\ cur'[q] = cur[q]
        BY <1>2, <1>t, <3>2 DEF Take, Start, CheckEnds, WorkEnds, TypeOK, Leave, Go
      <4> QED
        BY <2>1, <2>2, <3>2, <4>1, OthersKeep DEF queueVars
    <3> QED
      BY <3>1, <3>2
  <2> QED
    BY <1>t, <2>4, <2>5 DEF IndInv
\* The SELECT of a call.
<1>3. CASE CallQueue(p)
  <2>1. /\ cur[p] \in Actions /\ row[cur[p]] # "absent" /\ pc[p] \in DOMAIN Asks
        /\ call' = [call EXCEPT ![p] = [act |-> cur[p], next |-> Asks[pc[p]],
                                        seen |-> row[cur[p]]]]
    BY <1>3, <1>p, PlaceTypes DEF CallQueue, Read, PlaceInv
  <2>2. ASSUME NEW q \in Procs PROVE PlaceInv(q)' /\ CallInv(q)'
    <3>1. CASE q = p
      <4>1. RowInv(cur[p])
        BY <2>1 DEF IndInv
      <4> QED
        BY <1>3, <1>t, <1>p, <2>1, <3>1, <4>1
           DEF CallQueue, PlaceInv, CallInv, RowInv, TypeOK, QueueTypeOK
    <3>2. CASE q # p
      BY <1>3, <1>t, <2>1, <3>2, OthersKeep DEF CallQueue, TypeOK, QueueTypeOK
    <3> QED
      BY <3>1, <3>2
  <2> QED
    BY <1>3, <1>t, <2>2 DEF CallQueue, IndInv, RowInv
\* The end of a call.
<1>4. CASE CallReturns(p)
  <2>1. /\ Busy(p) /\ call[p] \in Calls /\ call[p].act = cur[p] /\ cur[p] \in Actions
        /\ pc[p] \in DOMAIN Asks /\ call[p].next = Asks[pc[p]]
        /\ call' = [call EXCEPT ![p] = NoCall]
    BY <1>4, <1>t, <1>p, PlaceTypes
       DEF CallReturns, Return, Write, Done, Busy, CallInv, PlaceInv, TypeOK, QueueTypeOK
  <2>2. /\ history.approved \subseteq history'.approved
        /\ history'.refused = history.refused
        /\ history'.started = history.started
    BY <1>4, <1>t DEF CallReturns, Note, NoHistory, TypeOK
  <2>3. \A b \in Actions : row[b] # "absent" => row'[b] # "absent"
    BY <1>4, <1>t, <2>1 DEF CallReturns, Return, Write, Calls, Targets, TypeOK, QueueTypeOK
  <2>4. ASSUME NEW b \in Actions PROVE RowInv(b)'
    <3>1. CASE b # cur[p] \/ Return(p)
      <4>1. row'[b] = row[b] /\ (b \in history'.approved <=> b \in history.approved)
        BY <1>4, <1>t, <2>1, <3>1 DEF CallReturns, Return, Write, Note, NoHistory, TypeOK,
           QueueTypeOK
      <4> QED
        BY <1>4, <2>2, <4>1 DEF CallReturns, IndInv, RowInv
    <3>2. CASE b = cur[p] /\ Write(p)
      <4>1. /\ row'[b] = Asks[pc[p]]
            /\ call[p].seen # Asks[pc[p]]
            /\ TransitionAllowed(call[p].seen, Asks[pc[p]])
        BY <1>t, <2>1, <3>2 DEF Write, TypeOK, QueueTypeOK
      <4>2. b \notin history.refused
        BY <1>p, <2>1, <3>2, <4>1 DEF CallInv, TransitionAllowed
      <4>4. row'[b] \in {"executed", "approved"} /\ needsApproval[b] => b \in history'.approved
        <5>1. CASE Asks[pc[p]] = "executed"
          BY <1>p, <2>1, <2>2, <3>2, <4>1, <5>1 DEF CallInv, TransitionAllowed
        <5>2. CASE Asks[pc[p]] = "approved"
          <6>1. At(p, "approving") /\ ~Return(p)
            BY <2>1, <4>1, <5>2, PlaceTypes DEF Asks, At, Return
          <6> QED
            BY <1>4, <3>2, <6>1 DEF CallReturns, Note, NoHistory
        <5> QED
          BY <4>1, <5>1, <5>2
      <4>5. row'[b] # "absent"
        BY <2>1, <4>1 DEF Calls, Targets
      <4> QED
        BY <1>4, <2>2, <3>2, <4>2, <4>4, <4>5 DEF CallReturns, IndInv, RowInv
    <3> QED
      BY <1>4, <3>1, <3>2 DEF CallReturns
  <2>5. ASSUME NEW q \in Procs PROVE PlaceInv(q)' /\ CallInv(q)'
    <3>1. CASE q = p
      <4>1. ~Busy(q)'
        BY <1>t, <2>1, <3>1 DEF Busy, TypeOK, QueueTypeOK
      <4>2. pc[p] \in {"dropping", "settling"} => AfterReturn[pc[p]] \in Between
        BY <2>1, PlaceTypes DEF AfterReturn, Asks, Between
      <4> QED
        BY <1>4, <1>t, <2>1, <3>1, <4>1, <4>2
           DEF CallReturns, Go, PlaceInv, CallInv, TypeOK
    <3>2. CASE q # p
      <4>1. pc'[q] = pc[q] /\ cur'[q] = cur[q] /\ call'[q] = call[q]
        BY <1>4, <1>t, <2>1, <3>2 DEF CallReturns, Go, TypeOK, QueueTypeOK
      <4> QED
        BY <1>4, <2>2, <2>3, <3>2, <4>1, OthersKeep DEF CallReturns
    <3> QED
      BY <3>1, <3>2
  <2> QED
    BY <1>t, <2>4, <2>5 DEF IndInv
<1>5. CASE CallThrows(p)
  <2>1. /\ pc[p] \in DOMAIN Asks /\ cur[p] \in Actions
        /\ call' = [call EXCEPT ![p] = NoCall]
    BY <1>5, <1>p, PlaceTypes DEF CallThrows, Throw, Done, CallInv, PlaceInv
  <2>2. /\ ~Busy(p)'
        /\ \A q \in Procs : q # p => call'[q] = call[q]
    BY <1>t, <2>1 DEF Busy, TypeOK, QueueTypeOK
  <2>3. AfterThrow[pc[p]] \in {"idle", "running", "failing"}
    BY <2>1, PlaceTypes DEF AfterThrow, Asks
  <2>4. PICK place \in {"idle", "running", "failing"}, a \in Actions \cup {NoAction} :
          Go(p, place, a) /\ (place \notin Between => a \in Actions)
    BY <1>5, <2>1, <2>3 DEF CallThrows, Unwind, Between
  <2>5. SamePast
    BY <1>5, <1>t DEF CallThrows, SamePast, TypeOK, NoHistory
  <2> QED
    BY <1>5, <1>t, <2>2, <2>4, <2>5, ThrowInd, PlaceTypes DEF CallThrows, Throw
\* The research phase queues an action.
<1>6. ASSUME NEW a \in Actions, PlanSeed(p, a) PROVE IndInv'
  <2>1. ~Busy(p) /\ UNCHANGED call
    BY <1>6, <1>p, PlaceTypes DEF PlanSeed, At, CallInv
  <2>2. CASE Enqueue(a, FALSE) /\ Note({"started"}, a) /\ Go(p, "settling", a)
    <3>1. /\ history'.approved = history.approved /\ history'.refused = history.refused
          /\ history'.started = history.started \cup {a}
      BY <1>t, <2>2 DEF Note, NoHistory, TypeOK
    <3>2. Insert(a, "approved", FALSE)
      BY <2>2 DEF Enqueue, InitialStatus
    <3> QED
      BY <1>t, <2>1, <2>2, <3>1, <3>2, InsertInd, PlaceTypes DEF Statuses
  <2>3. CASE Enqueue(a, TRUE) /\ UNCHANGED <<pc, cur, history>>
    BY <1>t, <2>1, <2>3, InsertInd, PlaceTypes DEF Enqueue, InitialStatus, Statuses
  <2>4. CASE /\ EnqueueBlocked(a) /\ Leave(p, "idle")
             /\ history' = [history EXCEPT !.refused = @ \cup {a}, !.dropped = @ \cup InHand(p)]
    <3>1. /\ history'.approved = history.approved /\ history'.started = history.started
          /\ history'.refused = history.refused \cup {a}
      BY <1>t, <2>4 DEF NoHistory, TypeOK
    <3> QED
      BY <1>t, <2>1, <2>4, <3>1, InsertInd, PlaceTypes DEF EnqueueBlocked, Statuses
  <2> QED
    BY <1>6, <2>2, <2>3, <2>4 DEF PlanSeed
<1> QED
  BY <1>1, <1>2, <1>3, <1>4, <1>5, <1>6 DEF Step

LEMMA FaultInd ==
  ASSUME IndInv, NEW p \in Procs, DatabaseError(p) \/ Crash(p), NoteRaces
  PROVE  IndInv'
<1>t. TypeOK /\ TypeOK'
  BY FaultType DEF IndInv
<1>p. PlaceInv(p) /\ CallInv(p)
  BY DEF IndInv
<1>f. Fault(p)
  BY DEF DatabaseError, Crash
<1>1. /\ ~Busy(p)'
      /\ \A q \in Procs : q # p => call'[q] = call[q]
  BY <1>f, <1>t DEF Fault, Abandon, Done, Busy, TypeOK, QueueTypeOK
<1>2. UNCHANGED <<row, needsApproval>>
  BY <1>f DEF Fault, Abandon
<1>3. SamePast
  BY <1>f, <1>t DEF Fault, NoHistory, TypeOK, SamePast
<1>4. PICK place \in {"idle", "running", "failing"}, a \in Actions \cup {NoAction} :
         Go(p, place, a) /\ (place \notin Between => a \in Actions)
  <2>1. CASE Crash(p)
    BY <2>1 DEF Crash, Leave, Between
  <2>2. CASE DatabaseError(p)
    <3>1. /\ AfterThrow[pc[p]] \in {"idle", "running", "failing"}
          /\ AfterThrow[pc[p]] = "failing" => cur[p] \in Actions
      BY <2>2, <1>p DEF DatabaseError, AfterThrow, PlaceInv, Between
    <3> QED
      BY <2>2, <3>1 DEF DatabaseError, Unwind, Between
  <2> QED
    BY <2>1, <2>2
<1> QED
  BY <1>t, <1>1, <1>2, <1>3, <1>4, ThrowInd, PlaceTypes

LEMMA Inductive == IndInv /\ [Next]_vars => IndInv'
<1> SUFFICES ASSUME IndInv, [Next]_vars PROVE IndInv'
  OBVIOUS
<1>1. CASE Next
  BY <1>1, CommandInd, StepInd, FaultInd DEF Next
<1>2. CASE UNCHANGED vars
  BY <1>2 DEF vars, IndInv, TypeOK, QueueTypeOK, PlaceInv, CallInv, RowInv,
     Busy, At
<1> QED
  BY <1>1, <1>2

LEMMA Invariance == Spec => []IndInv
<1> QED
  BY InitInd, Inductive, PTL DEF Spec
-----------------------------------------------------------------------------
(***************************************************************************)
(* Every variable keeps its type, for any number of processes and actions. *)
(***************************************************************************)
THEOREM TypeCorrect == Spec => []TypeOK
<1>1. IndInv => TypeOK
  BY DEF IndInv
<1> QED
  BY <1>1, Invariance, PTL

(***************************************************************************)
(* The review gate: in no process does work on an action that needs        *)
(* approval start before a person approved it (execute's status check,     *)
(* approve and enqueue together).                                          *)
(***************************************************************************)
THEOREM GateHolds == Spec => []ApprovedBeforeRun
<1>1. IndInv => ApprovedBeforeRun
  BY DEF IndInv, TypeOK, NoHistory, RowInv, ApprovedBeforeRun
<1> QED
  BY <1>1, Invariance, PTL

(***************************************************************************)
(* What policy blocked when it was queued is never approved and never run. *)
(***************************************************************************)
THEOREM RefusalIsFinal == Spec => []RefusalStands
<1>1. IndInv => RefusalStands
  BY DEF IndInv, TypeOK, NoHistory, RowInv, RefusalStands
<1> QED
  BY <1>1, Invariance, PTL

\* Every step of a process is a step of QueueNext or leaves the queue alone.
LEMMA UsesQueue == Spec => QueueSpec
<1>1. Init => QueueInit
  BY DEF Init
<1>2. IndInv /\ [Next]_vars => [QueueNext]_queueVars
  <2> SUFFICES ASSUME IndInv, [Next]_vars PROVE [QueueNext]_queueVars
    OBVIOUS
  <2> USE DEF queueVars
  <2>1. CASE UNCHANGED vars
    BY <2>1 DEF vars
  <2>2. ASSUME NEW p \in Procs, Command(p) PROVE [QueueNext]_queueVars
    BY <2>2 DEF Command, Review, RunApproved, RunResearch, DecideOne, ExecuteOne, PlanBlocked,
       PlanPending, PlanOnly, PlanAndRun, PlanAndCheck, QueueNext
  <2>3. ASSUME NEW p \in Procs, Step(p) PROVE [QueueNext]_queueVars
    <3>1. CASE CallQueue(p)
      <4>1. cur[p] \in Actions /\ Asks[pc[p]] \in Targets
        BY <3>1, PlaceTypes DEF CallQueue, IndInv, PlaceInv, Asks, Targets
      <4> QED
        BY <3>1, <4>1 DEF CallQueue, QueueNext
    <3>2. CASE CallReturns(p) \/ CallThrows(p)
      BY <3>2 DEF CallReturns, CallThrows, QueueNext
    <3>3. CASE ~CallQueue(p) /\ ~CallReturns(p) /\ ~CallThrows(p)
      BY <2>3, <3>3 DEF Step, Decide, Record, Take, CheckEnds, WorkEnds, Log, End, PlanSeed,
         WriteLedger, Conclude, QueueNext
    <3> QED
      BY <3>1, <3>2, <3>3
  <2>4. ASSUME NEW p \in Procs, Fault(p) PROVE [QueueNext]_queueVars
    BY <2>4 DEF Fault, QueueNext
  <2> QED
    BY <2>1, <2>2, <2>3, <2>4 DEF Next, DatabaseError, Crash
<1> QED
  BY <1>1, <1>2, Invariance, PTL DEF Spec, QueueSpec

(***************************************************************************)
(* No stale write puts an action back before its review.                   *)
(***************************************************************************)
THEOREM NoReturnToPending == Spec => NeverPendingAgain
<1>1. IndInv /\ [Next]_vars =>
        [\A a \in Actions : row'[a] = "pending" => row[a] \in {"absent", "pending"}]_row
  <2> SUFFICES ASSUME IndInv, [Next]_vars, NEW a \in Actions, row'[a] = "pending", row' # row
               PROVE  row[a] \in {"absent", "pending"}
    OBVIOUS
  <2>1. IndInv'
    BY Inductive
  <2>2. PICK p \in Procs : Command(p) \/ Step(p) \/ Fault(p)
    BY DEF Next, DatabaseError, Crash, vars
  <2>3. CASE Command(p)
    BY <2>3 DEF Command, Review, RunApproved, RunResearch, DecideOne, ExecuteOne, PlanBlocked,
       PlanPending, PlanOnly, PlanAndRun, PlanAndCheck, EnqueueBlocked, Enqueue, Insert,
       queueVars, IndInv, TypeOK, QueueTypeOK
  <2>4. CASE Step(p)
    <3>1. CASE \E b \in Actions : PlanSeed(p, b)
      BY <3>1 DEF PlanSeed, EnqueueBlocked, Enqueue, Insert, IndInv, TypeOK, QueueTypeOK
    <3>2. CASE Write(p)
      <4>1. call[p] \in Calls
        BY <3>2 DEF Write, Busy, IndInv, TypeOK, QueueTypeOK
      <4> QED
        BY <3>2, <4>1 DEF Write, Calls, Targets, IndInv, TypeOK, QueueTypeOK
    <3> QED
      BY <2>4, <3>1, <3>2 DEF Step, Decide, Record, Take, CheckEnds, WorkEnds, Log, End, CallQueue,
         CallReturns, CallThrows, Return, Throw, WriteLedger, Conclude, queueVars
  <2>5. CASE Fault(p)
    BY <2>5 DEF Fault, Abandon
  <2> QED
    BY <2>2, <2>3, <2>4, <2>5
<1> QED
  BY <1>1, Invariance, PTL DEF Spec, NeverPendingAgain
-----------------------------------------------------------------------------
(***************************************************************************)
(* A review has one decision for an action, and what it approves is one of *)
(* them; a check is at an action it queued itself.                         *)
(***************************************************************************)
Approval(a) == [act |-> a, decision |-> "approved"]

ReviewInv(p) == /\ \A d, e \in decisions[p] : d.act = e.act => d = e
                /\ At(p, "approving") => Approval(cur[p]) \in decisions[p]
                /\ At(p, "direct") => cur[p] \in history.direct

RaceInv == \A p, q \in Procs :
              p # q /\ cur[p] = cur[q] /\ cur[p] # NoAction => cur[p] \in raced

(***************************************************************************)
(* What a process is to mark or to tell of as done, it has done; what a    *)
(* row calls executed is done, or in the hands of a research phase.        *)
(***************************************************************************)
DoneInv(p) == /\ At(p, "marking") => cur[p] \in history.finished
              /\ At(p, "concluding") => todo[p] \subseteq history.finished
TrueInv(a) == row[a] = "executed" => a \in history.finished \/ Unfinished(a)

(***************************************************************************)
(* An approval or an execution that is not on record has a process that is *)
(* about to store it: the one that made it.                                *)
(***************************************************************************)
RecordInv(a) ==
    /\ a \in history.approved =>
          \/ Approval(a) \in reviews
          \/ \E p \in Procs : At(p, "recording") /\ cur[p] = a /\ Approval(a) \in decisions[p]
          \/ a \in history.faulted
    /\ row[a] = "executed" =>
          \/ [act |-> a, status |-> "completed"] \in events
          \/ \E p \in Procs : At(p, "completed") /\ cur[p] = a
          \/ a \in history.faulted \/ Unfinished(a)

(***************************************************************************)
(* What is known of an action that no two processes were at, and no fault  *)
(* struck: who is at it has read the row as it is, the row says how the    *)
(* work ended, what one research phase has settled no other one has and    *)
(* nobody did before, and work that ended well is not taken up again.      *)
(***************************************************************************)
AtIt(p, a) ==
    /\ Busy(p) => call[p].seen = row[a]
    /\ pc[p] \in {"working", "marking", "settling"} => row[a] = "approved"
    /\ At(p, "completed") => row[a] = "executed"
    /\ At(p, "failed") => row[a] = "failed"

Held(p, a) == a \in InHand(p) =>
    /\ row[a] = "executed"
    /\ \A q \in Procs : a \in InHand(q) => q = p
    /\ a \in history.finished /\ ~At(p, "concluding") => a \in history.direct

StoryInv(a) == a \notin raced \cup history.faulted =>
    /\ \A p \in Procs : (cur[p] = a => AtIt(p, a)) /\ Held(p, a)
    /\ [act |-> a, status |-> "completed"] \in events => row[a] = "executed"
    /\ [act |-> a, status |-> "failed"] \in events => row[a] = "failed"
    /\ a \in history.finished \ history.direct =>
          row[a] = "executed" \/ \E p \in Procs : At(p, "marking") /\ cur[p] = a
    /\ a \in history.again => a \in history.direct

Story == /\ RaceInv /\ \A p \in Procs : ReviewInv(p) /\ DoneInv(p)
         /\ \A a \in Actions : TrueInv(a) /\ RecordInv(a) /\ StoryInv(a)

-----------------------------------------------------------------------------
\* A field of the history grows by the action it is noted for.
LEMMA NoteFields ==
  ASSUME TypeOK, NEW fields, NEW a, Note(fields, a)
  PROVE  /\ history'.approved = IF "approved" \in fields THEN history.approved \cup {a} ELSE history.approved
         /\ history'.finished = IF "finished" \in fields THEN history.finished \cup {a} ELSE history.finished
         /\ history'.again = IF "again" \in fields THEN history.again \cup {a} ELSE history.again
         /\ history'.direct = IF "direct" \in fields THEN history.direct \cup {a} ELSE history.direct
         /\ history'.faulted = IF "faulted" \in fields THEN history.faulted \cup {a} ELSE history.faulted
         /\ history'.dropped = IF "dropped" \in fields THEN history.dropped \cup {a} ELSE history.dropped
  BY DEF Note, NoHistory
\* What only grows of it.
PastGrows == \A f \in {"finished", "direct", "faulted", "dropped"} : history[f] \subseteq history'[f]

LEMMA NoteGrows ==
  ASSUME TypeOK, NEW fields, NEW a, UNCHANGED history \/ Note(fields, a)
  PROVE  PastGrows
<1>1. CASE UNCHANGED history
  BY <1>1 DEF PastGrows
<1>2. CASE Note(fields, a)
  BY <1>2, NoteFields DEF PastGrows
<1> QED
  BY <1>1, <1>2

\* Nothing is approved or finished by queueing a seed.
LEMMA SeedPast ==
  ASSUME TypeOK, NEW p \in Procs, NEW a \in Actions, PlanSeed(p, a)
  PROVE  /\ history'.approved = history.approved /\ history'.finished = history.finished
         /\ history'.again = history.again
<1>1. CASE UNCHANGED history
  BY <1>1
<1>2. CASE Note({"started"}, a)
  BY <1>2 DEF Note, NoHistory
<1>3. CASE history' = [history EXCEPT !.refused = @ \cup {a}, !.dropped = @ \cup InHand(p)]
  BY <1>3 DEF TypeOK, NoHistory
<1> QED
  BY <1>1, <1>2, <1>3 DEF PlanSeed

\* What a step of p leaves alone, and what only grows.
Others(p) == \A q \in Procs \ {p} : /\ pc'[q] = pc[q] /\ cur'[q] = cur[q]
                                    /\ call'[q] = call[q] /\ decisions'[q] = decisions[q]
                                    /\ todo'[q] = todo[q]

Grows == /\ raced \subseteq raced' /\ reviews \subseteq reviews' /\ events \subseteq events'
         /\ PastGrows

LEMMA CommandFrame ==
  ASSUME TypeOK, NEW p \in Procs, Command(p), NoteRaces
  PROVE  Others(p) /\ Grows /\ UNCHANGED <<call, reviews, events>> /\ pc[p] = "idle"
<1> USE DEF TypeOK, QueueTypeOK, Others, Grows, queueVars, Leave, Go, At
<1>1. raced \subseteq raced'
  BY DEF NoteRaces
<1>2. CASE Review(p) \/ RunApproved(p) \/ RunResearch(p)
  BY <1>1, <1>2 DEF Review, RunApproved, RunResearch, PastGrows
<1>3. ASSUME NEW a \in Actions, DecideOne(p, a) \/ ExecuteOne(p, a)
      PROVE  Others(p) /\ Grows /\ UNCHANGED <<call, reviews, events>> /\ pc[p] = "idle"
  BY <1>1, <1>3 DEF DecideOne, ExecuteOne, PastGrows
<1>4. ASSUME NEW a \in Actions, PlanBlocked(p, a) \/ PlanPending(p, a) \/ PlanOnly(p, a)
      PROVE  Others(p) /\ Grows /\ UNCHANGED <<call, reviews, events>> /\ pc[p] = "idle"
  BY <1>1, <1>4, NoteGrows DEF PlanBlocked, PlanPending, PlanOnly
<1>5. ASSUME NEW a \in Actions, PlanAndRun(p, a)
      PROVE  Others(p) /\ Grows /\ UNCHANGED <<call, reviews, events>> /\ pc[p] = "idle"
  BY <1>1, <1>5, NoteGrows DEF PlanAndRun, Start
<1>6. ASSUME NEW a \in Actions, PlanAndCheck(p, a)
      PROVE  Others(p) /\ Grows /\ UNCHANGED <<call, reviews, events>> /\ pc[p] = "idle"
  BY <1>1, <1>6, NoteGrows DEF PlanAndCheck, Start
<1> QED
  BY <1>2, <1>3, <1>4, <1>5, <1>6 DEF Command

LEMMA StepFrame ==
  ASSUME TypeOK, NEW p \in Procs, Step(p), NoteRaces
  PROVE  Others(p) /\ Grows
<1> USE DEF TypeOK, QueueTypeOK, Others, Grows, queueVars, Leave, Go
<1>1. raced \subseteq raced'
  BY DEF NoteRaces
<1>2. CASE Decide(p) \/ Record(p) \/ Log(p) \/ End(p)
  BY <1>1, <1>2 DEF Decide, Record, Log, End, PastGrows
<1>3. CASE Take(p) \/ CheckEnds(p) \/ WorkEnds(p)
  <2>1. CASE Take(p)
    <3>1. PICK a \in todo[p] :
              \/ UNCHANGED history
              \/ Note({"started"}, a)
      BY <2>1 DEF Take, Start
    <3>2. PastGrows
      BY <3>1, NoteGrows
    <3> QED
      BY <1>1, <2>1, <3>2 DEF Take, Start
  <2>2. CASE CheckEnds(p)
    <3>1. PICK fields : UNCHANGED history \/ Note(fields, cur[p])
      BY <2>2 DEF CheckEnds, NoteFinished
    <3>2. PastGrows
      BY <3>1, NoteGrows
    <3> QED
      BY <1>1, <2>2, <3>2 DEF CheckEnds
  <2>3. CASE WorkEnds(p)
    <3>1. PICK fields : UNCHANGED history \/ Note(fields, cur[p])
      BY <2>3 DEF WorkEnds, NoteFinished
    <3>2. PastGrows
      BY <3>1, NoteGrows
    <3> QED
      BY <1>1, <2>3, <3>2 DEF WorkEnds
  <2> QED
    BY <1>3, <2>1, <2>2, <2>3
<1>4. CASE CallQueue(p)
  BY <1>1, <1>4 DEF CallQueue, Read, PastGrows
<1>5. CASE CallReturns(p)
  <2>1. call' = [call EXCEPT ![p] = NoCall]
    BY <1>5 DEF CallReturns, Return, Write, Done
  <2>2. UNCHANGED history \/ Note({"approved"}, cur[p])
    BY <1>5 DEF CallReturns
  <2>3. PastGrows
    BY <2>2, NoteGrows
  <2> QED
    BY <1>1, <1>5, <2>1, <2>3 DEF CallReturns
<1>6. CASE CallThrows(p)
  <2>1. PastGrows
    BY <1>6 DEF CallThrows, PastGrows, NoHistory
  <2> QED
    BY <1>1, <1>6, <2>1 DEF CallThrows, Throw, Done, Unwind
<1>7. ASSUME NEW a \in Actions, PlanSeed(p, a) PROVE Others(p) /\ Grows
  <2>1. PastGrows
    <3>1. CASE UNCHANGED history \/ Note({"started"}, a)
      BY <3>1, NoteGrows
    <3>2. CASE history' = [history EXCEPT !.refused = @ \cup {a}, !.dropped = @ \cup InHand(p)]
      BY <3>2 DEF PastGrows, NoHistory
    <3> QED
      BY <1>7, <3>1, <3>2 DEF PlanSeed
  <2>2. \/ UNCHANGED <<pc, cur, todo>>
        \/ Go(p, "settling", a) /\ UNCHANGED todo
        \/ Leave(p, "idle") /\ todo' = [todo EXCEPT ![p] = {}]
    BY <1>7 DEF PlanSeed
  <2> QED
    BY <1>1, <1>7, <2>1, <2>2 DEF PlanSeed
<1>8. CASE WriteLedger(p)
  <2>1. PastGrows
    BY <1>8 DEF WriteLedger, PastGrows, NoHistory
  <2> QED
    BY <1>1, <1>8, <2>1 DEF WriteLedger
<1>9. CASE Conclude(p)
  BY <1>1, <1>9 DEF Conclude, PastGrows
<1> QED
  BY <1>2, <1>3, <1>4, <1>5, <1>6, <1>7, <1>8, <1>9 DEF Step

LEMMA FaultFrame ==
  ASSUME TypeOK, NEW p \in Procs, DatabaseError(p) \/ Crash(p), NoteRaces
  PROVE  /\ Others(p) /\ Grows /\ UNCHANGED <<row, needsApproval, reviews, events>>
         /\ history'.approved = history.approved /\ history'.finished = history.finished
         /\ history'.again = history.again /\ history'.direct = history.direct
         /\ cur[p] # NoAction => cur[p] \in history'.faulted
         /\ InHand(p) \subseteq history'.dropped
         /\ cur'[p] \in {cur[p], NoAction}
         /\ pc'[p] \in {"idle", "running", "failing"}
         /\ decisions'[p] = {}
<1> USE DEF TypeOK, QueueTypeOK, Others, Grows, Leave, Go
<1>1. raced \subseteq raced'
  BY DEF NoteRaces
<1>2. Fault(p)
  BY DEF DatabaseError, Crash
<1>3. /\ UNCHANGED <<row, needsApproval, reviews, events>>
      /\ \A q \in Procs \ {p} : call'[q] = call[q]
  BY <1>2 DEF Fault, Abandon, Done
<1>4. /\ history'.approved = history.approved /\ history'.finished = history.finished
      /\ history'.again = history.again /\ history'.direct = history.direct
      /\ cur[p] # NoAction => cur[p] \in history'.faulted
      /\ InHand(p) \subseteq history'.dropped /\ PastGrows
  BY <1>2 DEF Fault, NoHistory, PastGrows
<1>5. CASE DatabaseError(p)
  <2>1. AfterThrow[pc[p]] \in {"idle", "running", "failing"}
    BY <1>5 DEF DatabaseError, AfterThrow
  <2> QED
    BY <1>1, <1>3, <1>4, <1>5, <2>1 DEF DatabaseError, Unwind
<1>6. CASE Crash(p)
  BY <1>1, <1>3, <1>4, <1>6 DEF Crash
<1> QED
  BY <1>5, <1>6

(***************************************************************************)
(* What a process has in hand: only settling adds to it, and it leaves the *)
(* hand told of, or cut off.                                               *)
(***************************************************************************)
LEMMA HandStep ==
  ASSUME TypeOK, TypeOK', NEW p \in Procs, CallInv(p), NoteRaces,
         Command(p) \/ Step(p) \/ DatabaseError(p) \/ Crash(p), NEW a \in Actions
  PROVE  /\ \A q \in Procs \ {p} : InHand(q)' = InHand(q)
         /\ a \in InHand(p) => a \in InHand(p)' \/ a \in history'.dropped \/ Conclude(p)
         /\ a \in InHand(p)' => \/ a \in InHand(p) /\ ~At(p, "concluding")
                                \/ CallReturns(p) /\ At(p, "settling") /\ cur[p] = a
<1> USE DEF Leave, Go, At
<1>1. \A q \in Procs \ {p} : InHand(q)' = InHand(q)
  BY CommandFrame, StepFrame, FaultFrame DEF Others, InHand
<1>2. pc \in [Procs -> Places] /\ todo \in [Procs -> SUBSET Actions]
      /\ history \in [DOMAIN NoHistory -> SUBSET Actions]
  BY DEF TypeOK
<1> SUFFICES /\ a \in InHand(p) => a \in InHand(p)' \/ a \in history'.dropped \/ Conclude(p)
             /\ a \in InHand(p)' => \/ a \in InHand(p) /\ ~At(p, "concluding")
                                    \/ CallReturns(p) /\ At(p, "settling") /\ cur[p] = a
  BY <1>1
<1>3. CASE InHand(p) = {} /\ InHand(p)' = {}
  BY <1>3
<1>4. CASE Command(p)
  <2>1. InHand(p) = {}
    BY <1>4, CommandFrame DEF InHand, Research
  <2>2. InHand(p)' = {}
    <3>1. CASE RunResearch(p)
      BY <1>2, <3>1 DEF RunResearch, InHand
    <3>2. CASE ~RunResearch(p)
      <4>1. pc'[p] \notin Research
        BY <1>2, <1>4, <3>2 DEF Command, Review, RunApproved, DecideOne, ExecuteOne, PlanBlocked,
           PlanPending, PlanOnly, PlanAndRun, PlanAndCheck, Start, Research
      <4> QED
        BY <4>1 DEF InHand
    <3> QED
      BY <3>1, <3>2
  <2> QED
    BY <1>3, <2>1, <2>2
<1>5. CASE Decide(p) \/ Record(p) \/ Take(p) \/ CheckEnds(p) \/ WorkEnds(p) \/ Log(p) \/ End(p)
  <2>1. pc[p] \notin Research /\ pc'[p] \notin Research
    BY <1>2, <1>5 DEF Decide, Record, Take, Start, CheckEnds, WorkEnds, Log, End, Research
  <2> QED
    BY <1>3, <2>1 DEF InHand
<1>6. CASE CallQueue(p)
  BY <1>6, PlaceTypes DEF CallQueue, InHand
<1>7. CASE CallReturns(p)
  <2>1. pc[p] \in DOMAIN Asks /\ pc'[p] = AfterReturn[pc[p]]
    BY <1>2, <1>7 DEF CallReturns, Return, Write, CallInv
  <2>2. CASE pc[p] = "settling"
    BY <1>2, <1>7, <2>1, <2>2 DEF CallReturns, InHand, Research, AfterReturn
  <2>3. CASE pc[p] # "settling"
    <3>1. pc[p] \notin Research /\ pc'[p] \notin Research
      BY <2>1, <2>3, PlaceTypes DEF AfterReturn, Research
    <3> QED
      BY <1>3, <3>1 DEF InHand
  <2> QED
    BY <2>2, <2>3
<1>8. CASE CallThrows(p)
  <2>1. InHand(p) \subseteq history'.dropped
    BY <1>2, <1>8 DEF CallThrows, NoHistory
  <2>2. todo'[p] = todo[p] \ InHand(p)
    BY <1>2, <1>8 DEF CallThrows, Unwind
  <2>3. pc[p] \in DOMAIN Asks /\ pc'[p] = AfterThrow[pc[p]]
    BY <1>2, <1>8 DEF CallThrows, Throw, Unwind, CallInv
  <2>4. pc'[p] \notin Research
    BY <2>3, PlaceTypes DEF AfterThrow, Research
  <2> QED
    BY <2>1, <2>4 DEF InHand
<1>9. ASSUME NEW b \in Actions, PlanSeed(p, b)
      PROVE  /\ a \in InHand(p) => a \in InHand(p)' \/ a \in history'.dropped
             /\ a \in InHand(p)' => a \in InHand(p) /\ ~At(p, "concluding")
  <2>1. CASE UNCHANGED <<pc, todo>>
    BY <1>9, <2>1 DEF PlanSeed, InHand
  <2>2. CASE Go(p, "settling", b) /\ UNCHANGED todo
    BY <1>2, <1>9, <2>2 DEF PlanSeed, InHand, Research
  <2>3. CASE /\ history' = [history EXCEPT !.refused = @ \cup {b}, !.dropped = @ \cup InHand(p)]
             /\ Leave(p, "idle")
    BY <1>2, <2>3 DEF InHand, Research, NoHistory
  <2> QED
    BY <1>9, <2>1, <2>2, <2>3 DEF PlanSeed
<1>10. CASE WriteLedger(p)
  BY <1>2, <1>10 DEF WriteLedger, InHand, Research
<1>11. CASE Conclude(p)
  BY <1>2, <1>11 DEF Conclude, InHand, Research
<1>12. CASE DatabaseError(p) \/ Crash(p)
  <2>1. InHand(p) \subseteq history'.dropped /\ pc'[p] \notin Research
    BY <1>12, FaultFrame DEF Research
  <2> QED
    BY <2>1 DEF InHand
<1> QED
  BY <1>4, <1>5, <1>6, <1>7, <1>8, <1>9, <1>10, <1>11, <1>12 DEF Step

\* What is in the hands of a research phase stays unfinished until it is told of.
LEMMA UnfinishedStep ==
  ASSUME TypeOK, TypeOK', NEW p \in Procs, CallInv(p), NoteRaces,
         Command(p) \/ Step(p) \/ DatabaseError(p) \/ Crash(p),
         NEW a \in Actions, Unfinished(a)
  PROVE  Unfinished(a)' \/ (Conclude(p) /\ a \in todo[p])
<1>1. Grows
  BY CommandFrame, StepFrame, FaultFrame
<1>2. CASE a \in history.dropped
  BY <1>1, <1>2 DEF Grows, PastGrows, Unfinished
<1>3. ASSUME NEW q \in Procs, a \in InHand(q) PROVE Unfinished(a)' \/ (Conclude(p) /\ a \in todo[p])
  <2>1. a \in InHand(q)' \/ a \in history'.dropped \/ (q = p /\ Conclude(p))
    BY <1>3, HandStep
  <2>2. a \in todo[q]
    BY <1>3 DEF InHand
  <2> QED
    BY <2>1, <2>2 DEF Unfinished
<1> QED
  BY <1>2, <1>3 DEF Unfinished

-----------------------------------------------------------------------------
LEMMA RaceStep == ASSUME TypeOK', NoteRaces PROVE RaceInv'
  BY DEF TypeOK, NoteRaces, RaceInv

\* The process that moves keeps its own decisions in order; the others keep
\* theirs because they stand still.
LEMMA ReviewStep ==
  ASSUME TypeOK, TypeOK', \A q \in Procs : ReviewInv(q),
         NEW p \in Procs, Command(p) \/ Step(p) \/ DatabaseError(p) \/ Crash(p), NoteRaces,
         CallInv(p)
  PROVE  \A q \in Procs : ReviewInv(q)'
<1>1. ASSUME NEW q \in Procs \ {p} PROVE ReviewInv(q)'
  <2>1. Others(p) /\ Grows /\ ReviewInv(q)
    BY CommandFrame, StepFrame, FaultFrame
  <2> QED
    BY <2>1 DEF Others, Grows, PastGrows, ReviewInv, At
<1> SUFFICES ReviewInv(p)'
  BY <1>1
<1>2. /\ ReviewInv(p) /\ pc \in [Procs -> Places] /\ cur \in [Procs -> Actions \cup {NoAction}]
      /\ decisions \in [Procs -> SUBSET Decisions]
  BY DEF TypeOK
\* A step that picks nothing to approve and keeps to some of the decisions.
<1>3. ASSUME decisions'[p] \subseteq decisions[p], pc'[p] \notin {"approving", "direct"}
      PROVE  ReviewInv(p)'
  BY <1>2, <1>3 DEF ReviewInv, At
<1>4. CASE Command(p)
  <2> USE DEF Leave, Go, At
  <2>1. CASE Review(p)
    <3>1. \A d, e \in decisions'[p] : d.act = e.act => d = e
      BY <1>2, <2>1 DEF Review, Reviewable
    <3>2. pc'[p] = "reviewing"
      BY <1>2, <2>1 DEF Review
    <3> QED
      BY <3>1, <3>2 DEF ReviewInv
  <2>2. CASE RunApproved(p) \/ RunResearch(p)
    BY <1>2, <1>3, <2>2 DEF RunApproved, RunResearch
  <2>3. ASSUME NEW a \in Actions, DecideOne(p, a) PROVE ReviewInv(p)'
    BY <1>2, <2>3 DEF DecideOne, ReviewInv
  <2>4. ASSUME NEW a \in Actions, ExecuteOne(p, a) \/ PlanAndRun(p, a) PROVE ReviewInv(p)'
    BY <1>2, <1>3, <2>4 DEF ExecuteOne, PlanAndRun, Start
  <2>5. ASSUME NEW a \in Actions, PlanBlocked(p, a) \/ PlanPending(p, a) \/ PlanOnly(p, a)
        PROVE  ReviewInv(p)'
    BY <1>2, <1>3, <2>5 DEF PlanBlocked, PlanPending, PlanOnly
  <2>6. ASSUME NEW a \in Actions, PlanAndCheck(p, a) PROVE ReviewInv(p)'
    <3>1. a \in history'.direct
      BY <2>6 DEF PlanAndCheck, Note, NoHistory
    <3>2. pc'[p] = "direct" /\ cur'[p] = a /\ decisions'[p] = decisions[p]
      BY <1>2, <2>6 DEF PlanAndCheck
    <3> QED
      BY <1>2, <3>1, <3>2 DEF ReviewInv
  <2> QED
    BY <1>4, <2>1, <2>2, <2>3, <2>4, <2>5, <2>6 DEF Command
<1>5. CASE Step(p)
  <2> USE DEF Leave, Go, At
  <2>1. CASE Decide(p)
    <3>1. PICK d \in decisions[p] :
             /\ pc'[p] = (IF d.decision = "approved" THEN "approving" ELSE "blocking")
             /\ cur'[p] = d.act /\ decisions' = decisions
      BY <1>2, <2>1 DEF Decide
    <3>2. d \in Decisions
      BY <1>2
    <3>3. d.decision = "approved" => d = Approval(d.act)
      BY <3>2 DEF Approval, Decisions
    <3>4. pc'[p] = "approving" => Approval(cur'[p]) \in decisions'[p]
      BY <3>1, <3>3
    <3>5. Approval(cur[p])' = Approval(cur'[p])
      BY DEF Approval
    <3> QED
      BY <1>2, <3>1, <3>4, <3>5 DEF ReviewInv
  <2>2. CASE Record(p)
    BY <1>2, <1>3, <2>2 DEF Record
  <2>3. CASE Take(p) \/ CheckEnds(p) \/ WorkEnds(p)
    BY <1>2, <1>3, <2>3 DEF Take, Start, CheckEnds, WorkEnds
  <2>4. CASE CallQueue(p)
    BY <1>2, <2>4 DEF CallQueue, ReviewInv, Approval
  <2>5. CASE CallReturns(p)
    <3>1. pc[p] \in DOMAIN Asks
      BY <2>5 DEF CallReturns, Return, Write, CallInv
    <3>2. AfterReturn[pc[p]] \notin {"approving", "direct"}
      BY <3>1, PlaceTypes DEF AfterReturn
    <3> QED
      BY <1>2, <1>3, <2>5, <3>2 DEF CallReturns
  <2>6. CASE CallThrows(p)
    <3>1. pc[p] \in DOMAIN Asks
      BY <2>6 DEF CallThrows, Throw, CallInv
    <3>2. AfterThrow[pc[p]] \notin {"approving", "direct"}
      BY <3>1, PlaceTypes DEF AfterThrow
    <3> QED
      BY <1>2, <1>3, <2>6, <3>2 DEF CallThrows, Unwind
  <2>7. CASE Log(p) \/ End(p)
    BY <1>2, <1>3, <2>7 DEF Log, End
  <2>8. ASSUME NEW b \in Actions, PlanSeed(p, b) PROVE ReviewInv(p)'
    BY <1>2, <1>3, <2>8 DEF PlanSeed
  <2>9. CASE WriteLedger(p) \/ Conclude(p)
    BY <1>2, <1>3, <2>9 DEF WriteLedger, Conclude
  <2> QED
    BY <1>5, <2>1, <2>2, <2>3, <2>4, <2>5, <2>6, <2>7, <2>8, <2>9 DEF Step
<1>6. CASE DatabaseError(p) \/ Crash(p)
  BY <1>3, <1>6, FaultFrame
<1> QED
  BY <1>4, <1>5, <1>6

(***************************************************************************)
(* What p is about to mark or to tell of as done, it has just done.        *)
(***************************************************************************)
LEMMA DoneStep ==
  ASSUME IndInv, TypeOK', NEW p \in Procs, \A q \in Procs : DoneInv(q),
         Command(p) \/ Step(p) \/ DatabaseError(p) \/ Crash(p), NoteRaces
  PROVE  \A q \in Procs : DoneInv(q)'
<1> USE DEF Leave, Go, At
<1>1. /\ TypeOK /\ CallInv(p) /\ pc \in [Procs -> Places] /\ DoneInv(p)
      /\ cur \in [Procs -> Actions \cup {NoAction}]
  BY DEF IndInv, TypeOK
<1>2. ASSUME NEW q \in Procs \ {p} PROVE DoneInv(q)'
  <2>1. Others(p) /\ Grows /\ DoneInv(q)
    BY <1>1, CommandFrame, StepFrame, FaultFrame
  <2> QED
    BY <2>1 DEF Others, Grows, PastGrows, DoneInv
<1> SUFFICES DoneInv(p)'
  BY <1>2
<1>3. CASE pc'[p] \notin {"marking", "concluding"}
  BY <1>3 DEF DoneInv
<1>4. CASE Command(p)
  <2>1. pc'[p] \notin {"marking", "concluding"}
    BY <1>1, <1>4 DEF Command, Review, RunApproved, RunResearch, DecideOne, ExecuteOne,
       PlanBlocked, PlanPending, PlanOnly, PlanAndRun, PlanAndCheck, Start
  <2> QED
    BY <1>3, <2>1
<1>5. CASE Decide(p) \/ Record(p) \/ Take(p) \/ CheckEnds(p) \/ Log(p) \/ End(p) \/ Conclude(p)
  <2>1. pc'[p] \notin {"marking", "concluding"}
    BY <1>1, <1>5 DEF Decide, Record, Take, Start, CheckEnds, Log, End, Conclude
  <2> QED
    BY <1>3, <2>1
<1>6. CASE WorkEnds(p)
  <2>1. pc'[p] = "marking" => cur[p] \in history'.finished
    BY <1>1, <1>6 DEF WorkEnds, NoteFinished, Note, NoHistory
  <2> QED
    BY <1>1, <1>6, <2>1 DEF WorkEnds, DoneInv
<1>7. CASE CallQueue(p)
  BY <1>1, <1>7 DEF CallQueue, DoneInv
<1>8. CASE CallReturns(p) \/ CallThrows(p)
  <2>1. pc[p] \in DOMAIN Asks /\ pc'[p] \in {AfterReturn[pc[p]], AfterThrow[pc[p]]}
    BY <1>1, <1>8 DEF CallReturns, CallThrows, Return, Write, Throw, Unwind, CallInv
  <2>2. pc'[p] \notin {"marking", "concluding"}
    BY <2>1, PlaceTypes DEF AfterReturn, AfterThrow
  <2> QED
    BY <1>3, <2>2
<1>9. ASSUME NEW b \in Actions, PlanSeed(p, b) PROVE DoneInv(p)'
  <2>1. pc'[p] \notin {"marking", "concluding"}
    BY <1>1, <1>9 DEF PlanSeed
  <2> QED
    BY <1>3, <2>1
<1>10. CASE WriteLedger(p)
  <2>1. pc'[p] = "concluding" /\ todo'[p] \subseteq history'.finished
    BY <1>1, <1>10 DEF WriteLedger, TypeOK, NoHistory
  <2> QED
    BY <2>1 DEF DoneInv
<1>11. CASE DatabaseError(p) \/ Crash(p)
  BY <1>1, <1>3, <1>11, FaultFrame
<1> QED
  BY <1>4, <1>5, <1>6, <1>7, <1>8, <1>9, <1>10, <1>11 DEF Step

\* A row comes to say executed by marking done work, or in a research phase.
LEMMA ExecutedStep ==
  ASSUME IndInv, TypeOK', NEW p \in Procs,
         Command(p) \/ Step(p) \/ DatabaseError(p) \/ Crash(p), NoteRaces,
         NEW a \in Actions, row'[a] = "executed", row[a] # "executed"
  PROVE  /\ CallReturns(p) /\ cur[p] = a
         /\ At(p, "marking") \/ (At(p, "settling") /\ a \in InHand(p)')
<1> USE DEF Leave, Go, At
<1>1. TypeOK /\ CallInv(p) /\ PlaceInv(p)
  BY DEF IndInv
<1>2. ~Command(p)
  BY <1>1 DEF Command, Review, RunApproved, RunResearch, DecideOne, ExecuteOne, PlanBlocked,
     PlanPending, PlanOnly, PlanAndRun, PlanAndCheck, EnqueueBlocked, Enqueue, InitialStatus,
     Insert, queueVars, TypeOK, QueueTypeOK
<1>3. ~DatabaseError(p) /\ ~Crash(p)
  BY <1>1, FaultFrame
<1>4. Step(p)
  BY <1>2, <1>3
<1>5. \A b \in Actions : ~PlanSeed(p, b)
  BY <1>1 DEF PlanSeed, EnqueueBlocked, Enqueue, InitialStatus, Insert, TypeOK, QueueTypeOK
<1>6. CallReturns(p)
  BY <1>4, <1>5 DEF Step, Decide, Record, Take, CheckEnds, WorkEnds, CallQueue, CallThrows, Throw,
     Log, End, WriteLedger, Conclude, queueVars
<1>7. /\ pc[p] \in DOMAIN Asks /\ call[p].act = cur[p] /\ call[p].next = Asks[pc[p]]
  BY <1>1, <1>6 DEF CallReturns, Return, Write, CallInv
<1>8. cur[p] = a /\ Asks[pc[p]] = "executed"
  BY <1>1, <1>6, <1>7 DEF CallReturns, Return, Write, TypeOK, QueueTypeOK
<1>9. pc[p] \in {"marking", "settling"}
  BY <1>7, <1>8, PlaceTypes DEF Asks
<1>10. pc[p] = "settling" => a \in InHand(p)'
  BY <1>1, <1>6, <1>8 DEF CallReturns, AfterReturn, InHand, Research, TypeOK
<1> QED
  BY <1>6, <1>8, <1>9, <1>10

LEMMA TrueStep ==
  ASSUME IndInv, TypeOK', NEW p \in Procs, DoneInv(p),
         Command(p) \/ Step(p) \/ DatabaseError(p) \/ Crash(p), NoteRaces,
         NEW a \in Actions, TrueInv(a)
  PROVE  TrueInv(a)'
<1>1. TypeOK /\ CallInv(p)
  BY DEF IndInv
<1>2. history.finished \subseteq history'.finished
  BY <1>1, CommandFrame, StepFrame, FaultFrame DEF Grows, PastGrows
<1> SUFFICES ASSUME row'[a] = "executed" PROVE a \in history'.finished \/ Unfinished(a)'
  BY DEF TrueInv
<1>3. CASE row[a] = "executed"
  <2>1. a \in history.finished \/ Unfinished(a)
    BY <1>3 DEF TrueInv
  <2>2. Conclude(p) /\ a \in todo[p] => a \in history.finished
    BY DEF Conclude, DoneInv
  <2> QED
    BY <1>1, <1>2, <2>1, <2>2, UnfinishedStep
<1>4. CASE row[a] # "executed"
  <2>1. /\ cur[p] = a
        /\ At(p, "marking") \/ a \in InHand(p)'
    BY <1>4, ExecutedStep
  <2> QED
    BY <1>2, <2>1 DEF DoneInv, Unfinished
<1> QED
  BY <1>3, <1>4

\* What is on record stays there, and what is not waits for the one process
\* that will store it.
LEMMA RecordStep ==
  ASSUME IndInv, TypeOK', NEW p \in Procs, ReviewInv(p),
         Command(p) \/ Step(p) \/ DatabaseError(p) \/ Crash(p), NoteRaces,
         NEW a \in Actions, RecordInv(a)
  PROVE  RecordInv(a)'
<1> DEFINE completed == [act |-> a, status |-> "completed"]
           Storing(q) == pc[q] = "recording" /\ cur[q] = a /\ Approval(a) \in decisions[q]
           Telling(q) == pc[q] = "completed" /\ cur[q] = a
<1>1. /\ TypeOK /\ CallInv(p) /\ PlaceInv(p)
      /\ pc \in [Procs -> Places] /\ cur \in [Procs -> Actions \cup {NoAction}]
      /\ decisions \in [Procs -> SUBSET Decisions]
  BY DEF IndInv, TypeOK
<1>2. Others(p) /\ Grows
  BY <1>1, CommandFrame, StepFrame, FaultFrame
<1>3. \A q \in Procs \ {p} : (Storing(q) => Storing(q)') /\ (Telling(q) => Telling(q)')
  BY <1>2 DEF Others, Approval
\* What remains is what the step of p itself makes or ends.
<1>4. ASSUME a \in history'.approved =>
                a \in history.approved \/ Storing(p)',
             row'[a] = "executed" => row[a] = "executed" \/ Telling(p)' \/ Unfinished(a)',
             Unfinished(a) => Unfinished(a)' \/ completed \in events',
             Storing(p) => Storing(p)' \/ Approval(a) \in reviews' \/ a \in history'.faulted,
             Telling(p) => Telling(p)' \/ completed \in events' \/ a \in history'.faulted
      PROVE  RecordInv(a)'
  <2>1. Approval(a)' = Approval(a)
    BY DEF Approval
  <2>2. a \in history'.approved =>
           \/ Approval(a) \in reviews'
           \/ \E q \in Procs : Storing(q)'
           \/ a \in history'.faulted
    BY <1>2, <1>3, <1>4 DEF Grows, PastGrows, RecordInv, At
  <2>3. row'[a] = "executed" =>
           \/ completed \in events'
           \/ \E q \in Procs : Telling(q)'
           \/ a \in history'.faulted \/ Unfinished(a)'
    BY <1>2, <1>3, <1>4 DEF Grows, PastGrows, RecordInv, At
  <2> QED
    BY <2>1, <2>2, <2>3 DEF RecordInv, At
<1>u. Unfinished(a) => Unfinished(a)' \/ completed \in events'
  <2>1. Conclude(p) /\ a \in todo[p] => completed \in events'
    BY DEF Conclude
  <2> QED
    BY <1>1, <2>1, UnfinishedStep
<1>r. row'[a] = "executed" => row[a] = "executed" \/ Telling(p)' \/ Unfinished(a)'
  <2> SUFFICES ASSUME row'[a] = "executed", row[a] # "executed" PROVE Telling(p)' \/ Unfinished(a)'
    OBVIOUS
  <2>1. /\ CallReturns(p) /\ cur[p] = a
        /\ At(p, "marking") \/ a \in InHand(p)'
    BY ExecutedStep
  <2>2. At(p, "marking") => Telling(p)'
    BY <1>1, <2>1 DEF CallReturns, AfterReturn, Go, At
  <2> QED
    BY <2>1, <2>2 DEF Unfinished
<1> HIDE DEF completed
<1>5. CASE Command(p)
  <2>1. ~Storing(p) /\ ~Telling(p)
    BY <1>1, <1>5, CommandFrame
  <2>2. a \in history'.approved => a \in history.approved
    BY <1>1, <1>5 DEF Command, Review, RunApproved, RunResearch, DecideOne, ExecuteOne, PlanBlocked,
       PlanPending, PlanOnly, PlanAndRun, PlanAndCheck, Start, Note, NoHistory
  <2> HIDE DEF Storing, Telling
  <2> QED
    BY <1>4, <1>u, <1>r, <2>1, <2>2
<1>6. CASE Step(p)
  <2> USE DEF Leave, Go, At
  <2>1. CASE Record(p)
    <3>1. UNCHANGED history /\ ~Telling(p)
      BY <2>1 DEF Record, queueVars
    <3>2. ASSUME Storing(p) PROVE Approval(a) \in reviews'
      <4>1. PICK d \in decisions[p] : d.act = cur[p] /\ reviews' = reviews \cup {d}
        BY <2>1 DEF Record
      <4>2. Approval(a).act = a
        BY DEF Approval
      <4>3. d = Approval(a)
        BY <3>2, <4>1, <4>2 DEF ReviewInv
      <4> QED
        BY <4>1, <4>3
    <3> HIDE DEF Storing, Telling
    <3> QED
      BY <1>4, <1>u, <1>r, <3>1, <3>2
  <2>2. CASE Log(p)
    <3>1. UNCHANGED history /\ ~Storing(p)
      BY <2>2 DEF Log, queueVars
    <3>2. Telling(p) => completed \in events'
      BY <2>2 DEF Log, completed
    <3> HIDE DEF Storing, Telling
    <3> QED
      BY <1>4, <1>u, <1>r, <3>1, <3>2
  <2>3. CASE Decide(p) \/ End(p) \/ CallQueue(p)
    <3>1. UNCHANGED history /\ ~Storing(p) /\ ~Telling(p)
      BY <2>3, PlaceTypes DEF Decide, End, CallQueue, Read, queueVars
    <3> HIDE DEF Storing, Telling
    <3> QED
      BY <1>4, <1>u, <1>r, <3>1
  <2>4. CASE Take(p) \/ CheckEnds(p) \/ WorkEnds(p)
    <3>1. ~Storing(p) /\ ~Telling(p)
      BY <2>4 DEF Take, Start, CheckEnds, WorkEnds, queueVars
    <3>2. a \in history'.approved => a \in history.approved
      BY <1>1, <2>4 DEF Take, Start, CheckEnds, WorkEnds, NoteFinished, Note, NoHistory
    <3> HIDE DEF Storing, Telling
    <3> QED
      BY <1>4, <1>u, <1>r, <3>1, <3>2
  <2>5. CASE CallReturns(p)
    <3>1. /\ pc[p] \in DOMAIN Asks /\ call[p] \in Calls /\ cur[p] \in Actions
          /\ call[p].act = cur[p] /\ call[p].next = Asks[pc[p]]
      BY <1>1, <2>5, PlaceTypes DEF CallReturns, Return, Write, Busy, CallInv, PlaceInv,
         TypeOK, QueueTypeOK
    <3>2. ~Storing(p) /\ ~Telling(p)
      BY <3>1, PlaceTypes
    <3>3. ASSUME a \in history'.approved, a \notin history.approved PROVE Storing(p)'
      <4>1. pc[p] = "approving" /\ cur[p] = a
        BY <1>1, <2>5, <3>3 DEF CallReturns, Note, NoHistory
      <4>2. pc'[p] = "recording" /\ cur'[p] = a /\ decisions'[p] = decisions[p]
        BY <1>1, <2>5, <4>1 DEF CallReturns, AfterReturn
      <4> QED
        BY <4>1, <4>2 DEF ReviewInv, Approval
    <3> HIDE DEF Storing, Telling
    <3> QED
      BY <1>4, <1>u, <1>r, <3>2, <3>3
  <2>6. CASE CallThrows(p)
    <3>1. history'.approved = history.approved /\ pc[p] \in DOMAIN Asks
      BY <1>1, <2>6 DEF CallThrows, Throw, CallInv, NoHistory
    <3>2. ~Storing(p) /\ ~Telling(p)
      BY <3>1, PlaceTypes
    <3> HIDE DEF Storing, Telling
    <3> QED
      BY <1>4, <1>u, <1>r, <3>1, <3>2
  <2>7. CASE WriteLedger(p) \/ Conclude(p) \/ \E b \in Actions : PlanSeed(p, b)
    <3>1. ~Storing(p) /\ ~Telling(p)
      BY <2>7 DEF WriteLedger, Conclude, PlanSeed
    <3>2. history'.approved = history.approved
      <4>1. CASE WriteLedger(p) \/ Conclude(p)
        BY <1>1, <4>1 DEF WriteLedger, Conclude, TypeOK, NoHistory
      <4>2. ASSUME NEW b \in Actions, PlanSeed(p, b) PROVE history'.approved = history.approved
        BY <1>1, <4>2, SeedPast
      <4> QED
        BY <2>7, <4>1, <4>2
    <3> HIDE DEF Storing, Telling
    <3> QED
      BY <1>4, <1>u, <1>r, <3>1, <3>2
  <2> QED
    BY <1>6, <2>1, <2>2, <2>3, <2>4, <2>5, <2>6, <2>7 DEF Step
<1>7. CASE DatabaseError(p) \/ Crash(p)
  <2>1. /\ history'.approved = history.approved
        /\ Storing(p) \/ Telling(p) => a \in history'.faulted
    BY <1>1, <1>7, FaultFrame, NoActionAssumption
  <2> HIDE DEF Storing, Telling
  <2> QED
    BY <1>4, <1>u, <1>r, <2>1
<1> QED
  BY <1>5, <1>6, <1>7

\* An action that stays spared by races and faults has at most one process at
\* it, so that its row changes only under the hands of the one that has read it.
LEMMA StoryStep ==
  ASSUME IndInv, TypeOK', NEW p \in Procs, ReviewInv(p), RaceInv,
         Command(p) \/ Step(p) \/ DatabaseError(p) \/ Crash(p), NoteRaces,
         NEW a \in Actions, StoryInv(a)
  PROVE  StoryInv(a)'
<1> DEFINE completed == [act |-> a, status |-> "completed"]
           failed == [act |-> a, status |-> "failed"]
           Marking(q) == pc[q] = "marking" /\ cur[q] = a
<1> SUFFICES ASSUME a \notin raced' \cup history'.faulted PROVE StoryInv(a)'
  BY DEF StoryInv
<1>1. /\ TypeOK /\ CallInv(p) /\ PlaceInv(p) /\ a # NoAction
      /\ pc \in [Procs -> Places] /\ cur \in [Procs -> Actions \cup {NoAction}]
      /\ row \in [Actions -> Statuses \cup {"absent"}] /\ call \in [Procs -> Calls \cup {NoCall}]
  BY DEF IndInv, TypeOK, QueueTypeOK
<1>2. Others(p) /\ Grows
  BY <1>1, CommandFrame, StepFrame, FaultFrame
<1>3. a \notin raced \cup history.faulted
  BY <1>2 DEF Grows, PastGrows
<1>h. /\ \A q \in Procs \ {p} : InHand(q)' = InHand(q)
      /\ a \in InHand(p)' => \/ a \in InHand(p) /\ ~At(p, "concluding")
                             \/ CallReturns(p) /\ At(p, "settling") /\ cur[p] = a
  BY <1>1, HandStep
<1>4. /\ \A q \in Procs : (cur[q] = a => AtIt(q, a)) /\ Held(q, a)
      /\ completed \in events => row[a] = "executed"
      /\ failed \in events => row[a] = "failed"
      /\ a \in history.finished \ history.direct => row[a] = "executed" \/ \E q \in Procs : Marking(q)
      /\ a \in history.again => a \in history.direct
  BY <1>3 DEF StoryInv, At
\* Nobody else is at it when p is, before or after the step.
<1>5. \A q \in Procs \ {p} : cur[q] = a => cur[p] # a /\ cur'[p] # a
  <2>1. RaceInv'
    BY RaceStep
  <2> QED
    BY <1>1, <1>2, <1>3, <2>1 DEF Others, RaceInv
\* What the step of p has to show for.
<1>6. ASSUME row'[a] = row[a] \/ (cur[p] = a /\ row[a] \in {"pending", "approved"}),
             cur'[p] = a => AtIt(p, a)',
             completed \in events' => row'[a] = "executed",
             failed \in events' => row'[a] = "failed",
             a \in history'.finished \ history'.direct =>
                \/ a \in history.finished \ history.direct /\ ~Marking(p)
                \/ row'[a] = "executed" \/ Marking(p)',
             a \in history'.again => a \in history.again \/ a \in history'.direct,
             Held(p, a)',
             a \in history'.finished /\ a \notin history.finished =>
                row[a] = "approved" \/ a \in history'.direct \/ a \in InHand(p)
      PROVE  StoryInv(a)'
  <2>1. ASSUME NEW q \in Procs, cur'[q] = a PROVE AtIt(q, a)'
    <3>1. CASE q = p
      BY <1>6, <2>1, <3>1
    <3>2. CASE q # p
      <4>1. cur[q] = a /\ AtIt(q, a) /\ row'[a] = row[a]
        BY <1>2, <1>4, <1>5, <1>6, <2>1, <3>2 DEF Others
      <4> QED
        BY <1>2, <3>2, <4>1 DEF Others, AtIt, Busy, At
    <3> QED
      BY <3>1, <3>2
  <2>2. ASSUME a \in history'.finished \ history'.direct, row'[a] # "executed"
        PROVE  \E q \in Procs : Marking(q)'
    <3>1. CASE Marking(p)'
      BY <3>1
    <3>2. CASE a \in history.finished \ history.direct /\ ~Marking(p)
      <4>1. row[a] # "executed"
        BY <1>6, <2>2
      <4>2. PICK q \in Procs \ {p} : Marking(q)
        BY <1>4, <3>2, <4>1
      <4> QED
        BY <1>2, <4>2 DEF Others
    <3> QED
      BY <1>6, <2>2, <3>1, <3>2
  <2>3. a \in history'.again => a \in history'.direct
    BY <1>2, <1>4, <1>6 DEF Grows, PastGrows
  <2>4. ASSUME NEW q \in Procs PROVE Held(q, a)'
    <3>1. CASE a \in InHand(q)' /\ q # p
      <4>1. a \in InHand(q) /\ row[a] = "executed" /\ a \notin InHand(p)
        BY <1>h, <1>4, <3>1 DEF Held
      <4>2. a \notin InHand(p)'
        <5>1. CallReturns(p) /\ At(p, "settling") /\ cur[p] = a => row[a] = "approved"
          BY <1>4 DEF AtIt, At
        <5> QED
          BY <1>h, <4>1, <5>1
      <4>3. pc'[q] = pc[q] /\ row'[a] = "executed"
        BY <1>2, <1>6, <3>1, <4>1 DEF Others
      <4>4. a \in history'.finished /\ pc[q] # "concluding" => a \in history'.direct
        BY <1>2, <1>4, <1>6, <4>1 DEF Held, Grows, PastGrows, At
      <4>5. \A r \in Procs : a \in InHand(r)' => r = q
        BY <1>h, <1>4, <4>1, <4>2 DEF Held
      <4> QED
        BY <4>3, <4>4, <4>5 DEF Held, At
    <3>2. CASE q = p
      BY <1>6, <3>2 DEF Held
    <3>3. CASE a \notin InHand(q)'
      BY <3>3 DEF Held
    <3> QED
      BY <3>1, <3>2, <3>3
  <2> QED
    BY <1>6, <2>1, <2>2, <2>3, <2>4 DEF StoryInv, At
\* A step of p that finishes and settles nothing.
<1>i. ASSUME row'[a] = row[a], history'.finished = history.finished,
             ~(CallReturns(p) /\ At(p, "settling") /\ cur[p] = a)
      PROVE  Held(p, a)'
  <2> SUFFICES ASSUME a \in InHand(p)' PROVE Held(p, a)'
    BY DEF Held
  <2>1. a \in InHand(p) /\ ~At(p, "concluding")
    BY <1>h, <1>i
  <2>2. \A q \in Procs : a \in InHand(q)' => q = p
    BY <1>h, <1>4, <2>1 DEF Held
  <2>3. row[a] = "executed" /\ (a \in history.finished => a \in history.direct)
    BY <1>4, <2>1 DEF Held
  <2> QED
    BY <1>2, <1>i, <2>2, <2>3 DEF Held, Grows, PastGrows
\* A row that is queued.
<1>n. ASSUME NEW b \in Actions, NEW s \in Statuses, NEW r \in BOOLEAN, Insert(b, s, r),
             \/ UNCHANGED <<pc, cur>>
             \/ pc'[p] \in {"working", "settling"} /\ cur'[p] = b /\ s = "approved"
             \/ pc'[p] = "direct" /\ cur'[p] = b
             \/ pc'[p] = "idle" /\ cur'[p] = NoAction,
             ~Busy(p), ~Busy(p)', pc[p] \in {"idle", "researching"}, ~CallReturns(p),
             UNCHANGED <<call, events>>,
             history'.finished = history.finished, history'.again = history.again
      PROVE  StoryInv(a)'
  <2> USE DEF At
  <2>1. row[b] = "absent" /\ row' = [row EXCEPT ![b] = s]
    BY <1>n DEF Insert
  <2>2. CASE b # a
    <3>1. row'[a] = row[a]
      BY <2>1, <2>2
    <3>2. cur'[p] = a => AtIt(p, a)'
      BY <1>4, <1>n, <2>2, <3>1 DEF AtIt
    <3>3. Held(p, a)'
      BY <1>i, <1>n, <3>1
    <3>4. ~Marking(p) /\ history.direct \subseteq history'.direct
      BY <1>2, <1>n DEF Grows, PastGrows
    <3> HIDE DEF completed, failed, Marking
    <3> QED
      BY <1>4, <1>6, <1>n, <3>1, <3>2, <3>3, <3>4
  \* A row that was absent has no story yet.
  <2>3. CASE b = a
    <3>1. \A q \in Procs : cur[q] = a => ~Busy(q)
      <4> SUFFICES ASSUME NEW q \in Procs, cur[q] = a, Busy(q) PROVE FALSE
        OBVIOUS
      <4>1. CallInv(q)
        BY DEF IndInv
      <4> QED
        BY <2>1, <2>3, <4>1 DEF CallInv
    <3>2. \A q \in Procs : cur[q] = a => pc[q] \notin {"working", "marking", "settling", "completed", "failed"}
      BY <1>4, <2>1, <2>3 DEF AtIt
    <3>3. /\ completed \notin events /\ failed \notin events
          /\ a \notin history.finished \ history.direct
      BY <1>4, <2>1, <2>3, <3>2
    <3>4. ASSUME NEW q \in Procs, cur'[q] = a PROVE AtIt(q, a)'
      <4>1. CASE q = p
        <5>1. row'[a] = s
          BY <1>1, <2>1, <2>3
        <5> QED
          BY <1>n, <2>3, <3>4, <4>1, <5>1 DEF AtIt
      <4>2. CASE q # p
        BY <1>2, <3>1, <3>2, <3>4, <4>2 DEF Others, AtIt, Busy
      <4> QED
        BY <4>1, <4>2
    <3>5. a \in history'.again => a \in history'.direct
      BY <1>2, <1>4, <1>n DEF Grows, PastGrows
    <3>6. completed \notin events' /\ failed \notin events' /\ a \notin history'.finished \ history'.direct
      BY <1>2, <1>n, <3>3 DEF Grows, PastGrows
    <3>7. ASSUME NEW q \in Procs PROVE Held(q, a)'
      <4>1. a \notin InHand(q)
        BY <1>4, <2>1, <2>3 DEF Held
      <4>2. a \notin InHand(q)'
        BY <1>h, <1>n, <4>1
      <4> QED
        BY <4>2 DEF Held
    <3> QED
      BY <3>4, <3>5, <3>6, <3>7 DEF StoryInv
  <2> QED
    BY <2>2, <2>3
<1>7. CASE Command(p)
  <2> USE DEF Leave, Go, At
  <2>1. UNCHANGED <<call, events>> /\ ~Marking(p) /\ pc[p] = "idle" /\ ~Busy(p)
    BY <1>1, <1>7, CommandFrame, PlaceTypes DEF CallInv
  <2>2. /\ history'.finished = history.finished /\ history'.again = history.again
        /\ history.direct \subseteq history'.direct
    <3>1. \/ UNCHANGED history
          \/ \E b \in Actions : Note({"refused"}, b) \/ Note({"started"}, b) \/ Note({"started", "direct"}, b)
      BY <1>7 DEF Command, Review, RunApproved, RunResearch, DecideOne, ExecuteOne, PlanBlocked,
         PlanPending, PlanOnly, PlanAndRun, PlanAndCheck, Start
    <3> QED
      BY <1>1, <1>2, <3>1 DEF Grows, PastGrows, Note, NoHistory
  <2>3. ~Busy(p)'
    BY <2>1 DEF Busy
  <2>s. ~CallReturns(p)
    BY <2>1 DEF CallReturns, Return, Write
  <2>4. CASE \/ Review(p) \/ RunApproved(p) \/ RunResearch(p)
             \/ \E b \in Actions : DecideOne(p, b) \/ ExecuteOne(p, b)
    <3>1. row' = row /\ cur'[p] = NoAction
      BY <1>1, <2>4 DEF Review, RunApproved, RunResearch, DecideOne, ExecuteOne, queueVars
    <3>2. Held(p, a)'
      BY <1>i, <2>2, <2>s, <3>1
    <3> HIDE DEF completed, failed, Marking
    <3> QED
      BY <1>1, <1>4, <1>6, <2>1, <2>2, <3>1, <3>2
  <2>6. ASSUME NEW b \in Actions,
               \/ PlanBlocked(p, b) \/ PlanPending(p, b) \/ PlanOnly(p, b)
               \/ PlanAndRun(p, b) \/ PlanAndCheck(p, b)
        PROVE  StoryInv(a)'
    <3>1. PICK s \in Statuses, r \in BOOLEAN :
             /\ Insert(b, s, r)
             /\ \/ UNCHANGED <<pc, cur>>
                \/ pc'[p] = "working" /\ cur'[p] = b /\ s = "approved"
                \/ pc'[p] = "direct" /\ cur'[p] = b
      BY <1>1, <2>6 DEF PlanBlocked, PlanPending, PlanOnly, PlanAndRun, PlanAndCheck,
         EnqueueBlocked, Enqueue, InitialStatus, Start, Statuses
    <3> QED
      BY <1>n, <2>1, <2>2, <2>3, <2>s, <3>1
  <2> QED
    BY <1>7, <2>4, <2>6 DEF Command
<1>8. CASE Step(p)
  <2> USE DEF Leave, Go, At
  <2>1. CASE Decide(p) \/ Record(p) \/ End(p)
    <3>1. /\ UNCHANGED <<row, history, events, call>> /\ ~Marking(p) /\ ~Busy(p)
          /\ pc'[p] \in {"approving", "blocking", "reviewing", "idle"}
      BY <1>1, <2>1, PlaceTypes DEF Decide, Record, End, queueVars, CallInv
    <3>2. AtIt(p, a)'
      BY <3>1 DEF AtIt, Busy
    <3>3. Held(p, a)'
      BY <1>i, <3>1 DEF CallReturns, Return, Write
    <3> HIDE DEF completed, failed, Marking
    <3> QED
      BY <1>4, <1>6, <3>1, <3>2, <3>3
  <2>2. CASE Log(p)
    <3>h. Held(p, a)'
      BY <1>i, <2>2 DEF Log, queueVars
    <3>1. /\ UNCHANGED <<row, history, call>> /\ ~Marking(p) /\ cur'[p] = NoAction
          /\ events' = events \cup {[act |-> cur[p], status |-> pc[p]]}
      BY <1>1, <2>2, PlaceTypes DEF Log, queueVars
    <3>2. completed \in events' => row[a] = "executed"
      <4> SUFFICES ASSUME completed = [act |-> cur[p], status |-> pc[p]] PROVE row[a] = "executed"
        BY <1>4, <3>1
      <4>1. cur[p] = a /\ pc[p] = "completed"
        OBVIOUS
      <4> QED
        BY <1>4, <4>1 DEF AtIt
    <3>3. failed \in events' => row[a] = "failed"
      <4> SUFFICES ASSUME failed = [act |-> cur[p], status |-> pc[p]] PROVE row[a] = "failed"
        BY <1>4, <3>1
      <4>1. cur[p] = a /\ pc[p] = "failed"
        OBVIOUS
      <4> QED
        BY <1>4, <4>1 DEF AtIt
    <3> HIDE DEF completed, failed, Marking
    <3> QED
      BY <1>1, <1>4, <1>6, <3>h, <3>1, <3>2, <3>3
  <2>3. CASE Take(p)
    <3>1. /\ UNCHANGED <<row, events, call>> /\ ~Marking(p) /\ ~Busy(p)
          /\ history'.finished = history.finished /\ history'.again = history.again
          /\ history'.direct = history.direct
      BY <1>1, <2>3, PlaceTypes DEF Take, Start, Note, NoHistory, queueVars, CallInv
    <3>2. /\ pc'[p] \in {"running", "dropping", "refusing", "working"}
          /\ pc'[p] = "working" => row[cur'[p]] = "approved"
      BY <1>1, <2>3 DEF Take, Start
    <3>3. cur'[p] = a => AtIt(p, a)'
      BY <3>1, <3>2 DEF AtIt, Busy
    <3>4. Held(p, a)'
      BY <1>i, <3>1 DEF CallReturns, Return, Write
    <3> HIDE DEF completed, failed, Marking
    <3> QED
      BY <1>4, <1>6, <3>1, <3>3, <3>4
  \* Work that ends well is noted a second time only after a race or a fault.
  <2>4. CASE WorkEnds(p)
    <3>1. /\ UNCHANGED <<row, events, call>> /\ pc[p] = "working" /\ cur'[p] = cur[p]
          /\ pc'[p] \in {"marking", "failing"} /\ ~Busy(p)
      BY <1>1, <2>4, PlaceTypes DEF WorkEnds, queueVars, CallInv
    <3>2. cur'[p] = a => AtIt(p, a)'
      <4> SUFFICES ASSUME cur[p] = a PROVE AtIt(p, a)'
        BY <3>1
      <4>1. row[a] = "approved"
        BY <1>4, <3>1 DEF AtIt
      <4> QED
        BY <3>1, <4>1 DEF AtIt, Busy
    <3>3. history'.direct = history.direct
      BY <1>1, <2>4 DEF WorkEnds, NoteFinished, Note, NoHistory
    <3>4. a \in history'.finished => a \in history.finished \/ Marking(p)'
      BY <1>1, <2>4 DEF WorkEnds, NoteFinished, Note, NoHistory
    <3>5. ASSUME a \in history'.again, a \notin history.again PROVE a \in history.direct
      <4>1. cur[p] = a /\ a \in history.finished
        BY <1>1, <2>4, <3>5 DEF WorkEnds, NoteFinished, Note, NoHistory
      <4>2. row[a] = "approved"
        BY <1>4, <3>1, <4>1 DEF AtIt
      <4>3. \A q \in Procs : ~Marking(q)
        BY <1>5, <3>1, <4>1
      <4> QED
        BY <1>4, <4>1, <4>2, <4>3
    <3>6. ~Marking(p)
      BY <3>1
    <3>7. Held(p, a)'
      BY <3>1 DEF Held, InHand, Research
    <3>8. a \in history'.finished /\ a \notin history.finished => row[a] = "approved"
      <4>1. a \in history'.finished /\ a \notin history.finished => cur[p] = a
        BY <1>1, <2>4 DEF WorkEnds, NoteFinished, Note, NoHistory
      <4> QED
        BY <1>4, <3>1, <4>1 DEF AtIt
    <3> HIDE DEF completed, failed, Marking
    <3> QED
      BY <1>4, <1>6, <3>1, <3>2, <3>3, <3>4, <3>5, <3>6, <3>7, <3>8
  <2>5. CASE CheckEnds(p)
    <3>1. /\ UNCHANGED <<row, events, call>> /\ pc[p] = "direct" /\ cur'[p] = NoAction
          /\ cur[p] \in history.direct /\ ~Marking(p)
      BY <1>1, <2>5 DEF CheckEnds, queueVars, ReviewInv
    <3>2. history'.direct = history.direct
      BY <1>1, <2>5 DEF CheckEnds, NoteFinished, Note, NoHistory
    <3>3. /\ a \in history'.finished \ history.direct => a \in history.finished
          /\ a \in history'.again => a \in history.again \/ a \in history.direct
          /\ a \in history'.finished => a \in history.finished \/ a \in history.direct
      BY <1>1, <2>5, <3>1 DEF CheckEnds, NoteFinished, Note, NoHistory
    <3>4. Held(p, a)'
      BY <1>1, <2>5 DEF CheckEnds, Held, InHand, Research
    <3> HIDE DEF completed, failed, Marking
    <3> QED
      BY <1>1, <1>4, <1>6, <3>1, <3>2, <3>3, <3>4
  <2>6. CASE CallQueue(p)
    <3>1. /\ UNCHANGED <<row, history, events, pc, cur>>
          /\ call'[p] = [act |-> cur[p], next |-> Asks[pc[p]], seen |-> row[cur[p]]]
      BY <1>1, <2>6 DEF CallQueue, Read
    <3>2. cur'[p] = a => AtIt(p, a)'
      BY <1>4, <3>1 DEF AtIt
    <3>3. Marking(p)' <=> Marking(p)
      BY <3>1
    <3>4. ~CallReturns(p)
      BY <2>6 DEF CallQueue, Read, CallReturns, Return, Write
    <3>5. Held(p, a)'
      BY <1>i, <3>1, <3>4
    <3> HIDE DEF completed, failed, Marking
    <3> QED
      BY <1>4, <1>6, <3>1, <3>2, <3>3, <3>5
  \* The row is as the call has read it.
  <2>7. CASE CallReturns(p)
    <3>1. /\ Busy(p) /\ pc[p] \in DOMAIN Asks /\ call[p] \in Calls /\ cur[p] \in Actions
          /\ call[p].act = cur[p] /\ call[p].next = Asks[pc[p]]
          /\ UNCHANGED events /\ pc'[p] = AfterReturn[pc[p]] /\ ~Busy(p)'
      BY <1>1, <2>7, PlaceTypes DEF CallReturns, Return, Write, Done, Busy, CallInv, PlaceInv
    <3>2. /\ history'.finished = history.finished /\ history'.again = history.again
          /\ history'.direct = history.direct
      BY <1>1, <2>7 DEF CallReturns, Note, NoHistory
    <3>3. CASE cur[p] # a
      <4>1. row'[a] = row[a] /\ cur'[p] # a
        BY <1>1, <2>7, <3>1, <3>3 DEF CallReturns, Return, Write
      <4>2. ~Marking(p)
        BY <3>3
      <4>3. Held(p, a)'
        BY <1>i, <3>2, <3>3, <4>1
      <4> HIDE DEF completed, failed, Marking
      <4> QED
        BY <1>4, <1>6, <3>1, <3>2, <4>1, <4>2, <4>3
    <3>4. CASE cur[p] = a
      <4>1. call[p].seen = row[a] /\ (pc[p] \in {"marking", "settling"} => row[a] = "approved")
        BY <1>4, <3>1, <3>4 DEF AtIt
      <4>2. row'[a] = Asks[pc[p]] /\ (row'[a] = row[a] \/ row[a] \in {"pending", "approved"})
        BY <1>1, <2>7, <3>1, <3>4, <4>1 DEF CallReturns, Return, Write, TransitionAllowed
      <4>3. /\ pc'[p] = "completed" => row'[a] = "executed"
            /\ pc'[p] = "failed" => row'[a] = "failed"
            /\ pc'[p] \notin {"working", "marking", "settling"}
        BY <3>1, <4>2, PlaceTypes DEF AfterReturn, Asks
      <4>4. AtIt(p, a)'
        BY <3>1, <4>3 DEF AtIt
      <4>5. Marking(p) => row'[a] = "executed"
        BY <4>2 DEF Asks
      <4>6. /\ completed \in events' => row'[a] = "executed"
            /\ failed \in events' => row'[a] = "failed"
        BY <1>4, <3>1, <4>2
      \* What the research phase settles, nobody has in hand or has done.
      <4>7. Held(p, a)'
        <5> SUFFICES ASSUME a \in InHand(p)' PROVE Held(p, a)'
          BY DEF Held
        <5>1. pc[p] = "settling"
          <6>1. CASE pc[p] \in Research
            BY <3>1, <6>1, PlaceTypes DEF Research
          <6>2. CASE pc[p] \notin Research
            BY <1>h, <6>2 DEF InHand
          <6> QED
            BY <6>1, <6>2
        <5>2. row[a] = "approved" /\ row'[a] = "executed"
          BY <4>1, <4>2, <5>1 DEF Asks
        <5>3. \A q \in Procs : a \in InHand(q)' => q = p
          BY <1>h, <1>4, <5>2 DEF Held
        <5>4. a \in history.finished => a \in history.direct
          <6>1. \A q \in Procs : ~Marking(q)
            BY <1>5, <3>4, <5>1
          <6> QED
            BY <1>4, <5>2, <6>1
        <5> QED
          BY <3>2, <5>2, <5>3, <5>4 DEF Held
      <4> HIDE DEF completed, failed, Marking
      <4> QED
        BY <1>6, <3>2, <3>4, <4>2, <4>4, <4>5, <4>6, <4>7
    <3> QED
      BY <3>3, <3>4
  <2>8. CASE CallThrows(p)
    <3>1. /\ Busy(p) /\ pc[p] \in DOMAIN Asks /\ call[p] \in Calls
          /\ call[p].next = Asks[pc[p]] /\ UNCHANGED <<row, events>> /\ ~Busy(p)'
          /\ pc'[p] = AfterThrow[pc[p]]
          /\ ~TransitionAllowed(call[p].seen, call[p].next)
      BY <1>1, <2>8, PlaceTypes DEF CallThrows, Throw, Done, Unwind, Busy, CallInv
    <3>h. /\ history'.finished = history.finished /\ history'.again = history.again
          /\ history'.direct = history.direct
      BY <2>8 DEF CallThrows, NoHistory
    <3>2. ~Marking(p)
      <4> SUFFICES ASSUME Marking(p) PROVE FALSE
        OBVIOUS
      <4>1. call[p].seen = "approved"
        BY <1>4, <3>1 DEF AtIt
      <4>2. call[p].next = "executed"
        BY <3>1 DEF Asks
      <4> QED
        BY <3>1, <4>1, <4>2 DEF TransitionAllowed
    <3>3. pc'[p] \in {"idle", "running", "failing"}
      BY <3>1, PlaceTypes DEF AfterThrow
    <3>4. AtIt(p, a)'
      BY <3>1, <3>3 DEF AtIt
    <3>5. Held(p, a)'
      BY <3>3 DEF Held, InHand, Research
    <3> HIDE DEF completed, failed, Marking
    <3> QED
      BY <1>4, <1>6, <3>h, <3>1, <3>2, <3>4, <3>5
  \* The research phase.
  <2>9. ASSUME NEW b \in Actions, PlanSeed(p, b) PROVE StoryInv(a)'
    <3>1. /\ pc[p] = "researching" /\ ~Busy(p) /\ ~Busy(p)' /\ ~CallReturns(p)
          /\ UNCHANGED <<call, events>>
      BY <1>1, <2>9, PlaceTypes DEF PlanSeed, CallInv, CallReturns, Return, Write, Busy
    <3>2. history'.finished = history.finished /\ history'.again = history.again
      BY <1>1, <2>9, SeedPast
    <3>3. PICK s \in Statuses, r \in BOOLEAN :
             /\ Insert(b, s, r)
             /\ \/ UNCHANGED <<pc, cur>>
                \/ pc'[p] = "settling" /\ cur'[p] = b /\ s = "approved"
                \/ pc'[p] = "idle" /\ cur'[p] = NoAction
      BY <1>1, <2>9 DEF PlanSeed, EnqueueBlocked, Enqueue, InitialStatus, Statuses
    <3> QED
      BY <1>n, <3>1, <3>2, <3>3
  <2>10. CASE WriteLedger(p)
    <3>1. /\ UNCHANGED <<row, events, call>> /\ pc[p] = "researching" /\ cur'[p] = NoAction
          /\ pc'[p] = "concluding" /\ InHand(p) = todo[p] /\ InHand(p)' = todo[p]
      BY <1>1, <2>10 DEF WriteLedger, InHand, Research, TypeOK, queueVars
    <3>2. /\ history'.finished = history.finished \cup todo[p]
          /\ history'.again = history.again \cup (todo[p] \cap history.finished)
          /\ history'.direct = history.direct
      BY <1>1, <2>10 DEF WriteLedger, TypeOK, NoHistory
    <3>3. Held(p, a)'
      <4> SUFFICES ASSUME a \in InHand(p)' PROVE Held(p, a)'
        BY DEF Held
      <4>1. row'[a] = "executed" /\ \A q \in Procs : a \in InHand(q)' => q = p
        BY <1>h, <1>4, <3>1 DEF Held
      <4> QED
        BY <3>1, <4>1 DEF Held
    <3>4. a \in todo[p] => row[a] = "executed" /\ (a \in history.finished => a \in history.direct)
      BY <1>4, <3>1 DEF Held
    <3>5. ~Marking(p)
      BY <3>1
    <3> HIDE DEF completed, failed, Marking
    <3> QED
      BY <1>1, <1>4, <1>6, <3>1, <3>2, <3>3, <3>4, <3>5
  <2>11. CASE Conclude(p)
    <3>1. /\ UNCHANGED <<row, history, call>> /\ pc[p] = "concluding" /\ cur'[p] = NoAction
          /\ InHand(p) = todo[p]
          /\ events' = events \cup [act : todo[p], status : {"completed"}]
      BY <1>1, <2>11 DEF Conclude, InHand, Research, queueVars
    <3>2. Held(p, a)'
      BY <1>i, <2>11, <3>1 DEF Conclude
    <3>3. completed \in events' => row[a] = "executed"
      BY <1>4, <3>1 DEF Held
    <3>4. failed \in events' => row[a] = "failed"
      BY <1>4, <3>1
    <3>5. ~Marking(p)
      BY <3>1
    <3> HIDE DEF completed, failed, Marking
    <3> QED
      BY <1>1, <1>4, <1>6, <3>1, <3>2, <3>3, <3>4, <3>5
  <2> QED
    BY <1>8, <2>1, <2>2, <2>3, <2>4, <2>5, <2>6, <2>7, <2>8, <2>9, <2>10, <2>11 DEF Step
<1>9. CASE DatabaseError(p) \/ Crash(p)
  <2>1. /\ cur[p] # a /\ cur'[p] # a /\ UNCHANGED <<row, events>>
        /\ history'.finished = history.finished /\ history'.again = history.again
        /\ history'.direct = history.direct
    BY <1>1, <1>9, FaultFrame
  <2>2. ~Marking(p)
    BY <2>1
  <2>3. Held(p, a)'
    BY <1>i, <2>1
  <2> HIDE DEF completed, failed, Marking
  <2> QED
    BY <1>4, <1>6, <2>1, <2>2, <2>3
<1> QED
  BY <1>7, <1>8, <1>9

-----------------------------------------------------------------------------
LEMMA StoryHolds == Spec => []Story
<1>1. Init => Story
  BY DEF Init, QueueInit, Story, RaceInv, ReviewInv, DoneInv, TrueInv, RecordInv, StoryInv,
     AtIt, Held, InHand, At, Busy, NoCall, NoHistory
<1>2. IndInv /\ IndInv' /\ Story /\ [Next]_vars => Story'
  <2> SUFFICES ASSUME IndInv, IndInv', Story, [Next]_vars PROVE Story'
    OBVIOUS
  <2>1. CASE Next
    <3>1. PICK p \in Procs : Command(p) \/ Step(p) \/ DatabaseError(p) \/ Crash(p)
      BY <2>1 DEF Next
    <3>2. NoteRaces
      BY <2>1 DEF Next
    <3>3. /\ TypeOK /\ TypeOK' /\ CallInv(p) /\ RaceInv
          /\ \A q \in Procs : ReviewInv(q) /\ DoneInv(q)
      BY DEF IndInv, Story
    <3>4. RaceInv'
      BY <3>2, <3>3, RaceStep
    <3>5. \A q \in Procs : ReviewInv(q)' /\ DoneInv(q)'
      BY <3>1, <3>2, <3>3, ReviewStep, DoneStep
    <3>6. ASSUME NEW a \in Actions PROVE TrueInv(a)' /\ RecordInv(a)' /\ StoryInv(a)'
      BY <3>1, <3>2, <3>3, TrueStep, RecordStep, StoryStep DEF Story
    <3> QED
      BY <3>4, <3>5, <3>6 DEF Story
  <2>2. CASE UNCHANGED vars
    BY <2>2 DEF vars, Story, RaceInv, ReviewInv, DoneInv, TrueInv, RecordInv, StoryInv, AtIt,
       Held, InHand, Unfinished, At, Busy, Approval
  <2> QED
    BY <2>1, <2>2
<1> QED
  BY <1>1, <1>2, Invariance, PTL DEF Spec

(***************************************************************************)
(* An executed row means finished work, in spite of the stale writes of    *)
(* markExecuted; only a research phase says so before it has written its   *)
(* ledger, and for good when it is cut off (runResearchSkill).             *)
(***************************************************************************)
THEOREM ExecutedIsTrue == Spec => []ExecutedWasFinished
<1>1. Story => ExecutedWasFinished
  BY DEF Story, TrueInv, ExecutedWasFinished
<1> QED
  BY <1>1, StoryHolds, PTL

(***************************************************************************)
(* What a person decided and what was executed is explained by the review  *)
(* history and the timeline, but for what a fault kept from being stored   *)
(* (recordActionReview, recordActionEvent).                                *)
(***************************************************************************)
THEOREM HistoryExplains == Spec => []OnRecord
<1>1. TypeOK /\ Story => OnRecord
  <2> SUFFICES ASSUME TypeOK, Story PROVE OnRecord
    OBVIOUS
  <2>1. history.approved \subseteq Actions /\ \A a \in Actions : RecordInv(a)
    BY DEF Story, TypeOK, NoHistory
  <2>2. ApprovalIsOnRecord
    BY <2>1 DEF RecordInv, Approval, ApprovalIsOnRecord
  <2>3. ExecutionIsOnRecord
    BY <2>1 DEF RecordInv, ExecutionIsOnRecord
  <2> QED
    BY <2>2, <2>3 DEF OnRecord
<1> QED
  BY <1>1, StoryHolds, TypeCorrect, PTL

(***************************************************************************)
(* The status check of execute stands in for a claim of the row: without a *)
(* race, a fault or a direct command the work is done once, and the        *)
(* timeline tells one story of it.                                         *)
(***************************************************************************)
THEOREM DoneOnce == Spec => []OnceAndForAll
<1>1. TypeOK /\ Story => OnceAndForAll
  <2> SUFFICES ASSUME TypeOK, Story PROVE OnceAndForAll
    OBVIOUS
  <2>1. RepeatedOnlyInARace
    BY DEF Story, StoryInv, RepeatedOnlyInARace, TypeOK, NoHistory
  <2>2. OneOutcome
    BY DEF Story, StoryInv, OneOutcome
  <2> QED
    BY <2>1, <2>2 DEF OnceAndForAll
<1> QED
  BY <1>1, StoryHolds, TypeCorrect, PTL

-----------------------------------------------------------------------------
\* A single process has read every row it is about to write as it still is.
Current(p) == Busy(p) => /\ row[call[p].act] # "absent"
                         /\ call[p].seen = row[call[p].act]

QueueInv == QueueTypeOK /\ \A p \in Procs : Current(p)

LEMMA QueueKeeps ==
  ASSUME \A p, q \in Procs : p = q, QueueInv, [QueueNext]_queueVars
  PROVE  QueueInv' /\ [Lifecycle!Next]_row
<1> USE DEF QueueTypeOK
<1>1. CASE UNCHANGED queueVars
  BY <1>1 DEF queueVars, QueueInv, Current, Busy
<1>2. ASSUME NEW a \in Actions, NEW s \in {"pending", "approved", "blocked"}, NEW r \in BOOLEAN,
             Insert(a, s, r), UNCHANGED call
      PROVE  QueueInv' /\ [Lifecycle!Next]_row
  <2>1. QueueTypeOK'
    BY <1>2 DEF Insert, QueueInv, Statuses
  <2>2. ASSUME NEW p \in Procs PROVE Current(p)'
    <3>1. Busy(p) => call[p].act \in Actions
      BY DEF Busy, QueueInv, Calls
    <3> QED
      BY <1>2, <3>1 DEF Insert, QueueInv, Current, Busy
  <2>3. Lifecycle!Enter(a)
    BY <1>2 DEF Insert, Lifecycle!Enter, Lifecycle!Move
  <2> QED
    BY <2>1, <2>2, <2>3 DEF QueueInv, Lifecycle!Next
<1>3. ASSUME NEW p \in Procs, NEW a \in Actions, NEW s \in Targets, Read(p, a, s),
             UNCHANGED <<row, needsApproval>>
      PROVE  QueueInv' /\ [Lifecycle!Next]_row
  <2>1. QueueTypeOK'
    BY <1>3 DEF Read, QueueInv, Calls
  <2> QED
    BY <1>3, <2>1 DEF Read, QueueInv, Current, Busy
<1>4. ASSUME NEW p \in Procs, Return(p) \/ Throw(p) \/ Abandon(p), UNCHANGED needsApproval
      PROVE  QueueInv' /\ [Lifecycle!Next]_row
  <2>1. UNCHANGED row /\ call' = [call EXCEPT ![p] = NoCall]
    BY <1>4 DEF Return, Throw, Abandon, Done
  <2> QED
    BY <1>4, <2>1 DEF QueueInv, Current, Busy
<1>5. ASSUME NEW p \in Procs, Write(p), UNCHANGED needsApproval
      PROVE  QueueInv' /\ [Lifecycle!Next]_row
  <2> DEFINE a == call[p].act
             s == call[p].next
  <2>1. /\ a \in Actions /\ s \in Targets /\ row' = [row EXCEPT ![a] = s]
        /\ row[a] # s /\ TransitionAllowed(row[a], s)
        /\ call' = [call EXCEPT ![p] = NoCall]
    BY <1>5 DEF Write, Busy, Done, QueueInv, Current, Calls
  <2>2. QueueTypeOK'
    BY <1>5, <2>1 DEF QueueInv, Targets, Statuses
  <2>3. \A q \in Procs : ~Busy(q)'
    BY <2>1 DEF QueueInv, Busy
  <2> HIDE DEF a, s
  <2>4. Lifecycle!Approve(a) \/ Lifecycle!Execute(a) \/ Lifecycle!Refuse(a)
    BY <2>1 DEF TransitionAllowed, Targets, Lifecycle!Approve, Lifecycle!Execute,
       Lifecycle!Refuse, Lifecycle!Move
  <2> QED
    BY <2>1, <2>2, <2>3, <2>4 DEF QueueInv, Current, Lifecycle!Next
<1> QED
  BY <1>1, <1>2, <1>3, <1>4, <1>5
     DEF QueueNext, Enqueue, EnqueueBlocked, InitialStatus

(***************************************************************************)
(* Refinement: as long as one process works on a workspace, the check      *)
(* before the UPDATE is as good as one indivisible step, and every action  *)
(* has one life (markExecuted, approve, block, fail).                      *)
(***************************************************************************)
THEOREM OneLife == ASSUME \A p, q \in Procs : p = q PROVE Spec => LifecycleSpec
<1>1. QueueInit => QueueInv /\ Lifecycle!Init
  BY DEF QueueInit, QueueInv, QueueTypeOK, Current, Busy, NoCall, Statuses, Lifecycle!Init
<1>2. QueueInv /\ [QueueNext]_queueVars => QueueInv' /\ [Lifecycle!Next]_row
  BY QueueKeeps
<1>3. QueueSpec => Lifecycle!Spec
  BY <1>1, <1>2, PTL DEF QueueSpec, Lifecycle!Spec
<1> QED
  BY <1>3, UsesQueue DEF LifecycleSpec
=============================================================================
