----------------------- MODULE ChildProcesses_proof -----------------------
(***************************************************************************)
(* What holds of the programs the system starts, whoever approves what and *)
(* however many run at once.                                               *)
(***************************************************************************)
EXTENDS MCChildProcesses, FiniteSetTheorems, SequenceTheorems, TLAPS

---------------------------------------------------------------------------
(***************************************************************************)
(* Tools and external integrations.                                        *)
(***************************************************************************)
Writes == {"observe", "seekPage", "page", "file", "row", "audit"}

RunStates ==
    [phase : Phases, path : Programs \cup {Nobody}, hash : Contents \cup {Nobody},
     leader : Leaders, holder : BOOLEAN, signalled : BOOLEAN, timer : BOOLEAN,
     force : BOOLEAN, fallback : BOOLEAN, timedOut : BOOLEAN, code : Leaders \ {"up"},
     todo : Seq(Writes), sawPage : BOOLEAN, outcome : Outcomes]

Reviews == [kind : Kinds, path : Programs, hash : Contents, note : BOOLEAN, read : SUBSET Records]

Reviewing == {x \in People : reviewer[x] # Nobody}

RunsTyped == TypeOK /\ run \in [Runs -> RunStates] /\ reviewer \in [People -> Reviews \cup {Nobody}]

\* The approvals given are numbered, and those being given have a number left.
Counted == /\ IsFiniteSet(granted)
           /\ Cardinality(granted) + Cardinality(Reviewing) =< MaxApprovals
           /\ \A a \in granted : a.at =< Cardinality(granted)

\* The file, also as somebody has read it, holds only what was given; and what
\* a person who is alone with it has read is what is there.
ReadsGranted ==
    /\ approvals \subseteq granted
    /\ \A x \in Reviewing : reviewer[x].read \subseteq granted
    /\ ~overlap => \A x \in Reviewing : reviewer[x].read = approvals /\ Reviewing = {x}

NoneLost == \A a \in granted \ approvals :
               overlap \/ \E b \in granted : b.kind = a.kind /\ b.path = a.path /\ b.at > a.at

\* A run of kind k past its checks was refused, or approved.
Passed(k, s) == s.phase # "idle" =>
                   \/ s.outcome = "refused"
                   \/ \E a \in granted : a.kind = k /\ a.path = s.path /\ a.hash = s.hash

\* What the phase, the child and the outcome of a run say of each other.
InOrder(s) ==
    /\ s.phase \in {"idle", "checked"} => s.leader = "none" /\ ~s.fallback
    /\ s.phase \in {"settled", "done"} => s.leader # "up"
    /\ s.phase = "running" /\ s.fallback => s.force \/ s.leader # "up"
    /\ s.code = "zero" => s.leader = "zero"
    /\ s.outcome # "none" => s.phase = "done"
    /\ s.outcome = "completed" => s.code = "zero" /\ ~s.timedOut
    /\ \A i \in 2 .. Len(s.todo) : s.todo[i] = "row" => s.todo[i - 1] = "file"

Row(r) == [run |-> r, file |-> FileOf(r)]

\* The row comes after the file, and a success after the row.
Backed(r, s) ==
    /\ s.phase = "settled" => Row(r) \in rows \/ \E i \in 1 .. Len(s.todo) : s.todo[i] = "row"
    /\ s.outcome = "completed" => Row(r) \in rows
    /\ s.todo # <<>> /\ s.todo[1] = "row" => file[FileOf(r)] # Nobody

RunsWhole == \A r \in Runs : Passed(kind[r], run[r]) /\ InOrder(run[r]) /\ Backed(r, run[r])

\* An audit line is about a run that has settled, and says how.
Tells(l, s) == /\ s.phase \in {"settled", "done", "gone"}
               /\ l.status = "completed" <=> s.code = "zero" /\ ~s.timedOut

\* Every file and every row is that of the run it names.
RecordsTrue == /\ \A f \in DOMAIN file : file[f] # Nobody => FileOf(file[f]) = f
               /\ \A e \in rows : e.file = FileOf(e.run) /\ file[e.file] # Nobody
               /\ \A l \in audit : Tells(l, run[l.run])
               /\ \A o \in observed : o.at = "elsewhere" => o.kind = "sign"

RunsInv == RunsTyped /\ Counted /\ ReadsGranted /\ NoneLost /\ RunsWhole /\ RecordsTrue

---------------------------------------------------------------------------
(* The approvals.                                                          *)

\* Finitely many people are counted.
LEMMA PeopleCount ==
    ASSUME NEW S \in SUBSET People
    PROVE  /\ IsFiniteSet(S) /\ Cardinality(S) \in Nat
           /\ \A x : x \notin S => Cardinality(S \cup {x}) = Cardinality(S) + 1
           /\ \A x \in S : Cardinality(S \ {x}) = Cardinality(S) - 1 /\ Cardinality(S) > 0
<1>1. IsFiniteSet(S) /\ Cardinality(S) \in Nat
  BY PeopleAssumption, FS_Subset, FS_CardinalityType
<1>2. ASSUME NEW x, x \notin S
      PROVE  Cardinality(S \cup {x}) = Cardinality(S) + 1
  BY <1>1, <1>2, FS_AddElement
<1>3. ASSUME NEW x \in S
      PROVE  Cardinality(S \ {x}) = Cardinality(S) - 1 /\ Cardinality(S) > 0
  <2>1. Cardinality(S \ {x}) = Cardinality(S) - 1
    BY <1>1, FS_RemoveElement
  <2>2. IsFiniteSet(S \ {x})
    BY <1>1, FS_Subset
  <2>3. Cardinality(S \ {x}) \in Nat
    BY <2>2, FS_CardinalityType
  <2> QED
    BY <1>1, <2>1, <2>3
<1> QED
  BY <1>1, <1>2, <1>3

\* Nothing the runs have done depends on what is at a path now.
LEMMA ReplaceStep == ASSUME RunsInv, Replace PROVE RunsInv'
<1> USE DEF Replace, approvalVars, report
<1>1. RunsTyped'
  BY BoundsAssumption DEF RunsInv, RunsTyped, TypeOK
<1>2. Counted' /\ ReadsGranted' /\ NoneLost'
  BY DEF RunsInv, Counted, ReadsGranted, NoneLost, Reviewing
<1>3. RunsWhole' /\ RecordsTrue'
  BY DEF RunsInv, RunsWhole, Passed, Backed, Row, FileOf, RecordsTrue
<1> QED
  BY <1>1, <1>2, <1>3 DEF RunsInv

\* A person reads the file; if another is at it, both are said to overlap.
LEMMA BeginApproveStep == ASSUME RunsInv, NEW x \in People, BeginApprove(x) PROVE RunsInv'
<1> USE DEF world, report
<1>1. PICK new \in Reviews : reviewer' = [reviewer EXCEPT ![x] = new] /\ new.read = approvals
  <2>1. PICK q \in Requests : reviewer' = [reviewer EXCEPT ![x] =
              [kind |-> q.kind, path |-> q.path, hash |-> disk[q.path], note |-> q.note,
               read |-> approvals]]
    BY DEF BeginApprove
  <2>2. [kind |-> q.kind, path |-> q.path, hash |-> disk[q.path], note |-> q.note,
         read |-> approvals] \in Reviews
    BY DEF RunsInv, RunsTyped, TypeOK, Requests, Reviews
  <2> QED
    BY <2>1, <2>2
<1>2. /\ x \notin Reviewing /\ Cardinality(granted) + Cardinality(Reviewing) < MaxApprovals
      /\ UNCHANGED <<kind, world, approvals, granted, run, report, faults>>
      /\ overlap' <=> (overlap \/ Reviewing # {})
      /\ overlap' \in BOOLEAN
  BY DEF BeginApprove, Reviewing
<1>3. Reviewing' \in {Reviewing, Reviewing \cup {x}} /\ \A y \in Reviewing' \ {x} : reviewer'[y] = reviewer[y]
  <2>1. reviewer'[x] = new /\ \A y \in People \ {x} : reviewer'[y] = reviewer[y]
    BY <1>1 DEF RunsInv, RunsTyped
  <2>2. \A y \in People \ {x} : y \in Reviewing' <=> y \in Reviewing
    BY <2>1 DEF Reviewing
  <2>3. Reviewing \subseteq People /\ Reviewing' \subseteq People
    BY DEF Reviewing
  <2>4. x \notin Reviewing
    BY <1>2
  <2> QED
    BY <2>1, <2>2, <2>3, <2>4
<1>4. RunsTyped'
  BY <1>1, <1>2 DEF RunsInv, RunsTyped, TypeOK
<1>5. Counted'
  <2>1. Cardinality(Reviewing') =< Cardinality(Reviewing) + 1
    BY <1>2, <1>3, PeopleCount DEF Reviewing
  <2>2. Cardinality(granted) \in Nat /\ Cardinality(Reviewing) \in Nat /\ Cardinality(Reviewing') \in Nat
    <3>1. Reviewing \in SUBSET People /\ Reviewing' \in SUBSET People
      BY DEF Reviewing
    <3> QED
      BY <3>1, PeopleCount, FS_CardinalityType DEF RunsInv, Counted
  <2> QED
    BY <1>2, <2>1, <2>2, BoundsAssumption DEF RunsInv, Counted
<1>6. ReadsGranted'
  <2>1. ASSUME NEW y \in Reviewing' PROVE reviewer'[y].read \subseteq granted
    BY <1>1, <1>3 DEF RunsInv, RunsTyped, ReadsGranted
  <2>2. ~overlap' => \A y \in Reviewing' : reviewer'[y].read = approvals /\ Reviewing' = {y}
    BY <1>1, <1>2, <1>3 DEF RunsInv, RunsTyped
  <2> QED
    BY <1>2, <2>1, <2>2 DEF RunsInv, ReadsGranted
<1>7. NoneLost'
  BY <1>2 DEF RunsInv, NoneLost
<1>8. RunsWhole' /\ RecordsTrue'
  BY <1>2 DEF RunsInv, RunsWhole, Passed, Backed, Row, FileOf, RecordsTrue
<1> QED
  BY <1>4, <1>5, <1>6, <1>7, <1>8 DEF RunsInv

\* The whole file is written: what a person who was alone had read is not
\* lost but for the record that the new one replaces.
LEMMA FinishApproveStep == ASSUME RunsInv, NEW x \in People, FinishApprove(x) PROVE RunsInv'
<1> USE DEF world, report
<1> DEFINE q == reviewer[x]
           same == {a \in q.read : a.kind = q.kind /\ a.path = q.path /\ a.hash = q.hash}
           new == [kind |-> q.kind, path |-> q.path, hash |-> q.hash, at |-> Cardinality(granted) + 1]
<1>1. /\ q # Nobody /\ reviewer' = [reviewer EXCEPT ![x] = Nobody]
      /\ UNCHANGED <<kind, world, overlap, run, report, faults>>
      /\ \/ approvals' \in {q.read, approvals} /\ granted' = granted
         \/ approvals' = Amended(q, new) /\ granted' = granted \cup {new}
  BY DEF FinishApprove
<1>2. q \in Reviews /\ x \in Reviewing
  BY <1>1 DEF RunsInv, RunsTyped, Reviewing
<1>3. Reviewing' = Reviewing \ {x} /\ \A y \in Reviewing' : reviewer'[y] = reviewer[y]
  BY <1>1 DEF RunsInv, RunsTyped, Reviewing
<1>4. /\ Cardinality(granted) \in Nat /\ Cardinality(Reviewing) \in Nat
      /\ Cardinality(Reviewing') = Cardinality(Reviewing) - 1 /\ Cardinality(Reviewing) > 0
  <2>1. Reviewing \in SUBSET People
    BY DEF Reviewing
  <2> QED
    BY <1>2, <1>3, <2>1, PeopleCount, FS_CardinalityType DEF RunsInv, Counted
<1>5. /\ new.kind = q.kind /\ new.path = q.path /\ new.at = Cardinality(granted) + 1
      /\ new \in Records /\ new \notin granted
  BY <1>2, <1>4, BoundsAssumption DEF RunsInv, Counted, Records, Reviews
<1>6. q.read \subseteq granted /\ (~overlap => q.read = approvals /\ Reviewing = {x})
  BY <1>2 DEF RunsInv, ReadsGranted
<1>7. Amended(q, new) \subseteq q.read \cup {new} /\ new \in Amended(q, new)
      /\ \A a \in q.read : a \in Amended(q, new) \/ (a.kind = new.kind /\ a.path = new.path)
  BY <1>5 DEF Amended
<1> HIDE DEF q, new
<1>8. /\ granted \subseteq granted' /\ granted' \subseteq granted \cup {new}
      /\ approvals' \subseteq granted'
  BY <1>1, <1>6, <1>7 DEF RunsInv, ReadsGranted
<1>9. RunsTyped'
  BY <1>1, <1>5, <1>8 DEF RunsInv, RunsTyped, TypeOK
<1>10. Counted'
  <2>1. CASE granted' = granted
    BY <1>4, <2>1, BoundsAssumption DEF RunsInv, Counted
  <2>2. CASE granted' = granted \cup {new}
    <3>1. IsFiniteSet(granted') /\ Cardinality(granted') = Cardinality(granted) + 1
      BY <1>5, <2>2, FS_AddElement DEF RunsInv, Counted
    <3>2. \A a \in granted : a.at \in Nat
      BY BoundsAssumption DEF RunsInv, RunsTyped, TypeOK, Records
    <3>3. \A a \in granted' : a.at =< Cardinality(granted')
      BY <1>4, <1>5, <2>2, <3>1, <3>2 DEF RunsInv, Counted
    <3> QED
      BY <1>4, <3>1, <3>3, BoundsAssumption DEF RunsInv, Counted
  <2> QED
    BY <1>1, <2>1, <2>2
<1>11. ReadsGranted'
  BY <1>1, <1>3, <1>6, <1>8 DEF RunsInv, ReadsGranted
<1>12. NoneLost'
  <2> SUFFICES ASSUME NEW a \in granted' \ approvals', ~overlap
               PROVE  \E b \in granted' : b.kind = a.kind /\ b.path = a.path /\ b.at > a.at
    BY <1>1 DEF NoneLost
  <2>1. CASE a \in granted \ approvals
    BY <1>8, <2>1 DEF RunsInv, NoneLost
  <2>2. CASE a \in approvals
    <3>1. approvals' = Amended(q, new) /\ granted' = granted \cup {new}
      BY <1>1, <1>6, <2>2
    <3>2. new.kind = a.kind /\ new.path = a.path /\ new \in granted'
      BY <1>6, <1>7, <2>2, <3>1
    <3>3. a \in granted /\ a.at \in Nat
      BY <2>2, BoundsAssumption DEF RunsInv, ReadsGranted, RunsTyped, TypeOK, Records
    <3>4. new.at > a.at
      BY <1>4, <1>5, <3>3 DEF RunsInv, Counted
    <3> QED
      BY <3>2, <3>4
  <2>3. a \in granted
    BY <1>1, <1>7, <1>8
  <2> QED
    BY <2>1, <2>2, <2>3
<1>13. RunsWhole' /\ RecordsTrue'
  BY <1>1, <1>8 DEF RunsInv, RunsWhole, Passed, Backed, Row, FileOf, RecordsTrue
<1> QED
  BY <1>9, <1>10, <1>11, <1>12, <1>13 DEF RunsInv

---------------------------------------------------------------------------
(* The runs.                                                               *)

\* A step of one run, with what it writes.
LEMMA RunStep ==
    ASSUME RunsInv, NEW r \in Runs, NEW new \in RunStates, Update(r, new),
           UNCHANGED <<kind, world, approvalVars>>, faults' \in 0 .. MaxFaults,
           Passed(kind[r], new), InOrder(new), Backed(r, new)',
           /\ file' \in [Runs \cup {Nobody} -> Runs \cup {Nobody}]
           /\ rows' \subseteq [run : Runs, file : Runs \cup {Nobody}]
           /\ audit' \subseteq [run : Runs, status : {"completed", "failed"}]
           /\ observed' \subseteq Observations /\ page' \in BOOLEAN,
           /\ \A f \in Runs \cup {Nobody} : file[f] # Nobody => file'[f] # Nobody
           /\ \A f \in Runs \cup {Nobody} : file'[f] # Nobody => FileOf(file'[f]) = f
           /\ rows \subseteq rows'
           /\ \A e \in rows' : e.file = FileOf(e.run) /\ file'[e.file] # Nobody,
           \A l \in audit' : IF l.run = r THEN Tells(l, new) ELSE l \in audit,
           \A o \in observed' : o.at = "elsewhere" => o.kind = "sign"
    PROVE  RunsInv'
<1>1. /\ run' \in [Runs -> RunStates] /\ run'[r] = new
      /\ \A other \in Runs \ {r} : run'[other] = run[other]
  BY DEF Update, RunsInv, RunsTyped
<1>2. /\ UNCHANGED <<kind, disk, edits, approvals, reviewer, granted, overlap>>
      /\ \A other : FileOf(other)' = FileOf(other)
  BY DEF world, approvalVars, FileOf
<1>3. RunsTyped'
  <2>1. \A other \in Runs :
           /\ run'[other].phase \in Phases /\ run'[other].outcome \in Outcomes
           /\ run'[other].leader \in Leaders /\ run'[other].code \in Leaders \ {"up"}
           /\ run'[other].path \in Programs \cup {Nobody}
           /\ run'[other].hash \in Contents \cup {Nobody}
    BY <1>1 DEF RunStates
  <2> QED
    BY <1>1, <1>2, <2>1 DEF RunsInv, RunsTyped, TypeOK
<1>4. Counted' /\ ReadsGranted' /\ NoneLost'
  BY <1>2 DEF RunsInv, Counted, ReadsGranted, NoneLost, Reviewing
<1>5. RunsWhole'
  <2>1. ASSUME NEW other \in Runs \ {r}
        PROVE  Passed(kind[other], run[other])' /\ InOrder(run[other])' /\ Backed(other, run[other])'
    <3>1. Passed(kind[other], run[other]) /\ InOrder(run[other]) /\ Backed(other, run[other])
      BY DEF RunsInv, RunsWhole
    <3>2. Passed(kind[other], run[other])'
      BY <1>1, <1>2, <3>1 DEF Passed
    <3>3. InOrder(run[other])'
      BY <1>1, <3>1 DEF InOrder
    <3>4. FileOf(other) \in Runs \cup {Nobody}
      BY DEF FileOf
    <3>5. Backed(other, run[other])'
      BY <1>1, <1>2, <3>1, <3>4 DEF Backed, Row
    <3> QED
      BY <3>2, <3>3, <3>5
  <2>2. Passed(kind[r], run[r])' /\ InOrder(run[r])' /\ Backed(r, run[r])'
    BY <1>1, <1>2 DEF Passed, InOrder, Backed
  <2> QED
    BY <2>1, <2>2 DEF RunsWhole
<1>6. RecordsTrue'
  <2>1. \A l \in audit' : l.run \in Runs
    OBVIOUS
  <2>2. \A l \in audit' : Tells(l, run'[l.run])
    BY <1>1, <2>1 DEF RunsInv, RecordsTrue
  <2>3. \A l \in audit' : Tells(l, run[l.run])'
    BY <2>2 DEF Tells
  <2> QED
    BY <1>2, <2>3 DEF RecordsTrue
<1> QED
  BY <1>3, <1>4, <1>5, <1>6 DEF RunsInv

\* One that writes nothing.
LEMMA QuietRunStep ==
    ASSUME RunsInv, NEW r \in Runs, NEW new \in RunStates, Update(r, new),
           UNCHANGED <<kind, world, approvalVars, report>>, faults' \in 0 .. MaxFaults,
           Passed(kind[r], new), InOrder(new), Backed(r, new),
           run[r].phase \in {"settled", "done", "gone"} =>
              /\ new.phase \in {"settled", "done", "gone"}
              /\ new.code = run[r].code /\ new.timedOut = run[r].timedOut
    PROVE  RunsInv'
<1>1. UNCHANGED <<file, rows, audit, observed, page>> /\ UNCHANGED <<kind, world, approvalVars>>
  BY DEF report
<1>2. Backed(r, new)'
  BY <1>1 DEF Backed, Row, FileOf
<1>3. \A l \in audit : IF l.run = r THEN Tells(l, new) ELSE l \in audit
  BY DEF RunsInv, RecordsTrue, Tells
<1>4. /\ file \in [Runs \cup {Nobody} -> Runs \cup {Nobody}]
      /\ rows \subseteq [run : Runs, file : Runs \cup {Nobody}]
      /\ audit \subseteq [run : Runs, status : {"completed", "failed"}]
      /\ observed \subseteq Observations /\ page \in BOOLEAN
  BY DEF RunsInv, RunsTyped, TypeOK
<1>5. /\ \A f \in Runs \cup {Nobody} : file[f] # Nobody => FileOf(file[f]) = f
      /\ \A e \in rows : e.file = FileOf(e.run) /\ file[e.file] # Nobody
      /\ \A o \in observed : o.at = "elsewhere" => o.kind = "sign"
  BY <1>4 DEF RunsInv, RecordsTrue
<1> QED
  BY <1>1, <1>2, <1>3, <1>4, <1>5, RunStep

\* What there is to record of a run.
LEMMA ReportList ==
    ASSUME NEW r \in Runs, NEW code
    PROVE  /\ Reports(r, code) \in Seq(Writes) /\ Reports(r, code) # <<>>
           /\ Reports(r, code)[1] # "row"
           /\ \E i \in 1 .. Len(Reports(r, code)) : Reports(r, code)[i] = "row"
           /\ \A i \in 2 .. Len(Reports(r, code)) :
                 Reports(r, code)[i] = "row" => Reports(r, code)[i - 1] = "file"
<1> DEFINE Listed(t) == /\ t \in Seq(Writes) /\ t # <<>> /\ t[1] # "row"
                        /\ \E i \in 1 .. Len(t) : t[i] = "row"
                        /\ \A i \in 2 .. Len(t) : t[i] = "row" => t[i - 1] = "file"
<1>1. Listed(<<"observe", "seekPage", "page", "file", "row", "audit">>)
  <2> SUFFICES ASSUME NEW t, t = <<"observe", "seekPage", "page", "file", "row", "audit">>
               PROVE  Listed(t)
    OBVIOUS
  <2>1. /\ t \in Seq(Writes) /\ Len(t) = 6 /\ t[1] = "observe" /\ t[2] = "seekPage"
        /\ t[3] = "page" /\ t[4] = "file" /\ t[5] = "row" /\ t[6] = "audit"
    BY DEF Writes
  <2>2. \A i \in 1 .. Len(t) : i \in {1, 2, 3, 4, 5, 6}
    BY <2>1
  <2> QED
    BY <2>1, <2>2
<1>2. Listed(<<"file", "row">>)
  <2> SUFFICES ASSUME NEW t, t = <<"file", "row">>
               PROVE  Listed(t)
    OBVIOUS
  <2>1. t \in Seq(Writes) /\ Len(t) = 2 /\ t[1] = "file" /\ t[2] = "row"
    BY DEF Writes
  <2> QED
    BY <2>1
<1>3. Listed(<<"seekPage", "page", "file", "row">>)
  <2> SUFFICES ASSUME NEW t, t = <<"seekPage", "page", "file", "row">>
               PROVE  Listed(t)
    OBVIOUS
  <2>1. /\ t \in Seq(Writes) /\ Len(t) = 4 /\ t[1] = "seekPage" /\ t[2] = "page"
        /\ t[3] = "file" /\ t[4] = "row"
    BY DEF Writes
  <2>2. \A i \in 1 .. Len(t) : i \in {1, 2, 3, 4}
    BY <2>1
  <2> QED
    BY <2>1, <2>2
<1>4. /\ <<>> \o <<"file", "row">> = <<"file", "row">>
      /\ <<"seekPage", "page">> \o <<"file", "row">> = <<"seekPage", "page", "file", "row">>
  <2>1. <<>> \o <<"file", "row">> = <<"file", "row">>
    OBVIOUS
  <2>2. <<"seekPage", "page">> \o <<"file", "row">> = <<"seekPage", "page", "file", "row">>
    <3> SUFFICES ASSUME NEW t, t = <<"seekPage", "page">> \o <<"file", "row">>,
                        NEW u, u = <<"seekPage", "page", "file", "row">>
                 PROVE  t = u
      OBVIOUS
    <3>1. /\ t \in Seq(Writes) /\ Len(t) = 4 /\ t[1] = "seekPage" /\ t[2] = "page"
          /\ t[3] = "file" /\ t[4] = "row"
      BY DEF Writes
    <3>2. /\ u \in Seq(Writes) /\ Len(u) = 4 /\ u[1] = "seekPage" /\ u[2] = "page"
          /\ u[3] = "file" /\ u[4] = "row"
      BY DEF Writes
    <3>3. \A i \in 1 .. 4 : t[i] = u[i]
      BY <3>1, <3>2
    <3> QED
      BY <3>1, <3>2, <3>3, SeqEqual
  <2> QED
    BY <2>1, <2>2
<1>5. Listed(Reports(r, code))
  BY <1>1, <1>2, <1>3, <1>4 DEF Reports
<1> QED
  BY <1>5

\* The state of a run is typed, and what the invariant says of it.
LEMMA StateOf ==
    ASSUME RunsInv, NEW r \in Runs
    PROVE  /\ run[r] \in RunStates /\ Passed(kind[r], run[r]) /\ InOrder(run[r])
           /\ Backed(r, run[r]) /\ faults \in 0 .. MaxFaults /\ kind[r] \in Kinds
  BY DEF RunsInv, RunsTyped, RunsWhole, TypeOK

\* verify: what passes was approved, with the contents there are.
LEMMA CheckStep == ASSUME RunsInv, NEW r \in Runs, Check(r) PROVE RunsInv'
<1> USE DEF RunStates, Phases, Outcomes, Launched, Leaders
<1>1. /\ run[r] \in RunStates /\ run[r].phase = "idle" /\ run[r].outcome # "completed"
      /\ UNCHANGED <<kind, world, approvalVars, report>> /\ faults' \in 0 .. MaxFaults
  <2>1. run[r] \in RunStates /\ InOrder(run[r]) /\ faults \in 0 .. MaxFaults
    BY StateOf
  <2>2. run[r].phase = "idle" /\ UNCHANGED <<kind, world, approvalVars, report, faults>>
    BY DEF Check
  <2> QED
    BY <2>1, <2>2 DEF InOrder
<1>2. CASE Update(r, [run[r] EXCEPT !.phase = "done", !.outcome = "refused"])
  <2> DEFINE new == [run[r] EXCEPT !.phase = "done", !.outcome = "refused"]
  <2>1. new \in RunStates /\ Passed(kind[r], new) /\ InOrder(new) /\ Backed(r, new)
    <3>1. new \in RunStates
      <4>1. "done" \in Phases /\ "refused" \in Outcomes
        OBVIOUS
      <4> HIDE DEF Phases, Outcomes, Launched, Leaders
      <4> QED
        BY <1>1, <4>1
    <3>2. Passed(kind[r], new)
      BY <1>1, StateOf DEF Passed
    <3>3. InOrder(new)
      BY <1>1, StateOf DEF InOrder
    <3>4. Backed(r, new)
      BY <1>1, StateOf DEF Backed
    <3> QED
      BY <3>1, <3>2, <3>3, <3>4
  <2>2. Update(r, new)
    BY <1>2
  <2> HIDE DEF new
  <2> QED
    BY <1>1, <2>1, <2>2, QuietRunStep
<1>3. ASSUME NEW q \in Chosen(r), Verified(r, q),
             Update(r, [run[r] EXCEPT !.phase = "checked", !.path = q, !.hash = disk[q]])
      PROVE  RunsInv'
  <2> DEFINE new == [run[r] EXCEPT !.phase = "checked", !.path = q, !.hash = disk[q]]
  <2>1. q \in Programs /\ disk[q] \in Contents
    BY DEF Chosen, RecordsOf, RunsInv, RunsTyped, TypeOK, Records
  <2>2. new \in RunStates /\ InOrder(new) /\ Backed(r, new)
    <3>1. new \in RunStates
      BY <1>1, <2>1
    <3>2. InOrder(new)
      BY <1>1, StateOf DEF InOrder
    <3>3. Backed(r, new)
      BY <1>1, StateOf DEF Backed
    <3> QED
      BY <3>1, <3>2, <3>3
  <2>3. new.phase = "checked" /\ new.path = q /\ new.hash = disk[q]
    BY <1>1
  <2>4. Passed(kind[r], new)
    BY <1>3, <2>3 DEF Passed, Verified, RecordsOf, RunsInv, ReadsGranted
  <2>5. Update(r, new)
    BY <1>3
  <2> HIDE DEF new
  <2> QED
    BY <1>1, <2>2, <2>4, <2>5, QuietRunStep
<1> QED
  BY <1>2, <1>3 DEF Check

\* The approved program is started, or cannot be.
LEMMA SpawnStep == ASSUME RunsInv, NEW r \in Runs, Spawn(r) PROVE RunsInv'
<1> USE DEF RunStates, Phases, Outcomes, Launched, Leaders
<1>1. /\ run[r] \in RunStates /\ faults' \in 0 .. MaxFaults
      /\ UNCHANGED <<kind, world, approvalVars, report>>
  BY StateOf DEF Spawn
<1>2. run[r].phase = "checked"
  BY DEF Spawn
<1>3. CASE Update(r, [run[r] EXCEPT !.phase = "running", !.leader = "up", !.timer = TRUE])
  <2> DEFINE new == [run[r] EXCEPT !.phase = "running", !.leader = "up", !.timer = TRUE]
  <2>1. new \in RunStates /\ Passed(kind[r], new) /\ InOrder(new) /\ Backed(r, new)
    <3>1. new \in RunStates
      <4>1. "running" \in Phases /\ "up" \in Leaders
        OBVIOUS
      <4> HIDE DEF Phases, Outcomes, Launched, Leaders
      <4> QED
        BY <1>1, <4>1
    <3>2. Passed(kind[r], new)
      BY <1>1, <1>2, StateOf DEF Passed
    <3>3. InOrder(new)
      BY <1>1, <1>2, StateOf DEF InOrder
    <3>4. Backed(r, new)
      BY <1>1, <1>2, StateOf DEF Backed
    <3> QED
      BY <3>1, <3>2, <3>3, <3>4
  <2>2. /\ Update(r, new)
        /\ run[r].phase \in {"settled", "done", "gone"} =>
              /\ new.phase \in {"settled", "done", "gone"}
              /\ new.code = run[r].code /\ new.timedOut = run[r].timedOut
    BY <1>1, <1>2, <1>3
  <2> HIDE DEF new
  <2> QED
    BY <1>1, <2>1, <2>2, QuietRunStep
<1>4. CASE Update(r, [run[r] EXCEPT !.phase = "done", !.outcome = "spawn"])
  <2> DEFINE new == [run[r] EXCEPT !.phase = "done", !.outcome = "spawn"]
  <2>1. new \in RunStates /\ Passed(kind[r], new) /\ InOrder(new) /\ Backed(r, new)
    <3>1. new \in RunStates
      <4>1. "done" \in Phases /\ "spawn" \in Outcomes
        OBVIOUS
      <4> HIDE DEF Phases, Outcomes, Launched, Leaders
      <4> QED
        BY <1>1, <4>1
    <3>2. Passed(kind[r], new)
      BY <1>1, <1>2, StateOf DEF Passed, InOrder
    <3>3. InOrder(new)
      BY <1>1, <1>2, StateOf DEF InOrder
    <3>4. Backed(r, new)
      BY <1>1, <1>2, StateOf DEF Backed
    <3> QED
      BY <3>1, <3>2, <3>3, <3>4
  <2>2. /\ Update(r, new)
        /\ run[r].phase \in {"settled", "done", "gone"} =>
              /\ new.phase \in {"settled", "done", "gone"}
              /\ new.code = run[r].code /\ new.timedOut = run[r].timedOut
    BY <1>1, <1>2, <1>4
  <2> HIDE DEF new
  <2> QED
    BY <1>1, <2>1, <2>2, QuietRunStep
<1> QED
  BY <1>3, <1>4 DEF Spawn

\* The leader ends; it may leave descendants.
LEMMA ExitStep == ASSUME RunsInv, NEW r \in Runs, Exit(r) PROVE RunsInv'
<1> USE DEF RunStates, Phases, Outcomes, Launched, Leaders
<1>1. /\ run[r] \in RunStates /\ faults' \in 0 .. MaxFaults
      /\ UNCHANGED <<kind, world, approvalVars, report>>
  BY StateOf DEF Exit, Child
<1>2. PICK how \in Leaders \ {"up"}, held \in BOOLEAN :
         Update(r, [run[r] EXCEPT !.leader = how, !.holder = held])
  BY DEF Exit, Child
<1>3. run[r].leader = "up"
  BY DEF Exit
<1> QED
  <2> DEFINE new == [run[r] EXCEPT !.leader = how, !.holder = held]
  <2>1. new \in RunStates /\ Passed(kind[r], new) /\ InOrder(new) /\ Backed(r, new)
    <3>1. new \in RunStates
      <4>1. how \in Leaders
        OBVIOUS
      <4> HIDE DEF Phases, Outcomes, Launched, Leaders
      <4> QED
        BY <1>1, <4>1
    <3>2. Passed(kind[r], new)
      BY <1>1, <1>3, StateOf DEF Passed
    <3>3. InOrder(new)
      BY <1>1, <1>3, StateOf DEF InOrder
    <3>4. Backed(r, new)
      BY <1>1, <1>3, StateOf DEF Backed
    <3> QED
      BY <3>1, <3>2, <3>3, <3>4
  <2>2. /\ Update(r, new)
        /\ run[r].phase \in {"settled", "done", "gone"} =>
              /\ new.phase \in {"settled", "done", "gone"}
              /\ new.code = run[r].code /\ new.timedOut = run[r].timedOut
    BY <1>1, <1>2, <1>3
  <2> HIDE DEF new
  <2> QED
    BY <1>1, <2>1, <2>2, QuietRunStep

\* The descendants let go of the pipe.
LEMMA ReleaseStep == ASSUME RunsInv, NEW r \in Runs, Release(r) PROVE RunsInv'
<1> USE DEF RunStates, Phases, Outcomes, Launched, Leaders
<1>1. /\ run[r] \in RunStates /\ faults' \in 0 .. MaxFaults
      /\ UNCHANGED <<kind, world, approvalVars, report>>
  BY StateOf DEF Release, Child
<1> QED
  <2> DEFINE new == [run[r] EXCEPT !.holder = FALSE]
  <2>1. new \in RunStates /\ Passed(kind[r], new) /\ InOrder(new) /\ Backed(r, new)
    <3>1. new \in RunStates
      <4> HIDE DEF Phases, Outcomes, Launched, Leaders
      <4> QED
        BY <1>1
    <3>2. Passed(kind[r], new)
      BY <1>1, StateOf DEF Passed, Release, Child
    <3>3. InOrder(new)
      BY <1>1, StateOf DEF InOrder, Release, Child
    <3>4. Backed(r, new)
      BY <1>1, StateOf DEF Backed, Release, Child
    <3> QED
      BY <3>1, <3>2, <3>3, <3>4
  <2>2. /\ Update(r, new)
        /\ run[r].phase \in {"settled", "done", "gone"} =>
              /\ new.phase \in {"settled", "done", "gone"}
              /\ new.code = run[r].code /\ new.timedOut = run[r].timedOut
    BY <1>1 DEF Release, Child
  <2> HIDE DEF new
  <2> QED
    BY <1>1, <2>1, <2>2, QuietRunStep

\* The tree is told to end, and killed a second later.
LEMMA TimeoutStep == ASSUME RunsInv, NEW r \in Runs, Timeout(r) PROVE RunsInv'
<1> USE DEF RunStates, Phases, Outcomes, Launched, Leaders
<1>1. /\ run[r] \in RunStates /\ faults' \in 0 .. MaxFaults
      /\ UNCHANGED <<kind, world, approvalVars, report>>
  BY StateOf DEF Timeout, Child
<1>2. run[r].phase = "running"
  BY DEF Timeout
<1> QED
  <2> DEFINE new == Killed([run[r] EXCEPT !.timedOut = TRUE, !.timer = FALSE,
                                 !.fallback = (kind[r] = "external")])
  <2>1. new \in RunStates /\ Passed(kind[r], new) /\ InOrder(new) /\ Backed(r, new)
    <3>1. new \in RunStates
      <4>1. PICK late \in BOOLEAN : late = (kind[r] = "external")
        OBVIOUS
      <4>2. new = Killed([run[r] EXCEPT !.timedOut = TRUE, !.timer = FALSE, !.fallback = late])
        BY <4>1
      <4> HIDE DEF new
      <4> DEFINE told == [run[r] EXCEPT !.timedOut = TRUE, !.timer = FALSE, !.fallback = late]
      <4>3. told \in RunStates
        <5> HIDE DEF Phases, Outcomes, Launched, Leaders
        <5> QED
          BY <1>1
      <4>4. new = Killed(told)
        BY <4>2
      <4> HIDE DEF told
      <4>5. CASE told.leader = "up"
        <5> HIDE DEF Phases, Outcomes, Launched, Leaders
        <5> QED
          BY <4>3, <4>5, <4>4 DEF Killed
      <4>6. CASE told.leader # "up"
        BY <4>3, <4>6, <4>4 DEF Killed
      <4> QED
        BY <4>5, <4>6
    <3>2. /\ new.phase = run[r].phase /\ new.outcome = run[r].outcome
          /\ new.path = run[r].path /\ new.hash = run[r].hash
      <4>1. CASE run[r].leader = "up"
        BY <1>1, <4>1 DEF Killed
      <4>2. CASE run[r].leader # "up"
        BY <1>1, <4>2 DEF Killed
      <4> QED
        BY <4>1, <4>2
    <3>3. Passed(kind[r], new)
      <4> HIDE DEF new
      <4> QED
        BY <3>2, StateOf DEF Passed
    <3>4. InOrder(new)
      BY <1>1, <1>2, StateOf DEF InOrder, Timeout, Child, Killed
    <3>5. Backed(r, new)
      BY <1>1, <1>2, StateOf DEF Backed, Timeout, Child, Killed
    <3> QED
      BY <3>1, <3>3, <3>4, <3>5
  <2>2. /\ Update(r, new)
        /\ run[r].phase \in {"settled", "done", "gone"} =>
              /\ new.phase \in {"settled", "done", "gone"}
              /\ new.code = run[r].code /\ new.timedOut = run[r].timedOut
    BY <1>1, <1>2 DEF Timeout, Child, Killed
  <2> HIDE DEF new
  <2> QED
    BY <1>1, <2>1, <2>2, QuietRunStep

\* The leader is killed if it is still up.
LEMMA ForceKillStep == ASSUME RunsInv, NEW r \in Runs, ForceKill(r) PROVE RunsInv'
<1> USE DEF RunStates, Phases, Outcomes, Launched, Leaders
<1>1. /\ run[r] \in RunStates /\ faults' \in 0 .. MaxFaults
      /\ UNCHANGED <<kind, world, approvalVars, report>>
  BY StateOf DEF ForceKill, Child
<1>2. run[r].phase \notin {"idle", "gone"}
  BY DEF ForceKill
<1>3. CASE run[r].leader = "up"
  <2>1. PICK held \in BOOLEAN :
           Update(r, [run[r] EXCEPT !.force = FALSE, !.leader = "killed", !.holder = held])
    BY <1>3 DEF ForceKill, Child
  <2> QED
    <3> DEFINE new == [run[r] EXCEPT !.force = FALSE, !.leader = "killed", !.holder = held]
    <3>1. new \in RunStates /\ Passed(kind[r], new) /\ InOrder(new) /\ Backed(r, new)
      <4>1. new \in RunStates
        <5>1. "killed" \in Leaders
          OBVIOUS
        <5> HIDE DEF Phases, Outcomes, Launched, Leaders
        <5> QED
          BY <1>1, <5>1
      <4>2. Passed(kind[r], new)
        BY <1>1, <1>2, <1>3, StateOf DEF Passed
      <4>3. InOrder(new)
        BY <1>1, <1>2, <1>3, StateOf DEF InOrder
      <4>4. Backed(r, new)
        BY <1>1, <1>2, <1>3, StateOf DEF Backed
      <4> QED
        BY <4>1, <4>2, <4>3, <4>4
    <3>2. /\ Update(r, new)
          /\ run[r].phase \in {"settled", "done", "gone"} =>
                /\ new.phase \in {"settled", "done", "gone"}
                /\ new.code = run[r].code /\ new.timedOut = run[r].timedOut
      BY <1>1, <1>2, <1>3, <2>1
    <3> HIDE DEF new
    <3> QED
      BY <1>1, <3>1, <3>2, QuietRunStep
<1>4. CASE run[r].leader # "up"
  <2> DEFINE new == [run[r] EXCEPT !.force = FALSE]
  <2>1. new \in RunStates /\ Passed(kind[r], new) /\ InOrder(new) /\ Backed(r, new)
    <3>1. new \in RunStates
      <4> HIDE DEF Phases, Outcomes, Launched, Leaders
      <4> QED
        BY <1>1
    <3>2. Passed(kind[r], new)
      BY <1>1, <1>2, <1>4, StateOf DEF Passed, ForceKill, Child
    <3>3. InOrder(new)
      BY <1>1, <1>2, <1>4, StateOf DEF InOrder, ForceKill, Child
    <3>4. Backed(r, new)
      BY <1>1, <1>2, <1>4, StateOf DEF Backed, ForceKill, Child
    <3> QED
      BY <3>1, <3>2, <3>3, <3>4
  <2>2. /\ Update(r, new)
        /\ run[r].phase \in {"settled", "done", "gone"} =>
              /\ new.phase \in {"settled", "done", "gone"}
              /\ new.code = run[r].code /\ new.timedOut = run[r].timedOut
    BY <1>1, <1>2, <1>4 DEF ForceKill, Child
  <2> HIDE DEF new
  <2> QED
    BY <1>1, <2>1, <2>2, QuietRunStep
<1> QED
  BY <1>3, <1>4

\* A run settles, by the end of its leader or without it.
LEMMA ResolveStep ==
    ASSUME RunsInv, NEW r \in Runs, NEW code \in Leaders \ {"up"}, Child(r, Resolved(r, code)),
           run[r].phase = "running", run[r].leader # "up",
           code = run[r].leader \/ code = "none"
    PROVE  RunsInv'
<1> USE DEF RunStates, Phases, Outcomes, Launched, Leaders
<1>1. /\ run[r] \in RunStates /\ faults' \in 0 .. MaxFaults
      /\ UNCHANGED <<kind, world, approvalVars, report>>
  BY StateOf DEF Child
<1> DEFINE new == Resolved(r, code)
           list == Reports(r, code)
<1>2. /\ list \in Seq(Writes) /\ list # <<>> /\ list[1] # "row"
      /\ \E i \in 1 .. Len(list) : list[i] = "row"
      /\ \A i \in 2 .. Len(list) : list[i] = "row" => list[i - 1] = "file"
  BY ReportList
<1>3. new = [run[r] EXCEPT !.phase = "settled", !.timer = FALSE, !.fallback = FALSE,
                           !.code = code, !.todo = list]
  BY DEF Resolved
<1> HIDE DEF new, list
<1>4. /\ new \in RunStates /\ new.phase = "settled" /\ new.code = code /\ new.todo = list
      /\ new.leader = run[r].leader /\ new.outcome = run[r].outcome
      /\ new.path = run[r].path /\ new.hash = run[r].hash
  BY <1>1, <1>2, <1>3
<1>5. Passed(kind[r], new) /\ InOrder(new)
  BY <1>2, <1>4, StateOf DEF Passed, InOrder
<1>6. Backed(r, new)
  BY <1>2, <1>4, StateOf DEF Backed, InOrder
<1> QED
  BY <1>1, <1>4, <1>5, <1>6, QuietRunStep DEF Child, new

\* The fallback comes after the kill, and the pipe closes after the leader.
LEMMA SettleSteps == ASSUME RunsInv, NEW r \in Runs, KillFallback(r) \/ Close(r) PROVE RunsInv'
<1>1. run[r].phase = "running" /\ run[r].leader # "up"
  BY StateOf DEF KillFallback, Close, InOrder
<1>2. run[r].leader \in Leaders \ {"up"} /\ "none" \in Leaders \ {"up"}
  BY <1>1, StateOf DEF RunStates, Leaders
<1> QED
  BY <1>1, <1>2, ResolveStep DEF KillFallback, Close

\* Without its first entry, the list of what there is to write is still in
\* order: a row is next only after its file.
LEMMA TakenState ==
    ASSUME RunsInv, NEW r \in Runs, run[r].phase = "settled", run[r].todo # <<>>,
           NEW rest, rest = Tail(run[r].todo)
    PROVE  /\ rest \in Seq(Writes)
           /\ \A i \in 2 .. Len(rest) : rest[i] = "row" => rest[i - 1] = "file"
           /\ Head(run[r].todo) = "row" \/ Row(r) \in rows \/ \E i \in 1 .. Len(rest) : rest[i] = "row"
           /\ rest # <<>> /\ rest[1] = "row" => Head(run[r].todo) = "file"
<1> PICK t \in Seq(Writes) : t = run[r].todo
  BY StateOf DEF RunStates
<1>1. /\ rest \in Seq(Writes) /\ Len(rest) = Len(t) - 1 /\ Head(t) = t[1] /\ Len(t) > 0
      /\ \A i \in 1 .. Len(rest) : rest[i] = t[i + 1]
  OBVIOUS
<1>2. \A i \in 2 .. Len(t) : t[i] = "row" => t[i - 1] = "file"
  BY StateOf DEF InOrder
<1>3. Row(r) \in rows \/ \E i \in 1 .. Len(t) : t[i] = "row"
  BY StateOf DEF Backed
<1>4. ASSUME NEW i \in 2 .. Len(rest), rest[i] = "row" PROVE rest[i - 1] = "file"
  <2>1. i + 1 \in 2 .. Len(t) /\ i \in 1 .. Len(rest) /\ i - 1 \in 1 .. Len(rest)
    BY <1>1
  <2>2. t[i + 1] = "row" /\ t[(i + 1) - 1] = t[i] /\ rest[i - 1] = t[(i - 1) + 1]
    BY <1>1, <1>4, <2>1
  <2>3. (i + 1) - 1 = i /\ (i - 1) + 1 = i
    BY <2>1
  <2> QED
    BY <1>2, <2>1, <2>2, <2>3
<1>5. rest # <<>> /\ rest[1] = "row" => Head(t) = "file"
  BY <1>1, <1>2
<1>6. ASSUME NEW i \in 1 .. Len(t), t[i] = "row", i # 1
      PROVE  \E j \in 1 .. Len(rest) : rest[j] = "row"
  <2>1. i - 1 \in 1 .. Len(rest) /\ rest[i - 1] = "row"
    BY <1>1, <1>6
  <2> QED
    BY <2>1
<1> QED
  BY <1>1, <1>3, <1>4, <1>5, <1>6

\* One entry of the list is written.
LEMMA RecordStep ==
    ASSUME RunsInv, NEW r \in Runs, run[r].phase = "settled", run[r].todo # <<>>,
           NEW saw \in BOOLEAN, NEW new,
           new = [run[r] EXCEPT !.todo = Tail(run[r].todo), !.sawPage = saw], Update(r, new),
           UNCHANGED <<kind, world, approvalVars, faults>>,
           file' = IF Head(run[r].todo) = "file" THEN [file EXCEPT ![FileOf(r)] = r] ELSE file,
           rows' = IF Head(run[r].todo) = "row" THEN rows \cup {Row(r)} ELSE rows,
           audit' \subseteq audit \cup {[run |-> r, status |-> IF Well(r) THEN "completed" ELSE "failed"]},
           observed' \subseteq Observations, \A o \in observed' : o.at = "elsewhere" => o.kind = "sign",
           page' \in BOOLEAN
    PROVE  RunsInv'
<1> DEFINE rest == Tail(run[r].todo)
           line == [run |-> r, status |-> IF Well(r) THEN "completed" ELSE "failed"]
<1>1. /\ rest \in Seq(Writes)
      /\ \A i \in 2 .. Len(rest) : rest[i] = "row" => rest[i - 1] = "file"
      /\ Head(run[r].todo) = "row" \/ Row(r) \in rows \/ \E i \in 1 .. Len(rest) : rest[i] = "row"
      /\ rest # <<>> /\ rest[1] = "row" => Head(run[r].todo) = "file"
  BY TakenState
<1>2. new = [run[r] EXCEPT !.todo = rest, !.sawPage = saw]
  OBVIOUS
<1>3. run[r] \in RunStates /\ run[r].outcome = "none" /\ faults' \in 0 .. MaxFaults
  BY StateOf DEF InOrder
<1>4. line.run = r /\ (line.status = "completed" <=> run[r].code = "zero" /\ ~run[r].timedOut)
      /\ line \in [run : Runs, status : {"completed", "failed"}]
  BY DEF Well
<1>5. Row(r) \in [run : Runs, file : Runs \cup {Nobody}] /\ Row(r).run = r /\ Row(r).file = FileOf(r)
      /\ FileOf(r) \in Runs \cup {Nobody} /\ r # Nobody
  BY BoundsAssumption DEF Row, FileOf
<1>6. audit' \subseteq audit \cup {line}
  OBVIOUS
<1> HIDE DEF rest, line
<1>7. /\ new \in RunStates /\ new.phase = "settled" /\ new.todo = rest /\ new.outcome = "none"
      /\ new.path = run[r].path /\ new.hash = run[r].hash /\ new.outcome = run[r].outcome
      /\ new.code = run[r].code /\ new.timedOut = run[r].timedOut
      /\ new.leader = run[r].leader /\ new.fallback = run[r].fallback
  <2>1. new \in RunStates
    BY <1>1, <1>2, <1>3 DEF RunStates
  <2> QED
    BY <2>1, <1>2, <1>3 DEF RunStates
<1>8. Passed(kind[r], new)
  BY <1>7, StateOf DEF Passed
<1>9. InOrder(new)
  <2>1. InOrder(run[r])
    BY StateOf
  <2>2. \A i \in 2 .. Len(new.todo) : new.todo[i] = "row" => new.todo[i - 1] = "file"
    BY <1>1, <1>7
  <2> QED
    BY <1>7, <2>1, <2>2 DEF InOrder
<1>10. /\ file \in [Runs \cup {Nobody} -> Runs \cup {Nobody}]
       /\ rows \subseteq [run : Runs, file : Runs \cup {Nobody}]
       /\ audit \subseteq [run : Runs, status : {"completed", "failed"}]
       /\ \A f \in Runs \cup {Nobody} : file[f] # Nobody => FileOf(file[f]) = f
       /\ \A e \in rows : e.file = FileOf(e.run) /\ file[e.file] # Nobody
  BY DEF RunsInv, RunsTyped, TypeOK, RecordsTrue
<1>11. /\ file' \in [Runs \cup {Nobody} -> Runs \cup {Nobody}]
       /\ \A f \in Runs \cup {Nobody} : file[f] # Nobody => file'[f] # Nobody
       /\ \A f \in Runs \cup {Nobody} : file'[f] # Nobody => FileOf(file'[f]) = f
       /\ Head(run[r].todo) = "file" => file'[FileOf(r)] # Nobody
  BY <1>5, <1>10
<1>12. Head(run[r].todo) = "row" => file[FileOf(r)] # Nobody
  BY <1>3, StateOf DEF Backed, RunStates
<1>13. /\ rows' \subseteq [run : Runs, file : Runs \cup {Nobody}] /\ rows \subseteq rows'
       /\ Head(run[r].todo) = "row" => Row(r) \in rows'
  BY <1>5, <1>10
<1>14. \A e \in rows' : e.file = FileOf(e.run) /\ file'[e.file] # Nobody
  <2>1. ASSUME NEW e \in rows PROVE e.file = FileOf(e.run) /\ file'[e.file] # Nobody
    <3>1. e \in [run : Runs, file : Runs \cup {Nobody}]
      BY <1>10
    <3>2. e.file \in Runs \cup {Nobody}
      BY <3>1
    <3>3. e.file = FileOf(e.run) /\ file[e.file] # Nobody
      BY <1>10
    <3> QED
      BY <1>11, <3>2, <3>3
  <2>2. Head(run[r].todo) = "row" => file'[FileOf(r)] # Nobody
    BY <1>5, <1>11, <1>12
  <2> QED
    BY <1>5, <2>1, <2>2
<1>15. Row(r)' = Row(r) /\ FileOf(r)' = FileOf(r)
  BY DEF Row, FileOf
<1>16. Backed(r, new)'
  BY <1>1, <1>7, <1>11, <1>13, <1>15 DEF Backed
<1>17. audit' \subseteq [run : Runs, status : {"completed", "failed"}]
  BY <1>4, <1>6, <1>10
<1>18. \A l \in audit' : IF l.run = r THEN Tells(l, new) ELSE l \in audit
  BY <1>4, <1>6, <1>7 DEF Tells, RunsInv, RecordsTrue
<1> QED
  BY <1>3, <1>7, <1>8, <1>9, <1>11, <1>13, <1>14, <1>16, <1>17, <1>18, RunStep

\* A run that stops, or comes to its end, with nothing left to write.
LEMMA OverStep ==
    ASSUME RunsInv, NEW r \in Runs, NEW new \in RunStates, Update(r, new),
           UNCHANGED <<kind, world, approvalVars, report>>, faults' \in 0 .. MaxFaults,
           run[r].phase \in {"checked", "running", "settled"},
           new.phase \in {"done", "gone"}, new.todo = <<>>,
           new.phase = "done" => run[r].phase = "settled",
           new.outcome # "none" => new.phase = "done",
           new.outcome = "completed" => Well(r) /\ run[r].todo = <<>>,
           new.path = run[r].path, new.hash = run[r].hash, new.leader = run[r].leader,
           new.code = run[r].code, new.timedOut = run[r].timedOut
    PROVE  RunsInv'
<1>1. run[r] \in RunStates /\ Passed(kind[r], run[r]) /\ InOrder(run[r]) /\ Backed(r, run[r])
  BY StateOf
<1>2. Passed(kind[r], new)
  BY <1>1 DEF Passed, InOrder
<1>3. InOrder(new)
  BY <1>1 DEF InOrder, Well
<1>4. Backed(r, new)
  BY <1>1 DEF Backed
<1> QED
  BY <1>1, <1>2, <1>3, <1>4, QuietRunStep

\* A thing that is written is off the list; nothing else of the run changes.
LEMMA RecordedState ==
    ASSUME RunsInv, NEW r \in Runs, Recorded(r)
    PROVE  \E saw \in BOOLEAN : Update(r, [run[r] EXCEPT !.todo = Tail(run[r].todo), !.sawPage = saw])
<1>1. PICK saw \in BOOLEAN : saw = run[r].sawPage
  BY StateOf DEF RunStates
<1>2. [run[r] EXCEPT !.todo = Tail(run[r].todo)]
         = [run[r] EXCEPT !.todo = Tail(run[r].todo), !.sawPage = saw]
  BY <1>1, StateOf DEF RunStates
<1> QED
  BY <1>2 DEF Recorded

\* A run throws: what it has not written stays unwritten.
LEMMA ThrowsStep ==
    ASSUME RunsInv, NEW r \in Runs, run[r].phase = "settled", Throws(r),
           UNCHANGED <<kind, world, approvalVars, report>>, faults' \in 0 .. MaxFaults
    PROVE  RunsInv'
<1> DEFINE new == [run[r] EXCEPT !.todo = <<>>, !.phase = "done", !.outcome = "thrown"]
<1>1. /\ new \in RunStates /\ new.phase = "done" /\ new.todo = <<>> /\ new.outcome = "thrown"
      /\ new.path = run[r].path /\ new.hash = run[r].hash /\ new.leader = run[r].leader
      /\ new.code = run[r].code /\ new.timedOut = run[r].timedOut
  <2>1. run[r] \in RunStates /\ <<>> \in Seq(Writes)
    BY StateOf
  <2>2. new \in RunStates
    BY <2>1 DEF RunStates, Phases, Outcomes, Launched
  <2> QED
    BY <2>1, <2>2 DEF RunStates
<1>2. Update(r, new)
  BY DEF Throws
<1> HIDE DEF new
<1> QED
  BY <1>1, <1>2, OverStep

\* Observations and pages, and the file, the row and the audit line.
LEMMA WriteSteps ==
    ASSUME RunsInv, NEW r \in Runs,
           \/ Observe(r) \/ SeekPage(r) \/ PutPage(r)
           \/ WriteFile(r) \/ InsertRow(r) \/ WriteAudit(r)
    PROVE  RunsInv'
<1>1. /\ observed \subseteq Observations /\ page \in BOOLEAN /\ faults \in 0 .. MaxFaults
      /\ \A o \in observed : o.at = "elsewhere" => o.kind = "sign"
  BY DEF RunsInv, RunsTyped, TypeOK, RecordsTrue
<1>2. CASE Observe(r)
  <2>1. PICK saw \in BOOLEAN : Update(r, [run[r] EXCEPT !.todo = Tail(run[r].todo), !.sawPage = saw])
    BY <1>2, RecordedState DEF Observe
  <2>2. Recording(r, "observe") /\ UNCHANGED <<file, rows, audit, page>>
    BY <1>2 DEF Observe
  <2>3. ASSUME NEW o \in Observations, ScopedObservationAllowed(o)
        PROVE  o.at = "elsewhere" => o.kind = "sign"
    BY <2>3 DEF Observations, ScopedObservationAllowed, Places
  <2>4. observed' \subseteq Observations /\ \A o \in observed' : o.at = "elsewhere" => o.kind = "sign"
    BY <1>1, <1>2, <2>3 DEF Observe
  <2> QED
    BY <1>1, <2>1, <2>2, <2>4, RecordStep DEF Recording
<1>3. CASE SeekPage(r)
  <2>1. Update(r, [run[r] EXCEPT !.todo = Tail(run[r].todo), !.sawPage = page])
    BY <1>3 DEF SeekPage
  <2>2. Recording(r, "seekPage") /\ UNCHANGED <<file, rows, audit, observed, page>>
    BY <1>3 DEF SeekPage, report
  <2> QED
    BY <1>1, <2>1, <2>2, RecordStep DEF Recording
<1>4. CASE PutPage(r)
  <2>1. Recording(r, "page") /\ page' = TRUE /\ UNCHANGED <<file, rows, audit, observed>>
    BY <1>4 DEF PutPage
  <2>2. CASE page /\ ~run[r].sawPage
    <3>1. Throws(r) /\ page' = page
      BY <1>1, <1>4, <2>1, <2>2 DEF PutPage
    <3> QED
      BY <1>1, <2>1, <3>1, ThrowsStep DEF Recording, report
  <2>3. CASE ~(page /\ ~run[r].sawPage)
    <3>1. PICK saw \in BOOLEAN : Update(r, [run[r] EXCEPT !.todo = Tail(run[r].todo), !.sawPage = saw])
      BY <1>4, <2>3, RecordedState DEF PutPage
    <3> QED
      BY <1>1, <2>1, <3>1, RecordStep DEF Recording
  <2> QED
    BY <2>2, <2>3
<1>5. CASE WriteFile(r)
  <2>1. PICK saw \in BOOLEAN : Update(r, [run[r] EXCEPT !.todo = Tail(run[r].todo), !.sawPage = saw])
    BY <1>5, RecordedState DEF WriteFile
  <2>2. /\ Recording(r, "file") /\ file' = [file EXCEPT ![FileOf(r)] = r]
        /\ UNCHANGED <<rows, audit, observed, page>>
    BY <1>5 DEF WriteFile
  <2> QED
    BY <1>1, <2>1, <2>2, RecordStep DEF Recording
<1>6. CASE InsertRow(r)
  <2>1. PICK saw \in BOOLEAN : Update(r, [run[r] EXCEPT !.todo = Tail(run[r].todo), !.sawPage = saw])
    BY <1>6, RecordedState DEF InsertRow
  <2>2. /\ Recording(r, "row") /\ rows' = rows \cup {Row(r)}
        /\ UNCHANGED <<file, audit, observed, page>>
    BY <1>6 DEF InsertRow, Row
  <2> QED
    BY <1>1, <2>1, <2>2, RecordStep DEF Recording
<1>7. CASE WriteAudit(r)
  <2>1. PICK saw \in BOOLEAN : Update(r, [run[r] EXCEPT !.todo = Tail(run[r].todo), !.sawPage = saw])
    BY <1>7, RecordedState DEF WriteAudit
  <2>2. /\ Recording(r, "audit") /\ UNCHANGED <<file, rows, observed, page>>
        /\ audit' = audit \cup {[run |-> r, status |-> IF Well(r) THEN "completed" ELSE "failed"]}
    BY <1>7 DEF WriteAudit
  <2> QED
    BY <1>1, <2>1, <2>2, RecordStep DEF Recording
<1> QED
  BY <1>2, <1>3, <1>4, <1>5, <1>6, <1>7

\* All is written, and the result returned.
LEMMA ConcludeStep == ASSUME RunsInv, NEW r \in Runs, Conclude(r) PROVE RunsInv'
<1>1. /\ run[r].phase = "settled" /\ run[r].todo = <<>>
      /\ UNCHANGED <<kind, world, approvalVars, report>> /\ faults' \in 0 .. MaxFaults
  BY StateOf DEF Conclude
<1>2. PICK end \in {"completed", "timeout", "nonzero"} :
         /\ Update(r, [run[r] EXCEPT !.phase = "done", !.outcome = end])
         /\ end = "completed" => Well(r)
  BY DEF Conclude
<1> DEFINE new == [run[r] EXCEPT !.phase = "done", !.outcome = end]
<1>3. /\ new \in RunStates /\ new.phase = "done" /\ new.todo = <<>> /\ new.outcome = end
      /\ new.path = run[r].path /\ new.hash = run[r].hash /\ new.leader = run[r].leader
      /\ new.code = run[r].code /\ new.timedOut = run[r].timedOut
  <2>1. "done" \in Phases /\ end \in Outcomes
    BY DEF Phases, Outcomes, Launched
  <2>2. run[r] \in RunStates
    BY StateOf
  <2> QED
    BY <1>1, <2>1, <2>2 DEF RunStates
<1>4. Update(r, new)
  BY <1>2
<1> HIDE DEF new
<1> QED
  BY <1>1, <1>2, <1>3, <1>4, OverStep

\* A write fails, or the process is stopped.
LEMMA FailStep == ASSUME RunsInv, NEW r \in Runs, Fail(r) PROVE RunsInv'
<1>1. UNCHANGED <<kind, world, approvalVars, report>> /\ faults' \in 0 .. MaxFaults
  BY StateOf, BoundsAssumption DEF Fail
<1>2. CASE run[r].phase = "settled" /\ Throws(r)
  BY <1>1, <1>2, ThrowsStep
<1>3. CASE /\ run[r].phase \in {"checked", "running", "settled"}
           /\ Update(r, [run[r] EXCEPT !.phase = "gone", !.timer = FALSE, !.todo = <<>>])
  <2> DEFINE new == [run[r] EXCEPT !.phase = "gone", !.timer = FALSE, !.todo = <<>>]
  <2>1. /\ new \in RunStates /\ new.phase = "gone" /\ new.todo = <<>> /\ new.outcome = run[r].outcome
        /\ new.path = run[r].path /\ new.hash = run[r].hash /\ new.leader = run[r].leader
        /\ new.code = run[r].code /\ new.timedOut = run[r].timedOut
    <3>1. run[r] \in RunStates /\ <<>> \in Seq(Writes)
      BY StateOf
    <3>2. new \in RunStates
      BY <3>1 DEF RunStates, Phases, Outcomes, Launched
    <3> QED
      BY <3>1, <3>2 DEF RunStates
  <2>2. run[r].outcome = "none"
    BY <1>3, StateOf DEF InOrder
  <2>3. Update(r, new)
    BY <1>3
  <2> HIDE DEF new
  <2> QED
    BY <1>1, <1>3, <2>1, <2>2, <2>3, OverStep
<1> QED
  BY <1>2, <1>3 DEF Fail

\* Whatever happens to approvals and runs.
LEMMA RunsStep == ASSUME RunsInv, [Next]_vars PROVE RunsInv'
<1>1. ASSUME NEW x \in People, BeginApprove(x) \/ FinishApprove(x) PROVE RunsInv'
  BY <1>1, BeginApproveStep, FinishApproveStep
<1>2. ASSUME NEW r \in Runs, Check(r) \/ Spawn(r) \/ Exit(r) \/ Release(r) PROVE RunsInv'
  BY <1>2, CheckStep, SpawnStep, ExitStep, ReleaseStep
<1>3. ASSUME NEW r \in Runs, Proceeds(r) PROVE RunsInv'
  BY <1>3, TimeoutStep, ForceKillStep, SettleSteps, WriteSteps, ConcludeStep DEF Proceeds
<1>4. ASSUME NEW r \in Runs, Fail(r) PROVE RunsInv'
  BY <1>4, FailStep
<1>5. ASSUME UNCHANGED vars PROVE RunsInv'
  <2> USE <1>5 DEF vars, world, approvalVars, report
  <2>1. RunsTyped' /\ Counted' /\ ReadsGranted' /\ NoneLost'
    BY DEF RunsInv, RunsTyped, TypeOK, Counted, ReadsGranted, Reviewing, NoneLost
  <2>2. RunsWhole' /\ RecordsTrue'
    BY DEF RunsInv, RunsWhole, Passed, InOrder, Backed, Row, FileOf, RecordsTrue, Tells
  <2> QED
    BY <2>1, <2>2 DEF RunsInv
<1> QED
  BY ReplaceStep, <1>1, <1>2, <1>3, <1>4, <1>5 DEF Next

\* Before anything is approved or run.
LEMMA RunsInit == ASSUME Init PROVE RunsInv
<1>1. \A r \in Runs : run[r] = Unstarted
  BY DEF Init
<1>2. Unstarted \in RunStates /\ Unstarted.phase = "idle" /\ Unstarted.todo = <<>>
      /\ Unstarted.leader = "none" /\ Unstarted.code = "none" /\ Unstarted.outcome = "none"
      /\ Unstarted.fallback = FALSE
  <2>1. <<>> \in Seq(Writes)
    OBVIOUS
  <2> QED
    BY <2>1 DEF Unstarted, RunStates, Phases, Outcomes, Launched, Leaders
<1>3. RunsTyped
  <2>1. run \in [Runs -> RunStates] /\ reviewer \in [People -> Reviews \cup {Nobody}]
    BY <1>2 DEF Init
  <2>2. disk \in [Programs -> Contents] /\ edits \in 0 .. MaxEdits /\ faults \in 0 .. MaxFaults
    BY BoundsAssumption DEF Init
  <2>3. /\ kind \in [Runs -> Kinds] /\ approvals = {} /\ granted = {} /\ overlap \in BOOLEAN
        /\ page \in BOOLEAN /\ rows = {} /\ audit = {} /\ observed = {}
        /\ file \in [Runs \cup {Nobody} -> Runs \cup {Nobody}]
    BY DEF Init
  <2> QED
    BY <2>1, <2>2, <2>3 DEF RunsTyped, TypeOK, RunStates
<1>4. Counted
  <2>1. granted = {} /\ Reviewing = {}
    BY DEF Init, Reviewing
  <2> QED
    BY <2>1, FS_EmptySet, BoundsAssumption DEF Counted
<1>5. ReadsGranted /\ NoneLost
  BY DEF Init, ReadsGranted, NoneLost, Reviewing
<1>6. RunsWhole
  BY <1>1, <1>2 DEF RunsWhole, Passed, InOrder, Backed
<1>7. RecordsTrue
  BY DEF Init, RecordsTrue
<1> QED
  BY <1>3, <1>4, <1>5, <1>6, <1>7 DEF RunsInv

\* And in the instance for TLC, where two programs may be approved and run.
LEMMA InstanceInit == ASSUME MCInit PROVE RunsInv
<1> DEFINE first == [kind |-> "tool", path |-> p, hash |-> c1, at |-> 1]
           second == [kind |-> "external", path |-> p, hash |-> c1, at |-> 2]
<1>1. /\ first \in Records /\ first.kind = "tool" /\ first.path = p /\ first.hash = c1 /\ first.at = 1
      /\ second \in Records /\ second.kind = "external" /\ second.path = p /\ second.hash = c1
      /\ second.at = 2 /\ first # second
  BY InstanceAssumption, BoundsAssumption DEF Records, Kinds
<1>2. Approved = {first, second}
  BY DEF Approved
<1> HIDE DEF first, second
<1>3. granted = approvals /\ granted \in {{}, Approved}
  BY DEF MCInit
<1>4. ASSUME NEW r \in Runs
      PROVE  /\ run[r] \in RunStates /\ run[r].todo = <<>> /\ run[r].code = "none"
             /\ run[r].fallback = FALSE /\ run[r].outcome \in {"none", "refused"}
             /\ \/ run[r].phase = "idle" /\ run[r].leader = "none" /\ run[r].outcome = "none"
                \/ run[r].phase = "done" /\ run[r].leader = "none" /\ run[r].outcome = "refused"
                \/ /\ run[r].phase = "running" /\ run[r].outcome = "none"
                   /\ run[r].path = p /\ run[r].hash = c1 /\ granted = Approved
  <2>1. run[r] = Unstarted \/ run[r] = Over \/ (run[r] = Started /\ granted = Approved)
    BY DEF MCInit
  <2>2. Unstarted \in RunStates /\ <<>> \in Seq(Writes)
    <3>1. <<>> \in Seq(Writes)
      OBVIOUS
    <3> QED
      BY <3>1 DEF Unstarted, RunStates, Phases, Outcomes, Launched, Leaders
  <2>3. Over \in RunStates /\ Started \in RunStates
    <3>1. Over \in RunStates
      BY <2>2 DEF Over, RunStates, Phases, Outcomes, Launched
    <3>2. Started \in RunStates
      BY <2>2, InstanceAssumption DEF Started, RunStates, Phases, Launched, Leaders
    <3> QED
      BY <3>1, <3>2
  <2>4. CASE run[r] = Unstarted
    BY <2>2, <2>4 DEF Unstarted
  <2>5. CASE run[r] = Over
    BY <2>3, <2>5 DEF Over, Unstarted
  <2>6. CASE run[r] = Started /\ granted = Approved
    BY <2>3, <2>6 DEF Started, Unstarted
  <2> QED
    BY <2>1, <2>4, <2>5, <2>6
<1>5. run \in [Runs -> RunStates]
  BY <1>4 DEF MCInit
<1>6. RunsTyped
  <2>1. approvals \subseteq Records /\ granted \subseteq Records
    BY <1>1, <1>2, <1>3
  <2>2. disk \in [Programs -> Contents] /\ edits \in 0 .. MaxEdits /\ faults \in 0 .. MaxFaults
    BY InstanceAssumption, BoundsAssumption DEF MCInit
  <2>3. observed \subseteq Observations /\ kind \in [Runs -> Kinds]
    BY DEF MCInit
  <2>4. /\ overlap \in BOOLEAN /\ page \in BOOLEAN /\ rows = {} /\ audit = {}
        /\ file \in [Runs \cup {Nobody} -> Runs \cup {Nobody}]
        /\ reviewer \in [People -> Reviews \cup {Nobody}]
    BY DEF MCInit
  <2> QED
    BY <1>5, <2>1, <2>2, <2>3, <2>4 DEF RunsTyped, TypeOK, RunStates
<1>7. Reviewing = {}
  BY DEF MCInit, Reviewing
<1>8. Counted
  <2>1. IsFiniteSet({}) /\ Cardinality({}) = 0
    BY FS_EmptySet
  <2>2. IsFiniteSet({first}) /\ Cardinality({first}) = 1
    BY FS_Singleton
  <2>3. second \notin {first} /\ {first} \cup {second} = Approved
    BY <1>1, <1>2
  <2>4. IsFiniteSet(Approved) /\ Cardinality(Approved) = 2
    BY <2>2, <2>3, FS_AddElement
  <2>5. \A a \in Approved : a.at =< 2
    BY <1>1, <1>2
  <2> QED
    BY <1>3, <1>7, <2>1, <2>4, <2>5, InstanceAssumption, BoundsAssumption DEF Counted
<1>9. ReadsGranted /\ NoneLost
  BY <1>3, <1>7 DEF ReadsGranted, NoneLost
<1>10. RunsWhole
  <2> SUFFICES ASSUME NEW r \in Runs
               PROVE  Passed(kind[r], run[r]) /\ InOrder(run[r]) /\ Backed(r, run[r])
    BY DEF RunsWhole
  <2>1. kind[r] \in {"tool", "external"}
    BY DEF MCInit, Kinds
  <2>2. Passed(kind[r], run[r])
    BY <1>1, <1>2, <1>4, <2>1 DEF Passed
  <2>3. InOrder(run[r])
    <3>1. run[r].todo = <<>>
      BY <1>4
    <3>2. \A i \in 2 .. Len(run[r].todo) : run[r].todo[i] = "row" => run[r].todo[i - 1] = "file"
      BY <3>1
    <3>3. /\ run[r].code = "none" /\ run[r].fallback = FALSE /\ run[r].outcome \in {"none", "refused"}
          /\ \/ run[r].phase = "idle" /\ run[r].leader = "none" /\ run[r].outcome = "none"
             \/ run[r].phase = "done" /\ run[r].leader = "none" /\ run[r].outcome = "refused"
             \/ run[r].phase = "running" /\ run[r].outcome = "none"
      BY <1>4
    <3> QED
      BY <3>2, <3>3 DEF InOrder
  <2>4. Backed(r, run[r])
    BY <1>4 DEF Backed
  <2> QED
    BY <2>2, <2>3, <2>4
<1>11. RecordsTrue
  <2>1. ASSUME NEW o \in Observations, ScopedObservationAllowed(o)
        PROVE  o.at = "elsewhere" => o.kind = "sign"
    BY <2>1 DEF Observations, ScopedObservationAllowed, Places
  <2>2. \A o \in observed : o.at = "elsewhere" => o.kind = "sign"
    BY <2>1 DEF MCInit
  <2> QED
    BY <2>2 DEF MCInit, RecordsTrue
<1> QED
  BY <1>6, <1>8, <1>9, <1>10, <1>11 DEF RunsInv

\* What the invariant says of reports and evidence.
LEMMA RunsSafe ==
    ASSUME RunsInv PROVE TypeOK /\ RunIsOfApproved /\ ReportIsTrue /\ OwnEvidence /\ NoneOutlives
<1>1. TypeOK
  BY DEF RunsInv, RunsTyped
<1>2. RunIsOfApproved
  BY DEF RunsInv, RunsWhole, Passed, NoneLost, RunIsOfApproved, Launched
<1>3. ReportIsTrue
  <2>1. ASSUME NEW r \in Runs, run[r].outcome = "completed"
        PROVE  /\ run[r].leader = "zero" /\ ~run[r].timedOut
               /\ [run |-> r, file |-> FileOf(r)] \in rows
    BY <2>1, StateOf DEF InOrder, Backed, Row
  <2>2. ASSUME NEW l \in audit
        PROVE  /\ run[l.run].outcome = "completed" => l.status = "completed"
               /\ l.status = "completed" => ~run[l.run].timedOut
    <3>1. l.run \in Runs /\ Tells(l, run[l.run])
      BY DEF RunsInv, RunsTyped, TypeOK, RecordsTrue
    <3> QED
      BY <3>1, StateOf DEF Tells, InOrder
  <2> QED
    BY <2>1, <2>2 DEF ReportIsTrue, RunsInv, RecordsTrue
<1>4. OwnEvidence
  <2> SUFFICES ASSUME NEW e \in rows, file[e.file] # e.run
               PROVE  kind[e.run] = "tool" /\ kind[file[e.file]] = "tool"
    BY DEF OwnEvidence
  <2>1. /\ e.run \in Runs /\ e.file \in Runs \cup {Nobody} /\ e.file = FileOf(e.run)
        /\ file[e.file] \in Runs /\ FileOf(file[e.file]) = e.file
    BY DEF RunsInv, RunsTyped, TypeOK, RecordsTrue
  <2> QED
    BY <2>1, BoundsAssumption DEF FileOf
<1>5. NoneOutlives
  BY StateOf DEF InOrder, NoneOutlives
<1> QED
  BY <1>1, <1>2, <1>3, <1>4, <1>5

\* What is run was approved for what it is run for, with the contents it had
\* when it was checked, and no approval is lost but to a race or a later one
\* (LocalExecutableApprovalStore.approve, verify).
THEOREM OnlyApprovedIsRun == Spec => []RunIsOfApproved
<1>1. Init => RunsInv
  BY RunsInit
<1>2. RunsInv /\ [Next]_vars => RunsInv'
  BY RunsStep
<1>3. RunsInv => RunIsOfApproved
  BY RunsSafe
<1> QED
  BY <1>1, <1>2, <1>3, PTL DEF Spec

\* A success that is reported had a program that ended well in time, with its
\* evidence on record; of what it says of places outside the scope only signs
\* are recorded, no place; the file behind a row is its own, or of another run
\* of the same tool; and no program outlives a run that is over
\* (ToolAdapterRunner.execute, scopedObservationAllowed,
\* ExternalIntegrationExecutor.execute, runProcess).
THEOREM RunsReportTruly == Spec => [](ReportIsTrue /\ OwnEvidence /\ NoneOutlives)
<1>1. Init => RunsInv
  BY RunsInit
<1>2. RunsInv /\ [Next]_vars => RunsInv'
  BY RunsStep
<1>3. RunsInv => ReportIsTrue /\ OwnEvidence /\ NoneOutlives
  BY RunsSafe
<1> QED
  BY <1>1, <1>2, <1>3, PTL DEF Spec

---------------------------------------------------------------------------
(***************************************************************************)
(* The server of an MCP call or session, whatever it says, repeats, leaves *)
(* out or does: by induction over the callbacks of the executor and the    *)
(* steps of the server.                                                    *)
(***************************************************************************)
\* The bounds are numbers, and a session has a step.
CallBounds == MaxSteps \in Nat \ {0} /\ MaxNoise \in Nat /\ MaxFaults \in Nat

\* The steps up to the one at hand have passed their checks, and all of them
\* when there is a server.
Checked == /\ prepared =< Mcp!Steps /\ \A i \in 1 .. prepared : Mcp!MayGo(i)
           /\ child # "none" => prepared = Mcp!Steps

\* The answers taken are those of the steps in their order, good ones while a
\* step is at hand; what is asked has them all before it, and is the step at
\* hand alone unless the server answered too early.
OneAtATime ==
    /\ \A i \in 1 .. Len(answers) : answers[i].id = i
    /\ call.kind = "call" => Len(answers) =< 1
    /\ ~started => /\ active = 0
                   /\ answers # <<>> => call.kind = "call" /\ ~answers[1].inTurn
    /\ started /\ active = 0 => answers # <<>>
    /\ active # 0 => /\ started /\ Len(answers) = active - 1
                     /\ \A i \in 1 .. Len(answers) : ~Mcp!Fails(answers[i].reply)
    /\ \A i \in asked \ {0} :
          /\ started /\ Len(answers) >= i - 1
          /\ \A k \in 1 .. i - 1 : ~Mcp!Fails(answers[k].reply)
    /\ (\A i \in 1 .. Len(answers) : answers[i].inTurn) => asked \subseteq {active}

\* An answer under way that came in turn is to something no longer asked, and
\* until the session has finished not to a step still to come; that to
\* initialize came in turn, that to a step before initialize did not.
Fresh(m) ==
    m.kind = "answer" =>
        /\ m.inTurn => m.id \notin asked /\ (m.id =< active \/ (started /\ active = 0))
        /\ m.id = 0 => m.inTurn

InFlight == /\ \A i \in 1 .. Len(pipe) : Fresh(pipe[i])
            /\ \A i \in 1 .. Len(inbox) : Fresh(inbox[i])

\* What the phases of the executor say of the rest.
Phased ==
    /\ phase = "preparing" =>
          child = "none" /\ asked = {} /\ ~started /\ pipe = <<>> /\ ~released /\ ~settled
    /\ inbox # <<>> => phase = "running"
    /\ phase \in {"audit", "verdict"} => settled /\ "evidence" \in records
    /\ phase = "done" => settled \/ child = "none"
    /\ outcome # "none" => phase = "done"

\* The executor lets go of the streams only when it tells the server to end,
\* and settles only then or when there is none.
Told == /\ fallback => released
        /\ released /\ child = "up" => signalled
        /\ settled => released \/ child # "up"

\* The audit says of each answer what it was, and in the end of all of them.
LinesTrue ==
    /\ phase \in {"preparing", "running"} => lines = <<>>
    /\ Len(lines) =< Mcp!Due /\ (phase = "verdict" => Len(lines) = Mcp!Due)
    /\ \A i \in 1 .. Len(lines) : lines[i] = Mcp!Status(i)

CallInv == /\ Mcp!TypeOK /\ Checked /\ OneAtATime /\ InFlight /\ Phased /\ Told /\ LinesTrue
        /\ Mcp!OutcomeIsRecorded
---------------------------------------------------------------------------
\* What is asked for has a step, and no more than MaxSteps.
LEMMA CallFacts ==
    ASSUME CallBounds, call \in Mcp!Calls
    PROVE  /\ call.gates \in Seq(Mcp!Gates) /\ Mcp!Steps \in 1 .. MaxSteps
           /\ MaxSteps \in Nat /\ MaxNoise \in Nat /\ MaxFaults \in Nat
<1>1. PICK n \in 1 .. MaxSteps : call.gates \in [1 .. n -> Mcp!Gates]
  <2>1. CASE call.kind = "call"
    <3>1. call.gates \in [1 .. 1 -> Mcp!Gates]
      BY <2>1 DEF Mcp!Calls
    <3>2. 1 \in 1 .. MaxSteps
      BY DEF CallBounds
    <3> QED
      BY <3>1, <3>2
  <2>2. CASE call.kind # "call"
    <3>1. call.gates \in UNION {[1 .. n -> Mcp!Gates] : n \in 1 .. MaxSteps}
      BY <2>2 DEF Mcp!Calls
    <3> QED
      BY <3>1
  <2> QED
    BY <2>1, <2>2
<1>2. call.gates \in Seq(Mcp!Gates) /\ Len(call.gates) = n
  BY <1>1 DEF CallBounds
<1> QED
  BY <1>2 DEF CallBounds, Mcp!Steps

\* UNCHANGED names the variables in these groups.
USE DEF Mcp!server, Mcp!promise, Mcp!stream, Mcp!report

\* The messages of a part of a stream are messages of it.
LEMMA StreamParts ==
    ASSUME NEW s \in Seq(Mcp!Messages), NEW k \in 1 .. Len(s)
    PROVE  /\ SubSeq(s, 1, k) \in Seq(Mcp!Messages) /\ SubSeq(s, k + 1, Len(s)) \in Seq(Mcp!Messages)
           /\ \A i \in 1 .. Len(SubSeq(s, 1, k)) : \E j \in 1 .. Len(s) : SubSeq(s, 1, k)[i] = s[j]
           /\ \A i \in 1 .. Len(SubSeq(s, k + 1, Len(s))) :
                 \E j \in 1 .. Len(s) : SubSeq(s, k + 1, Len(s))[i] = s[j]
  OBVIOUS

---------------------------------------------------------------------------

\* One step passes its checks, or the call is refused.
LEMMA PrepareStep == ASSUME CallBounds, CallInv, Mcp!Prepare PROVE CallInv'
<1>1. Mcp!TypeOK'
  <2>1. "done" \in Mcp!Phases /\ "refused" \in Mcp!Outcomes
    BY DEF Mcp!Phases, Mcp!Outcomes
  <2>2. prepared' \in 0 .. MaxSteps
    BY CallFacts DEF Mcp!Prepare, CallInv, Mcp!TypeOK
  <2> QED
    BY <2>1, <2>2 DEF Mcp!Prepare, CallInv, Mcp!TypeOK, Mcp!Steps
<1>2. Checked'
  <2>1. Mcp!Steps' = Mcp!Steps /\ \A i : Mcp!MayGo(i)' <=> Mcp!MayGo(i)
    BY DEF Mcp!Prepare, Mcp!Steps, Mcp!MayGo
  <2>2. Mcp!Steps \in Nat /\ prepared \in Nat
    BY CallFacts DEF CallInv, Mcp!TypeOK
  <2>3. child' = "none"
    BY DEF Mcp!Prepare, CallInv, Phased
  <2>4. prepared' =< Mcp!Steps
    BY <2>2 DEF Mcp!Prepare, CallInv, Checked
  <2>5. \A i \in 1 .. prepared' : Mcp!MayGo(i)
    BY <2>2 DEF Mcp!Prepare, CallInv, Checked
  <2> QED
    BY <2>1, <2>3, <2>4, <2>5 DEF Checked
<1>3. OneAtATime'
  BY DEF Mcp!Prepare, CallInv, OneAtATime, Mcp!Fails
<1>4. InFlight'
  BY DEF Mcp!Prepare, CallInv, InFlight, Fresh
<1>5. Phased'
  BY DEF Mcp!Prepare, CallInv, Phased
<1>6. Told'
  BY DEF Mcp!Prepare, CallInv, Told, Phased
<1>7. Mcp!OutcomeIsRecorded'
  BY DEF Mcp!Prepare, CallInv, Mcp!OutcomeIsRecorded, Mcp!Steps, Mcp!Fails, Phased
<1>8. LinesTrue'
  BY DEF Mcp!Prepare, CallInv,
         LinesTrue, Phased, Mcp!Due, Mcp!Status
<1> QED
  BY <1>1, <1>2, <1>3, <1>4, <1>5, <1>6, <1>7, <1>8 DEF CallInv

\* The server is there once all have passed.
LEMMA CallSpawnStep == ASSUME CallBounds, CallInv, Mcp!Spawn PROVE CallInv'
<1>1. Mcp!TypeOK'
  BY CallFacts DEF Mcp!Spawn, CallInv, Mcp!TypeOK, Mcp!Steps, Mcp!Phases, Mcp!Outcomes
<1>2. Checked'
  BY CallFacts DEF Mcp!Spawn, CallInv, Checked, Mcp!MayGo, Mcp!Steps
<1>3. OneAtATime'
  BY DEF Mcp!Spawn, CallInv, OneAtATime, Mcp!Fails, Phased
<1>4. InFlight'
  BY DEF Mcp!Spawn, CallInv, InFlight, Fresh, Phased
<1>5. Phased'
  BY DEF Mcp!Spawn, CallInv, Phased
<1>6. Told'
  BY DEF Mcp!Spawn, CallInv, Told, Phased
<1>7. Mcp!OutcomeIsRecorded'
  BY DEF Mcp!Spawn, CallInv, Mcp!OutcomeIsRecorded, Mcp!Steps, Mcp!Fails, Phased
<1>8. LinesTrue'
  BY DEF Mcp!Spawn, CallInv,
         LinesTrue, Phased, Mcp!Due, Mcp!Status
<1> QED
  BY <1>1, <1>2, <1>3, <1>4, <1>5, <1>6, <1>7, <1>8 DEF CallInv

\* No server, nothing recorded.
LEMMA SpawnErrorStep == ASSUME CallBounds, CallInv, Mcp!SpawnError PROVE CallInv'
<1>1. Mcp!TypeOK'
  BY CallFacts DEF Mcp!SpawnError, CallInv, Mcp!TypeOK, Mcp!Steps, Mcp!Phases, Mcp!Outcomes
<1>2. Checked'
  BY CallFacts DEF Mcp!SpawnError, CallInv, Checked, Mcp!MayGo, Mcp!Steps
<1>3. OneAtATime'
  BY DEF Mcp!SpawnError, CallInv, OneAtATime, Mcp!Fails, Phased
<1>4. InFlight'
  BY DEF Mcp!SpawnError, CallInv, InFlight, Fresh, Phased
<1>5. Phased'
  BY DEF Mcp!SpawnError, CallInv, Phased
<1>6. Told'
  BY DEF Mcp!SpawnError, CallInv, Told, Phased
<1>7. Mcp!OutcomeIsRecorded'
  BY DEF Mcp!SpawnError, CallInv, Mcp!OutcomeIsRecorded, Mcp!Steps, Mcp!Fails, Phased
<1>8. LinesTrue'
  BY DEF Mcp!SpawnError, CallInv,
         LinesTrue, Phased, Mcp!Due, Mcp!Status
<1> QED
  BY <1>1, <1>2, <1>3, <1>4, <1>5, <1>6, <1>7, <1>8 DEF CallInv

\* The server puts a message in its pipe, an answer only to what is not asked
\* any more.
LEMMA PutsStep == ASSUME CallBounds, CallInv, NEW m \in Mcp!Messages, Mcp!Puts(m),
           asked' \subseteq asked, noise' \in 0 .. MaxNoise,
           m.kind = "answer" =>
              /\ m.inTurn => m.id \notin asked' /\ (m.id =< active \/ (started /\ active = 0))
              /\ m.id = 0 => m.inTurn
    PROVE CallInv'
<1>1. Mcp!TypeOK'
  <2>1. pipe' \in Seq(Mcp!Messages)
    BY DEF Mcp!Puts, CallInv, Mcp!TypeOK
  <2>2. asked' \subseteq 0 .. MaxSteps
    BY DEF CallInv, Mcp!TypeOK
  <2> QED
    BY <2>1, <2>2 DEF Mcp!Puts, CallInv, Mcp!TypeOK, Mcp!Steps, Mcp!Phases, Mcp!Outcomes
<1>2. Checked'
  BY CallFacts DEF Mcp!Puts, CallInv, Checked, Mcp!MayGo, Mcp!Steps
<1>3. OneAtATime'
  <2>1. /\ UNCHANGED <<call, started, active, answers>>
        /\ \A reply : Mcp!Fails(reply)' <=> Mcp!Fails(reply)
    BY DEF Mcp!Puts, Mcp!Fails
  <2> QED
    BY <2>1 DEF CallInv, OneAtATime
<1>4. InFlight'
  <2>1. \A n : Fresh(n) => Fresh(n)'
    BY DEF Mcp!Puts, Fresh
  <2>2. Fresh(m)'
    BY DEF Mcp!Puts, Fresh
  <2>3. pipe \in Seq(Mcp!Messages) /\ pipe' \in {pipe, Append(pipe, m)} /\ inbox' = inbox
    BY DEF Mcp!Puts, CallInv, Mcp!TypeOK
  <2>4. \A i \in 1 .. Len(pipe') : pipe'[i] = m \/ \E j \in 1 .. Len(pipe) : pipe'[i] = pipe[j]
    BY <2>3
  <2> QED
    BY <2>1, <2>2, <2>3, <2>4 DEF CallInv, InFlight
<1>5. Phased'
  BY DEF Mcp!Puts, CallInv, Phased
<1>6. Told'
  BY DEF Mcp!Puts, CallInv, Told, Phased
<1>7. Mcp!OutcomeIsRecorded'
  BY DEF Mcp!Puts, CallInv, Mcp!OutcomeIsRecorded, Mcp!Steps, Mcp!Fails, Phased
<1>8. LinesTrue'
  BY DEF Mcp!Puts, CallInv,
         LinesTrue, Phased, Mcp!Due, Mcp!Status
<1> QED
  BY <1>1, <1>2, <1>3, <1>4, <1>5, <1>6, <1>7, <1>8 DEF CallInv

\* An answer to what was asked.
LEMMA AnswerStep == ASSUME CallBounds, CallInv, Mcp!Answer PROVE CallInv'
<1>1. PICK id \in asked, r \in Mcp!Replies :
         /\ Mcp!Puts([kind |-> "answer", id |-> id, reply |-> r, inTurn |-> TRUE])
         /\ asked' = asked \ {id} /\ noise' = noise
  BY DEF Mcp!Answer
<1>2. id \in 0 .. MaxSteps /\ noise \in 0 .. MaxNoise
  BY DEF CallInv, Mcp!TypeOK
<1>3. id =< active \/ (started /\ active = 0)
  <2>1. Mcp!Steps \in Nat /\ active \in 0 .. Mcp!Steps /\ id \in Nat /\ Len(answers) \in Nat
    BY <1>2, CallFacts DEF CallInv, Mcp!TypeOK
  <2>2. id = 0 \/ (started /\ Len(answers) >= id - 1)
    BY DEF CallInv, OneAtATime
  <2>3. active # 0 => Len(answers) = active - 1
    BY DEF CallInv, OneAtATime
  <2> QED
    BY <2>1, <2>2, <2>3
<1> DEFINE m == [kind |-> "answer", id |-> id, reply |-> r, inTurn |-> TRUE]
<1>4. m \in Mcp!Messages /\ m.id = id /\ m.inTurn = TRUE
  BY <1>2 DEF Mcp!Messages
<1>5. Mcp!Puts(m) /\ asked' \subseteq asked /\ id \notin asked'
  BY <1>1
<1> HIDE DEF m
<1> QED
  BY <1>1, <1>2, <1>3, <1>4, <1>5, PutsStep

\* A message nobody asked for.
LEMMA NoiseStep == ASSUME CallBounds, CallInv, Mcp!Noise PROVE CallInv'
<1>1. asked' = asked /\ noise' \in 0 .. MaxNoise
  BY CallFacts DEF Mcp!Noise, CallInv, Mcp!TypeOK
<1>2. active \in 0 .. MaxSteps /\ Mcp!Steps \in 1 .. MaxSteps /\ MaxSteps \in Nat
  BY CallFacts DEF CallInv, Mcp!TypeOK
<1>3. ASSUME NEW what \in {"note", "garbage"}, Mcp!Puts([kind |-> what])
      PROVE  CallInv'
  <2> DEFINE m == [kind |-> what]
  <2>1. m \in Mcp!Messages /\ m.kind # "answer" /\ Mcp!Puts(m)
    BY <1>3 DEF Mcp!Messages
  <2> HIDE DEF m
  <2> QED
    BY <1>1, <2>1, PutsStep
<1>4. ASSUME NEW id \in (0 .. Mcp!Steps) \ asked,
             Mcp!Puts([kind |-> "answer", id |-> id, reply |-> "ok", inTurn |-> id =< active])
      PROVE  CallInv'
  <2> DEFINE m == [kind |-> "answer", id |-> id, reply |-> "ok", inTurn |-> id =< active]
  <2>1. id \in 0 .. MaxSteps /\ id \notin asked /\ (id =< active) \in BOOLEAN
    BY <1>2
  <2>2. m \in Mcp!Messages
    BY <2>1 DEF Mcp!Messages, Mcp!Replies
  <2>3. m.id = id /\ (m.inTurn <=> id =< active) /\ Mcp!Puts(m)
    BY <1>4
  <2>4. m.id = 0 => m.inTurn
    BY <1>2, <2>3
  <2> HIDE DEF m
  <2> QED
    BY <1>1, <2>1, <2>2, <2>3, <2>4, PutsStep
<1> QED
  BY <1>3, <1>4 DEF Mcp!Noise

\* The server is gone, and with it what it was asked.
LEMMA DieStep == ASSUME CallBounds, CallInv, Mcp!Die PROVE CallInv'
<1>1. Mcp!TypeOK'
  BY CallFacts DEF Mcp!Die, CallInv, Mcp!TypeOK, Mcp!Steps, Mcp!Phases, Mcp!Outcomes
<1>2. Checked'
  BY CallFacts DEF Mcp!Die, CallInv, Checked, Mcp!MayGo, Mcp!Steps
<1>3. OneAtATime'
  BY DEF Mcp!Die, CallInv, OneAtATime, Mcp!Fails, Phased
<1>4. InFlight'
  BY DEF Mcp!Die, CallInv, InFlight, Fresh, Phased
<1>5. Phased'
  BY DEF Mcp!Die, CallInv, Phased
<1>6. Told'
  BY DEF Mcp!Die, CallInv, Told, Phased
<1>7. Mcp!OutcomeIsRecorded'
  BY DEF Mcp!Die, CallInv, Mcp!OutcomeIsRecorded, Mcp!Steps, Mcp!Fails, Phased
<1>8. LinesTrue'
  BY DEF Mcp!Die, CallInv,
         LinesTrue, Phased, Mcp!Due, Mcp!Status
<1> QED
  BY <1>1, <1>2, <1>3, <1>4, <1>5, <1>6, <1>7, <1>8 DEF CallInv

\* A chunk of the stream is taken, or thrown away with the whole stream.
LEMMA DataStep == ASSUME CallBounds, CallInv, Mcp!Data PROVE CallInv'
<1> USE DEF Mcp!Turn
<1>1. PICK k \in 1 .. Len(pipe) :
         \/ Mcp!Frees /\ Mcp!Resolves /\ UNCHANGED inbox
         \/ /\ inbox' = SubSeq(pipe, 1, k) /\ pipe' = SubSeq(pipe, k + 1, Len(pipe))
            /\ UNCHANGED <<failure, signalled, released, Mcp!promise>>
  BY DEF Mcp!Data
<1>2. pipe \in Seq(Mcp!Messages) /\ inbox = <<>>
  BY DEF Mcp!Data, CallInv, Mcp!TypeOK
<1>3. /\ inbox' \in Seq(Mcp!Messages) /\ pipe' \in Seq(Mcp!Messages)
      /\ \A i \in 1 .. Len(inbox') : \E j \in 1 .. Len(pipe) : inbox'[i] = pipe[j]
      /\ \A i \in 1 .. Len(pipe') : \E j \in 1 .. Len(pipe) : pipe'[i] = pipe[j]
  <2>1. CASE Mcp!Frees /\ Mcp!Resolves /\ UNCHANGED inbox
    BY <1>2, <2>1 DEF Mcp!Frees
  <2>2. CASE inbox' = SubSeq(pipe, 1, k) /\ pipe' = SubSeq(pipe, k + 1, Len(pipe))
    BY <1>2, <2>2, StreamParts
  <2> QED
    BY <1>1, <2>1, <2>2
<1>4. Mcp!TypeOK'
  <2>1. /\ signalled' \in BOOLEAN /\ released' \in BOOLEAN /\ failure' \in BOOLEAN
        /\ timer' \in {"off", "armed"} /\ fallback' \in BOOLEAN /\ settled' \in BOOLEAN
    BY DEF Mcp!Data, Mcp!Frees, Mcp!Resolves, CallInv, Mcp!TypeOK
  <2> QED
    BY <1>3, <2>1 DEF Mcp!Data, CallInv, Mcp!TypeOK, Mcp!Steps
<1>5. InFlight'
  <2>1. \A m : Fresh(m)' <=> Fresh(m)
    BY DEF Mcp!Data, Fresh
  <2> QED
    BY <1>3, <2>1 DEF CallInv, InFlight
<1>6. Checked' /\ OneAtATime'
  BY DEF Mcp!Data, CallInv, Checked, Mcp!MayGo, Mcp!Steps, OneAtATime, Mcp!Fails
<1>7. Phased' /\ Mcp!OutcomeIsRecorded' /\ LinesTrue'
  BY DEF Mcp!Data, CallInv, Phased, Mcp!OutcomeIsRecorded, LinesTrue, Mcp!Due, Mcp!Status
<1>8. Told'
  <2>1. child' = child
    BY DEF Mcp!Data
  <2>2. CASE Mcp!Frees /\ Mcp!Resolves
    BY <2>1, <2>2 DEF Mcp!Frees, Mcp!Resolves, Told
  <2>3. CASE UNCHANGED <<signalled, released, Mcp!promise>>
    BY <2>1, <2>3 DEF CallInv, Told
  <2> QED
    BY <1>1, <2>2, <2>3
<1> QED
  BY <1>4, <1>5, <1>6, <1>7, <1>8 DEF CallInv

\* What a message leaves behind that goes on to step i.
LEMMA GoesOn ==
    ASSUME CallBounds, CallInv, phase = "running", inbox' \in Seq(Mcp!Messages),
           \A k \in 1 .. Len(inbox') : \E l \in 1 .. Len(inbox) : inbox'[k] = inbox[l],
           UNCHANGED <<call, phase, prepared, child, noise, timedOut, failure, Mcp!report>>,
           noted' \in BOOLEAN,
           NEW i \in 1 .. Mcp!Steps, Mcp!Writes(i), started' = TRUE, i = active + 1,
           answers' \in Seq([id : 1 .. MaxSteps, reply : Mcp!Replies, inTurn : BOOLEAN]),
           Len(answers') = i - 1, call.kind = "call" => Len(answers') =< 1,
           \A k \in 1 .. Len(answers') : answers'[k].id = k /\ ~Mcp!Fails(answers'[k].reply),
           \A k \in asked \ {0} : k =< i,
           (\A k \in 1 .. Len(answers') : answers'[k].inTurn) => asked = {},
           \A n : Fresh(n) /\ n.kind = "answer" /\ n.inTurn => n.id =< active
    PROVE  CallInv'
<1>1. /\ Mcp!Steps' = Mcp!Steps /\ Mcp!Steps \in 1 .. MaxSteps /\ MaxSteps \in Nat
      /\ active \in 0 .. Mcp!Steps /\ outcome = "none" /\ lines = <<>>
      /\ \A reply : Mcp!Fails(reply)' <=> Mcp!Fails(reply)
  BY CallFacts DEF CallInv, Mcp!TypeOK, Phased, LinesTrue, Mcp!Steps, Mcp!Fails
<1>2. /\ active' = i /\ asked' \subseteq asked \cup {i} /\ broken' \in BOOLEAN
      /\ UNCHANGED <<pipe, signalled, released, Mcp!promise>>
  BY DEF Mcp!Writes, CallInv, Mcp!TypeOK
<1>3. Mcp!TypeOK'
  <2>1. asked' \subseteq 0 .. MaxSteps /\ active' \in 0 .. Mcp!Steps'
    BY <1>1, <1>2 DEF CallInv, Mcp!TypeOK
  <2> QED
    BY <1>1, <1>2, <2>1 DEF CallInv, Mcp!TypeOK
<1>4. OneAtATime'
  <2>1. ASSUME NEW k \in asked' \ {0}
        PROVE  /\ Len(answers') >= k - 1
               /\ \A l \in 1 .. k - 1 : ~Mcp!Fails(answers'[l].reply)
    <3>1. k =< i /\ k \in Nat /\ i \in Nat
      BY <1>1, <1>2 DEF CallInv, Mcp!TypeOK
    <3>2. Len(answers') >= k - 1 /\ 1 .. k - 1 \subseteq 1 .. Len(answers')
      BY <3>1
    <3> QED
      BY <3>2
  <2>2. (\A k \in 1 .. Len(answers') : answers'[k].inTurn) => asked' \subseteq {active'}
    BY <1>2
  <2> QED
    BY <1>1, <1>2, <2>1, <2>2 DEF OneAtATime
<1>5. InFlight'
  <2>1. ASSUME NEW n \in Mcp!Messages, Fresh(n) PROVE Fresh(n)'
    <3>1. ASSUME n.kind = "answer", n.inTurn
          PROVE  n.id \notin asked' /\ n.id =< active'
      <4>1. n.id =< active /\ n.id \in 0 .. MaxSteps /\ n.id \notin asked
        BY <2>1, <3>1 DEF Fresh, Mcp!Messages
      <4> QED
        BY <1>1, <1>2, <4>1
    <3> QED
      BY <2>1, <3>1 DEF Fresh
  <2>2. pipe \in Seq(Mcp!Messages) /\ pipe' = pipe /\ inbox \in Seq(Mcp!Messages)
    BY <1>2 DEF CallInv, Mcp!TypeOK
  <2>3. \A k \in 1 .. Len(pipe') : pipe'[k] \in Mcp!Messages /\ Fresh(pipe'[k])
    BY <2>2 DEF CallInv, InFlight
  <2>4. \A k \in 1 .. Len(inbox) : inbox[k] \in Mcp!Messages /\ Fresh(inbox[k])
    BY <2>2 DEF CallInv, InFlight
  <2>5. \A k \in 1 .. Len(inbox') : inbox'[k] \in Mcp!Messages /\ Fresh(inbox'[k])
    BY <2>4
  <2>6. \A n \in Mcp!Messages : Fresh(n) => Fresh(n)'
    BY <2>1
  <2> QED
    BY <2>3, <2>5, <2>6 DEF InFlight
<1>6. Told'
  BY <1>2 DEF CallInv, Told
<1>7. Checked' /\ Phased'
  BY <1>1, <1>2 DEF CallInv, Checked, Phased, Mcp!MayGo
<1>8. Mcp!OutcomeIsRecorded'
  BY <1>1 DEF Mcp!OutcomeIsRecorded
<1>9. LinesTrue'
  BY <1>1 DEF LinesTrue, Mcp!Due
<1> QED
  BY <1>3, <1>4, <1>5, <1>6, <1>7, <1>8, <1>9 DEF CallInv

\* And one that finishes the call.
LEMMA Ends ==
    ASSUME CallBounds, CallInv, phase = "running", inbox' \in Seq(Mcp!Messages),
           \A k \in 1 .. Len(inbox') : \E l \in 1 .. Len(inbox) : inbox'[k] = inbox[l],
           UNCHANGED <<call, phase, prepared, child, noise, timedOut, failure, Mcp!report>>,
           noted' \in BOOLEAN, broken' = broken, Mcp!Frees, Mcp!Resolves,
           started' = TRUE, active' = 0, answers' # <<>>,
           answers' \in Seq([id : 1 .. MaxSteps, reply : Mcp!Replies, inTurn : BOOLEAN]),
           call.kind = "call" => Len(answers') =< 1,
           \A k \in 1 .. Len(answers') : answers'[k].id = k,
           asked' \subseteq 0 .. MaxSteps,
           \A k \in asked' \ {0} : /\ Len(answers') >= k - 1
                                   /\ \A l \in 1 .. k - 1 : ~Mcp!Fails(answers'[l].reply),
           (\A k \in 1 .. Len(answers') : answers'[k].inTurn) => asked' = {},
           \A n \in Mcp!Messages :
              Fresh(n) /\ n.kind = "answer" /\ n.inTurn => n.id \notin asked'
    PROVE  CallInv'
<1>1. /\ Mcp!Steps' = Mcp!Steps /\ Mcp!Steps \in 1 .. MaxSteps /\ MaxSteps \in Nat
      /\ outcome = "none" /\ lines = <<>>
      /\ \A reply : Mcp!Fails(reply)' <=> Mcp!Fails(reply)
  BY CallFacts DEF CallInv, Mcp!TypeOK, Phased, LinesTrue, Mcp!Steps, Mcp!Fails
<1>2. /\ pipe' = <<>> /\ released' = TRUE /\ signalled' = (signalled \/ child = "up")
      /\ settled' = TRUE /\ timer' = "off" /\ fallback' = FALSE
  BY DEF Mcp!Frees, Mcp!Resolves
<1>3. Mcp!TypeOK'
  <2>1. signalled' \in BOOLEAN /\ pipe' \in Seq(Mcp!Messages) /\ active' \in 0 .. Mcp!Steps'
    BY <1>1, <1>2 DEF CallInv, Mcp!TypeOK
  <2> QED
    BY <1>1, <1>2, <2>1 DEF CallInv, Mcp!TypeOK
<1>4. OneAtATime'
  BY <1>1 DEF OneAtATime
<1>5. InFlight'
  <2>1. ASSUME NEW n \in Mcp!Messages, Fresh(n) PROVE Fresh(n)'
    BY <2>1 DEF Fresh
  <2>2. inbox \in Seq(Mcp!Messages)
    BY DEF CallInv, Mcp!TypeOK
  <2> QED
    BY <1>2, <2>1, <2>2 DEF CallInv, InFlight
<1>6. Told'
  BY <1>2 DEF Told
<1>7. Checked' /\ Phased'
  BY <1>1, <1>2 DEF CallInv, Checked, Phased, Mcp!MayGo
<1>8. Mcp!OutcomeIsRecorded'
  BY <1>1 DEF Mcp!OutcomeIsRecorded
<1>9. LinesTrue'
  BY <1>1 DEF LinesTrue, Mcp!Due
<1> QED
  BY <1>3, <1>4, <1>5, <1>6, <1>7, <1>8, <1>9 DEF CallInv

\* A message of the chunk is handled: a step goes out, the call is over, the
\* answer waits for initialize, or nothing was expected of it.
LEMMA HandleStep == ASSUME CallBounds, CallInv, Mcp!Handle PROVE CallInv'
<1> DEFINE m == Head(inbox)
           Answers == Seq([id : 1 .. MaxSteps, reply : Mcp!Replies, inTurn : BOOLEAN])
<1>1. /\ inbox \in Seq(Mcp!Messages) /\ inbox # <<>> /\ inbox' = Tail(inbox)
      /\ UNCHANGED <<call, phase, prepared, child, noise, timedOut, failure, Mcp!report>>
      /\ noted' \in BOOLEAN
  BY DEF Mcp!Handle, CallInv, Mcp!TypeOK
<1>2. /\ inbox' \in Seq(Mcp!Messages) /\ m \in Mcp!Messages /\ m = inbox[1] /\ 1 \in 1 .. Len(inbox)
      /\ \A i \in 1 .. Len(inbox') : \E j \in 1 .. Len(inbox) : inbox'[i] = inbox[j]
  BY <1>1
<1>3. Fresh(m)
  BY <1>2 DEF CallInv, InFlight
<1>4. /\ phase = "running" /\ outcome = "none" /\ Mcp!Steps' = Mcp!Steps /\ Mcp!Steps \in 1 .. MaxSteps
      /\ MaxSteps \in Nat /\ active \in 0 .. Mcp!Steps /\ call \in Mcp!Calls /\ lines = <<>>
      /\ \A r : Mcp!Fails(r)' <=> Mcp!Fails(r)
  BY <1>1, CallFacts DEF CallInv, Mcp!TypeOK, Phased, LinesTrue, Mcp!Steps, Mcp!Fails
<1>5. \/ Mcp!Greets(m) /\ Mcp!Greeted
      \/ Mcp!Expected(m) /\ Mcp!Accepts(m)
      \/ UNCHANGED <<started, active, answers, asked, pipe, signalled, released, Mcp!promise, broken>>
  BY DEF Mcp!Handle
<1>6. answers \in Answers /\ asked \subseteq 0 .. MaxSteps /\ Len(answers) \in Nat
  BY DEF CallInv, Mcp!TypeOK
<1> HIDE DEF m, Answers
<1>7. CASE Mcp!Greets(m) /\ Mcp!Greeted
  <2>1. /\ ~started /\ m.kind = "answer" /\ m.id = 0 /\ started' = TRUE /\ answers' = answers
        /\ active = 0
    BY <1>7 DEF Mcp!Greets, Mcp!Greeted, CallInv, OneAtATime
  <2>2. asked = {}
    <3>1. \A k \in asked : k = 0
      BY <2>1 DEF CallInv, OneAtATime
    <3>2. 0 \notin asked
      BY <1>3, <2>1 DEF Fresh
    <3> QED
      BY <3>1, <3>2
  <2>3. \A n : Fresh(n) /\ n.kind = "answer" /\ n.inTurn => n.id =< active
    BY <2>1 DEF Fresh
  <2>4. CASE answers = <<>>
    <3>1. Mcp!Writes(1)
      BY <1>7, <2>4 DEF Mcp!Greeted
    <3>2. 1 \in 1 .. Mcp!Steps /\ 1 = active + 1 /\ Len(answers') = 1 - 1 /\ Len(answers') = 0
      BY <1>4, <2>1, <2>4
    <3>3. answers' \in Seq([id : 1 .. MaxSteps, reply : Mcp!Replies, inTurn : BOOLEAN])
      BY <1>6, <2>1 DEF Answers
    <3> QED
      BY <1>1, <1>2, <1>4, <2>1, <2>2, <2>3, <3>1, <3>2, <3>3, GoesOn
  <2>5. CASE answers # <<>>
    <3>1. /\ active' = 0 /\ Mcp!Frees /\ Mcp!Resolves /\ asked' \subseteq {1} /\ broken' = broken
      BY <1>7, <2>2, <2>5 DEF Mcp!Greeted
    <3>2. /\ 1 \in 1 .. Len(answers') /\ ~answers'[1].inTurn /\ answers' # <<>>
          /\ answers' \in Seq([id : 1 .. MaxSteps, reply : Mcp!Replies, inTurn : BOOLEAN])
      BY <1>6, <2>1, <2>5 DEF CallInv, OneAtATime, Answers
    <3>3. /\ call.kind = "call" => Len(answers') =< 1
          /\ \A k \in 1 .. Len(answers') : answers'[k].id = k
      BY <2>1 DEF CallInv, OneAtATime
    <3>4. asked' \subseteq 0 .. MaxSteps
      BY <1>4, <3>1
    <3>5. \A k \in asked' \ {0} : /\ Len(answers') >= k - 1
                                  /\ \A l \in 1 .. k - 1 : ~Mcp!Fails(answers'[l].reply)
      BY <1>6, <2>1, <3>1
    <3>6. ASSUME NEW n \in Mcp!Messages, Fresh(n), n.kind = "answer", n.inTurn
          PROVE  n.id \notin asked'
      <4>1. n.id \in 0 .. MaxSteps /\ n.id =< 0
        BY <2>1, <2>3, <3>6 DEF Mcp!Messages
      <4>2. n.id = 0
        BY <1>4, <4>1
      <4> QED
        BY <3>1, <4>2
    <3> QED
      BY <1>1, <1>2, <1>4, <2>1, <3>1, <3>2, <3>3, <3>4, <3>5, <3>6, Ends
  <2> QED
    BY <2>4, <2>5
<1>8. CASE Mcp!Expected(m) /\ Mcp!Accepts(m)
  <2> DEFINE a == [id |-> m.id, reply |-> m.reply, inTurn |-> m.inTurn]
  <2>1. /\ m.kind = "answer" /\ m.id \in 0 .. MaxSteps /\ m.reply \in Mcp!Replies
        /\ m.inTurn \in BOOLEAN
    BY <1>2, <1>8 DEF Mcp!Expected, Mcp!Messages
  <2>2. /\ m.id = Len(answers) + 1
        /\ \A k \in 1 .. Len(answers) : answers[k].id = k /\ ~Mcp!Fails(answers[k].reply)
        /\ call.kind # "call" => started
        /\ call.kind = "call" => Len(answers) = 0
        /\ started => active # 0 /\ m.id = active
    <3>1. CASE call.kind = "call"
      <4>1. m.id = 1 /\ answers = <<>> /\ Len(answers) = 0
        BY <1>8, <3>1 DEF Mcp!Expected
      <4>2. started => active # 0 /\ Len(answers) = active - 1
        BY <4>1 DEF CallInv, OneAtATime
      <4> QED
        BY <1>4, <3>1, <4>1, <4>2
    <3>2. CASE call.kind # "call"
      <4>1. active # 0 /\ m.id = active
        BY <1>8, <3>2 DEF Mcp!Expected
      <4>2. /\ started /\ Len(answers) = active - 1
            /\ \A k \in 1 .. Len(answers) : answers[k].id = k /\ ~Mcp!Fails(answers[k].reply)
        BY <4>1 DEF CallInv, OneAtATime
      <4> QED
        BY <1>4, <3>2, <4>1, <4>2
    <3> QED
      BY <3>1, <3>2
  <2>3. a \in [id : 1 .. MaxSteps, reply : Mcp!Replies, inTurn : BOOLEAN]
        /\ a.id = m.id /\ a.reply = m.reply /\ a.inTurn = m.inTurn
    BY <1>6, <2>1, <2>2
  <2>4. answers' = Append(answers, a) /\ started' = started
    BY <1>8 DEF Mcp!Accepts
  <2> HIDE DEF a
  <2>5. /\ answers' \in Seq([id : 1 .. MaxSteps, reply : Mcp!Replies, inTurn : BOOLEAN])
        /\ Len(answers') = Len(answers) + 1 /\ answers' # <<>>
        /\ \A k \in 1 .. Len(answers) : answers'[k] = answers[k]
        /\ answers'[Len(answers) + 1] = a
    BY <1>6, <2>3, <2>4 DEF Answers
  <2>6. /\ \A k \in 1 .. Len(answers') : k = m.id \/ k \in 1 .. Len(answers)
        /\ 1 .. Len(answers) \subseteq 1 .. Len(answers') /\ m.id \in 1 .. Len(answers')
    BY <1>6, <2>2, <2>5
  <2>7. /\ \A k \in 1 .. Len(answers') : answers'[k].id = k
        /\ call.kind = "call" => Len(answers') =< 1
    BY <2>2, <2>3, <2>5, <2>6
  <2>8. ASSUME NEW k \in asked \ {0}
        PROVE  /\ Len(answers) >= k - 1 /\ Len(answers') >= k - 1 /\ k \in Nat
               /\ \A l \in 1 .. k - 1 : ~Mcp!Fails(answers'[l].reply)
    <3>1. k \in Nat /\ Len(answers) >= k - 1
      BY <1>6 DEF CallInv, OneAtATime
    <3>2. \A l \in 1 .. k - 1 : l \in 1 .. Len(answers)
      BY <1>6, <3>1
    <3> QED
      BY <1>6, <2>2, <2>5, <3>1, <3>2
  <2>9. ASSUME started, \A k \in 1 .. Len(answers') : answers'[k].inTurn PROVE asked = {}
    <3>1. \A k \in 1 .. Len(answers) : answers[k].inTurn
      BY <2>5, <2>6, <2>9
    <3>2. asked \subseteq {active}
      BY <3>1 DEF CallInv, OneAtATime
    <3>3. m.inTurn
      BY <2>2, <2>3, <2>5, <2>6, <2>9
    <3>4. m.id \notin asked /\ m.id = active
      BY <1>3, <2>1, <2>2, <2>9, <3>3 DEF Fresh
    <3> QED
      BY <3>2, <3>4
  <2>10. CASE call.kind = "call" /\ ~started
    <3>1. UNCHANGED <<active, asked, pipe, signalled, released, Mcp!promise, broken>>
      BY <1>8, <2>10 DEF Mcp!Accepts
    <3>2. ~m.inTurn /\ m.id = 1 /\ active = 0
      <4>1. active = 0 /\ m.id = 1
        BY <1>8, <2>10 DEF CallInv, OneAtATime, Mcp!Expected
      <4> QED
        BY <1>3, <2>1, <2>10, <4>1 DEF Fresh
    <3>3. Mcp!TypeOK'
      BY <1>1, <1>2, <1>4, <2>4, <2>5, <3>1 DEF CallInv, Mcp!TypeOK
    <3>4. OneAtATime'
      <4>1. ~answers'[1].inTurn /\ 1 \in 1 .. Len(answers')
        BY <2>2, <2>3, <2>5, <2>6, <3>2
      <4>2. \A k \in asked : k = 0
        BY <2>10 DEF CallInv, OneAtATime
      <4> QED
        BY <1>1, <1>4, <2>4, <2>7, <2>10, <3>1, <3>2, <4>1, <4>2 DEF OneAtATime
    <3>5. InFlight'
      <4>1. \A n : Fresh(n)' <=> Fresh(n)
        BY <2>4, <3>1 DEF Fresh
      <4> QED
        BY <1>2, <3>1, <4>1 DEF CallInv, InFlight
    <3>6. Told' /\ Checked' /\ Phased'
      BY <1>1, <1>4, <2>4, <3>1 DEF CallInv, Told, Checked, Phased, Mcp!MayGo
    <3>7. Mcp!OutcomeIsRecorded' /\ LinesTrue'
      BY <1>1, <1>4, <2>5 DEF Mcp!OutcomeIsRecorded, LinesTrue, Mcp!Due
    <3> QED
      BY <3>3, <3>4, <3>5, <3>6, <3>7 DEF CallInv
  <2>11. CASE started /\ (Mcp!Fails(m.reply) \/ active = Mcp!Steps)
    <3>1. active' = 0 /\ Mcp!Frees /\ Mcp!Resolves /\ asked' = asked /\ broken' = broken
      BY <1>8, <2>11 DEF Mcp!Accepts, Mcp!Finishes
    <3>2. asked' \subseteq 0 .. MaxSteps
      BY <1>6, <3>1
    <3>3. \A k \in asked' \ {0} : /\ Len(answers') >= k - 1
                                  /\ \A l \in 1 .. k - 1 : ~Mcp!Fails(answers'[l].reply)
      BY <2>8, <3>1
    <3>4. (\A k \in 1 .. Len(answers') : answers'[k].inTurn) => asked' = {}
      BY <2>9, <2>11, <3>1
    <3>5. \A n \in Mcp!Messages :
              Fresh(n) /\ n.kind = "answer" /\ n.inTurn => n.id \notin asked'
      BY <3>1 DEF Fresh
    <3>6. started' = TRUE
      BY <2>4, <2>11 DEF CallInv, Mcp!TypeOK
    <3> QED
      BY <1>1, <1>2, <1>4, <2>5, <2>7, <3>1, <3>2, <3>3, <3>4, <3>5, <3>6, Ends
  <2>12. CASE started /\ ~Mcp!Fails(m.reply) /\ active # Mcp!Steps
    <3> DEFINE i == active + 1
    <3>1. Mcp!Writes(i)
      BY <1>8, <2>12 DEF Mcp!Accepts
    <3>2. i \in 1 .. Mcp!Steps /\ i = active + 1 /\ Len(answers') = i - 1 /\ started' = TRUE
      BY <1>4, <1>6, <2>2, <2>4, <2>5, <2>12 DEF CallInv, Mcp!TypeOK
    <3>3. \A k \in 1 .. Len(answers') : answers'[k].id = k /\ ~Mcp!Fails(answers'[k].reply)
      BY <2>2, <2>3, <2>5, <2>6, <2>7, <2>12
    <3>4. \A k \in asked \ {0} : k =< i
      BY <1>4, <1>6, <2>2, <2>8, <2>12
    <3>5. \A n : Fresh(n) /\ n.kind = "answer" /\ n.inTurn => n.id =< active
      BY <2>2, <2>12 DEF Fresh
    <3>6. (\A k \in 1 .. Len(answers') : answers'[k].inTurn) => asked = {}
      BY <2>9, <2>12
    <3> HIDE DEF i
    <3> QED
      BY <1>1, <1>2, <1>4, <2>5, <2>7, <3>1, <3>2, <3>3, <3>4, <3>5, <3>6, GoesOn
  <2> QED
    BY <2>2, <2>10, <2>11, <2>12
<1>9. CASE UNCHANGED <<started, active, answers, asked, pipe, signalled, released, Mcp!promise, broken>>
  <2>1. Mcp!TypeOK'
    BY <1>1, <1>2, <1>4, <1>9 DEF CallInv, Mcp!TypeOK
  <2>2. OneAtATime' /\ Told' /\ Checked' /\ Phased'
    BY <1>1, <1>4, <1>9 DEF CallInv, OneAtATime, Told, Checked, Phased, Mcp!MayGo
  <2>3. InFlight'
    <3>1. \A n : Fresh(n)' <=> Fresh(n)
      BY <1>9 DEF Fresh
    <3> QED
      BY <1>2, <1>9, <3>1 DEF CallInv, InFlight
  <2>4. Mcp!OutcomeIsRecorded' /\ LinesTrue'
    BY <1>1, <1>4, <1>6, <1>9 DEF Mcp!OutcomeIsRecorded, LinesTrue, Mcp!Due
  <2> QED
    BY <2>1, <2>2, <2>3, <2>4 DEF CallInv
<1> QED
  BY <1>5, <1>7, <1>8, <1>9

\* The timeout ends the server and arms the fallback.
LEMMA CallTimeoutStep == ASSUME CallBounds, CallInv, Mcp!Timeout PROVE CallInv'
<1>1. Mcp!TypeOK'
  BY CallFacts DEF Mcp!Timeout, Mcp!Turn, Mcp!Frees, CallInv, Mcp!TypeOK, Mcp!Steps, Mcp!Phases,
         Mcp!Outcomes
<1>2. Checked'
  BY CallFacts DEF Mcp!Timeout, Mcp!Turn, Mcp!Frees, CallInv, Checked, Mcp!MayGo, Mcp!Steps
<1>3. OneAtATime'
  BY DEF Mcp!Timeout, Mcp!Turn, Mcp!Frees, CallInv, OneAtATime, Mcp!Fails, Phased
<1>4. InFlight'
  BY DEF Mcp!Timeout, Mcp!Turn, Mcp!Frees, CallInv, InFlight, Fresh, Phased
<1>5. Phased'
  BY DEF Mcp!Timeout, Mcp!Turn, Mcp!Frees, CallInv, Phased
<1>6. Told'
  BY DEF Mcp!Timeout, Mcp!Turn, Mcp!Frees, CallInv, Told, Phased
<1>7. Mcp!OutcomeIsRecorded'
  BY DEF Mcp!Timeout, Mcp!Turn, Mcp!Frees, CallInv, Mcp!OutcomeIsRecorded, Mcp!Steps, Mcp!Fails,
         Phased
<1>8. LinesTrue'
  BY DEF Mcp!Timeout, Mcp!Turn, Mcp!Frees, CallInv,
         LinesTrue, Phased, Mcp!Due, Mcp!Status
<1> QED
  BY <1>1, <1>2, <1>3, <1>4, <1>5, <1>6, <1>7, <1>8 DEF CallInv

\* The fallback comes after the signal.
LEMMA KillFallbackStep == ASSUME CallBounds, CallInv, Mcp!KillFallback PROVE CallInv'
<1>1. Mcp!TypeOK'
  BY DEF Mcp!KillFallback, Mcp!Resolves, CallInv, Mcp!TypeOK, Mcp!Steps
<1>2. Checked'
  BY CallFacts DEF Mcp!KillFallback, Mcp!Turn, Mcp!Resolves, CallInv, Checked, Mcp!MayGo, Mcp!Steps
<1>3. OneAtATime'
  BY DEF Mcp!KillFallback, Mcp!Turn, Mcp!Resolves, CallInv, OneAtATime, Mcp!Fails, Phased
<1>4. InFlight'
  BY DEF Mcp!KillFallback, Mcp!Turn, Mcp!Resolves, CallInv, InFlight, Fresh, Phased
<1>5. Phased'
  BY DEF Mcp!KillFallback, Mcp!Turn, Mcp!Resolves, CallInv, Phased
<1>6. Told'
  BY DEF Mcp!KillFallback, Mcp!Turn, Mcp!Resolves, CallInv, Told, Phased
<1>7. Mcp!OutcomeIsRecorded'
  BY DEF Mcp!KillFallback, Mcp!Turn, Mcp!Resolves, CallInv, Mcp!OutcomeIsRecorded, Mcp!Steps,
         Mcp!Fails, Phased
<1>8. LinesTrue'
  BY DEF Mcp!KillFallback, Mcp!Turn, Mcp!Resolves, CallInv,
         LinesTrue, Phased, Mcp!Due, Mcp!Status
<1> QED
  BY <1>1, <1>2, <1>3, <1>4, <1>5, <1>6, <1>7, <1>8 DEF CallInv

\* The server is gone.
LEMMA CloseStep == ASSUME CallBounds, CallInv, Mcp!Close PROVE CallInv'
<1>1. Mcp!TypeOK'
  BY DEF Mcp!Close, Mcp!Resolves, CallInv, Mcp!TypeOK, Mcp!Steps
<1>2. Checked'
  BY CallFacts DEF Mcp!Close, Mcp!Turn, Mcp!Resolves, CallInv, Checked, Mcp!MayGo, Mcp!Steps
<1>3. OneAtATime'
  BY DEF Mcp!Close, Mcp!Turn, Mcp!Resolves, CallInv, OneAtATime, Mcp!Fails, Phased
<1>4. InFlight'
  BY DEF Mcp!Close, Mcp!Turn, Mcp!Resolves, CallInv, InFlight, Fresh, Phased
<1>5. Phased'
  BY DEF Mcp!Close, Mcp!Turn, Mcp!Resolves, CallInv, Phased
<1>6. Told'
  BY DEF Mcp!Close, Mcp!Turn, Mcp!Resolves, CallInv, Told, Phased
<1>7. Mcp!OutcomeIsRecorded'
  BY DEF Mcp!Close, Mcp!Turn, Mcp!Resolves, CallInv, Mcp!OutcomeIsRecorded, Mcp!Steps, Mcp!Fails,
         Phased
<1>8. LinesTrue'
  BY DEF Mcp!Close, Mcp!Turn, Mcp!Resolves, CallInv,
         LinesTrue, Phased, Mcp!Due, Mcp!Status
<1> QED
  BY <1>1, <1>2, <1>3, <1>4, <1>5, <1>6, <1>7, <1>8 DEF CallInv

\* The process ends without a report.
LEMMA DrainStep == ASSUME CallBounds, CallInv, Mcp!Drain PROVE CallInv'
<1>1. Mcp!TypeOK'
  BY CallFacts DEF Mcp!Drain, Mcp!Turn, CallInv, Mcp!TypeOK, Mcp!Steps, Mcp!Phases, Mcp!Outcomes
<1>2. Checked'
  BY CallFacts DEF Mcp!Drain, Mcp!Turn, CallInv, Checked, Mcp!MayGo, Mcp!Steps
<1>3. OneAtATime'
  BY DEF Mcp!Drain, Mcp!Turn, CallInv, OneAtATime, Mcp!Fails, Phased
<1>4. InFlight'
  BY DEF Mcp!Drain, Mcp!Turn, CallInv, InFlight, Fresh, Phased
<1>5. Phased'
  BY DEF Mcp!Drain, Mcp!Turn, CallInv, Phased
<1>6. Told'
  BY DEF Mcp!Drain, Mcp!Turn, CallInv, Told, Phased
<1>7. Mcp!OutcomeIsRecorded'
  BY DEF Mcp!Drain, Mcp!Turn, CallInv, Mcp!OutcomeIsRecorded, Mcp!Steps, Mcp!Fails, Phased
<1>8. LinesTrue'
  BY DEF Mcp!Drain, Mcp!Turn, CallInv,
         LinesTrue, Phased, Mcp!Due, Mcp!Status
<1> QED
  BY <1>1, <1>2, <1>3, <1>4, <1>5, <1>6, <1>7, <1>8 DEF CallInv

\* So does one that wrote to a dead server.
LEMMA UncaughtStep == ASSUME CallBounds, CallInv, Mcp!Uncaught PROVE CallInv'
<1>1. Mcp!TypeOK'
  BY CallFacts DEF Mcp!Uncaught, Mcp!Turn, CallInv, Mcp!TypeOK, Mcp!Steps, Mcp!Phases, Mcp!Outcomes
<1>2. Checked'
  BY CallFacts DEF Mcp!Uncaught, Mcp!Turn, CallInv, Checked, Mcp!MayGo, Mcp!Steps
<1>3. OneAtATime'
  BY DEF Mcp!Uncaught, Mcp!Turn, CallInv, OneAtATime, Mcp!Fails, Phased
<1>4. InFlight'
  BY DEF Mcp!Uncaught, Mcp!Turn, CallInv, InFlight, Fresh, Phased
<1>5. Phased'
  BY DEF Mcp!Uncaught, Mcp!Turn, CallInv, Phased
<1>6. Told'
  BY DEF Mcp!Uncaught, Mcp!Turn, CallInv, Told, Phased
<1>7. Mcp!OutcomeIsRecorded'
  BY DEF Mcp!Uncaught, Mcp!Turn, CallInv, Mcp!OutcomeIsRecorded, Mcp!Steps, Mcp!Fails, Phased
<1>8. LinesTrue'
  BY DEF Mcp!Uncaught, Mcp!Turn, CallInv,
         LinesTrue, Phased, Mcp!Due, Mcp!Status
<1> QED
  BY <1>1, <1>2, <1>3, <1>4, <1>5, <1>6, <1>7, <1>8 DEF CallInv

\* The evidence comes first,
LEMMA WriteEvidenceStep == ASSUME CallBounds, CallInv, Mcp!WriteEvidence PROVE CallInv'
<1>1. Mcp!TypeOK'
  BY CallFacts DEF Mcp!WriteEvidence, Mcp!Reporting, CallInv, Mcp!TypeOK, Mcp!Steps, Mcp!Phases,
         Mcp!Outcomes
<1>2. Checked'
  BY CallFacts DEF Mcp!WriteEvidence, Mcp!Reporting, CallInv, Checked, Mcp!MayGo, Mcp!Steps
<1>3. OneAtATime'
  BY DEF Mcp!WriteEvidence, Mcp!Reporting, CallInv, OneAtATime, Mcp!Fails, Phased
<1>4. InFlight'
  BY DEF Mcp!WriteEvidence, Mcp!Reporting, CallInv, InFlight, Fresh, Phased
<1>5. Phased'
  BY DEF Mcp!WriteEvidence, Mcp!Reporting, CallInv, Phased
<1>6. Told'
  BY DEF Mcp!WriteEvidence, Mcp!Reporting, CallInv, Told, Phased
<1>7. Mcp!OutcomeIsRecorded'
  BY DEF Mcp!WriteEvidence, Mcp!Reporting, CallInv, Mcp!OutcomeIsRecorded, Mcp!Steps, Mcp!Fails,
         Phased
<1>8. LinesTrue'
  BY DEF Mcp!WriteEvidence, Mcp!Reporting, CallInv,
         LinesTrue, Phased, Mcp!Due, Mcp!Status
<1> QED
  BY <1>1, <1>2, <1>3, <1>4, <1>5, <1>6, <1>7, <1>8 DEF CallInv

\* then the audit line,
LEMMA WriteAuditStep == ASSUME CallBounds, CallInv, Mcp!WriteAudit PROVE CallInv'
<1>1. Mcp!TypeOK'
  <2>1. lines \in Seq({"completed", "error", "blocked"})
        /\ Mcp!Status(Len(lines) + 1) \in {"completed", "error", "blocked"}
    BY DEF CallInv, Mcp!TypeOK, Mcp!Status
  <2>2. lines' \in Seq({"completed", "error", "blocked"})
    BY <2>1 DEF Mcp!WriteAudit
  <2> QED
    BY <2>2 DEF Mcp!WriteAudit, Mcp!Reporting, CallInv, Mcp!TypeOK, Mcp!Steps, Mcp!Phases
<1>2. Checked'
  BY CallFacts DEF Mcp!WriteAudit, Mcp!Reporting, CallInv, Checked, Mcp!MayGo, Mcp!Steps
<1>3. OneAtATime'
  BY DEF Mcp!WriteAudit, Mcp!Reporting, CallInv, OneAtATime, Mcp!Fails, Phased
<1>4. InFlight'
  BY DEF Mcp!WriteAudit, Mcp!Reporting, CallInv, InFlight, Fresh, Phased
<1>5. Phased'
  BY DEF Mcp!WriteAudit, Mcp!Reporting, CallInv, Phased
<1>6. Told'
  BY DEF Mcp!WriteAudit, Mcp!Reporting, CallInv, Told, Phased
<1>7. Mcp!OutcomeIsRecorded'
  BY DEF Mcp!WriteAudit, Mcp!Reporting, CallInv, Mcp!OutcomeIsRecorded, Mcp!Steps, Mcp!Fails, Phased
<1>8. LinesTrue'
  <2>1. /\ phase = "audit" /\ phase' = "audit" /\ Len(lines) < Mcp!Due
        /\ lines' = Append(lines, Mcp!Status(Len(lines) + 1))
        /\ Mcp!Due' = Mcp!Due /\ \A i : Mcp!Status(i)' = Mcp!Status(i)
    BY DEF Mcp!WriteAudit, Mcp!Reporting, Mcp!Due, Mcp!Status
  <2>2. lines \in Seq({"completed", "error", "blocked"}) /\ Mcp!Due \in Nat
    BY DEF CallInv, Mcp!TypeOK, Mcp!Due
  <2>3. /\ Len(lines') = Len(lines) + 1 /\ Len(lines') =< Mcp!Due
        /\ \A i \in 1 .. Len(lines) : lines'[i] = lines[i]
        /\ lines'[Len(lines) + 1] = Mcp!Status(Len(lines) + 1)
    BY <2>1, <2>2
  <2>4. \A i \in 1 .. Len(lines') : i = Len(lines) + 1 \/ i \in 1 .. Len(lines)
    BY <2>2, <2>3
  <2>5. \A i \in 1 .. Len(lines') : lines'[i] = Mcp!Status(i)'
    BY <2>1, <2>3, <2>4 DEF CallInv, LinesTrue
  <2> QED
    BY <2>1, <2>3, <2>5 DEF LinesTrue
<1> QED
  BY <1>1, <1>2, <1>3, <1>4, <1>5, <1>6, <1>7, <1>8 DEF CallInv

\* then the timeline,
LEMMA WriteTimelineStep == ASSUME CallBounds, CallInv, Mcp!WriteTimeline PROVE CallInv'
<1>1. Mcp!TypeOK'
  BY CallFacts DEF Mcp!WriteTimeline, Mcp!Reporting, CallInv, Mcp!TypeOK, Mcp!Steps, Mcp!Phases,
         Mcp!Outcomes
<1>2. Checked'
  BY CallFacts DEF Mcp!WriteTimeline, Mcp!Reporting, CallInv, Checked, Mcp!MayGo, Mcp!Steps
<1>3. OneAtATime'
  BY DEF Mcp!WriteTimeline, Mcp!Reporting, CallInv, OneAtATime, Mcp!Fails, Phased
<1>4. InFlight'
  BY DEF Mcp!WriteTimeline, Mcp!Reporting, CallInv, InFlight, Fresh, Phased
<1>5. Phased'
  BY DEF Mcp!WriteTimeline, Mcp!Reporting, CallInv, Phased
<1>6. Told'
  BY DEF Mcp!WriteTimeline, Mcp!Reporting, CallInv, Told, Phased
<1>7. Mcp!OutcomeIsRecorded'
  BY DEF Mcp!WriteTimeline, Mcp!Reporting, CallInv, Mcp!OutcomeIsRecorded, Mcp!Steps, Mcp!Fails,
         Phased
<1>8. LinesTrue'
  BY DEF Mcp!WriteTimeline, Mcp!Reporting, CallInv,
         LinesTrue, Phased, Mcp!Due, Mcp!Status
<1> QED
  BY <1>1, <1>2, <1>3, <1>4, <1>5, <1>6, <1>7, <1>8 DEF CallInv

\* unless the store throws;
LEMMA ThrowStep == ASSUME CallBounds, CallInv, Mcp!Throw PROVE CallInv'
<1>1. Mcp!TypeOK'
  BY CallFacts DEF Mcp!Throw, Mcp!Reporting, CallInv, Mcp!TypeOK, Mcp!Steps, Mcp!Phases,
         Mcp!Outcomes
<1>2. Checked'
  BY CallFacts DEF Mcp!Throw, Mcp!Reporting, CallInv, Checked, Mcp!MayGo, Mcp!Steps
<1>3. OneAtATime'
  BY DEF Mcp!Throw, Mcp!Reporting, CallInv, OneAtATime, Mcp!Fails, Phased
<1>4. InFlight'
  BY DEF Mcp!Throw, Mcp!Reporting, CallInv, InFlight, Fresh, Phased
<1>5. Phased'
  BY DEF Mcp!Throw, Mcp!Reporting, CallInv, Phased
<1>6. Told'
  BY DEF Mcp!Throw, Mcp!Reporting, CallInv, Told, Phased
<1>7. Mcp!OutcomeIsRecorded'
  BY DEF Mcp!Throw, Mcp!Reporting, CallInv, Mcp!OutcomeIsRecorded, Mcp!Steps, Mcp!Fails, Phased
<1>8. LinesTrue'
  BY DEF Mcp!Throw, Mcp!Reporting, CallInv,
         LinesTrue, Phased, Mcp!Due, Mcp!Status
<1> QED
  BY <1>1, <1>2, <1>3, <1>4, <1>5, <1>6, <1>7, <1>8 DEF CallInv

\* and the outcome is that of the answers.
LEMMA CallConcludeStep == ASSUME CallBounds, CallInv, Mcp!Conclude PROVE CallInv'
<1>1. Mcp!TypeOK'
  BY CallFacts DEF Mcp!Conclude, Mcp!Reporting, Mcp!Verdict, Mcp!Failed, CallInv, Mcp!TypeOK,
         Mcp!Steps, Mcp!Phases, Mcp!Outcomes
<1>2. Checked'
  BY CallFacts DEF Mcp!Conclude, Mcp!Reporting, Mcp!Verdict, Mcp!Failed, CallInv, Checked,
         Mcp!MayGo, Mcp!Steps
<1>3. OneAtATime'
  BY DEF Mcp!Conclude, Mcp!Reporting, Mcp!Verdict, Mcp!Failed, CallInv, OneAtATime, Mcp!Fails,
         Phased
<1>4. InFlight'
  BY DEF Mcp!Conclude, Mcp!Reporting, Mcp!Verdict, Mcp!Failed, CallInv, InFlight, Fresh, Phased
<1>5. Phased'
  BY DEF Mcp!Conclude, Mcp!Reporting, Mcp!Verdict, Mcp!Failed, CallInv, Phased
<1>6. Told'
  BY DEF Mcp!Conclude, Mcp!Reporting, Mcp!Verdict, Mcp!Failed, CallInv, Told, Phased
<1>7. Mcp!OutcomeIsRecorded'
  <2>1. /\ outcome' = Mcp!Verdict /\ phase = "verdict"
        /\ UNCHANGED <<call, started, answers, timedOut, failure, records, lines>>
        /\ Mcp!Steps' = Mcp!Steps /\ \A reply : Mcp!Fails(reply)' <=> Mcp!Fails(reply)
    BY DEF Mcp!Conclude, Mcp!Reporting, Mcp!Steps, Mcp!Fails
  <2>2. /\ "evidence" \in records /\ Len(lines) = Mcp!Due
        /\ \A i \in 1 .. Len(lines) : lines[i] = Mcp!Status(i)
    BY <2>1 DEF CallInv, Phased, LinesTrue
  <2>3. /\ lines \in Seq({"completed", "error", "blocked"}) /\ Mcp!Steps \in Nat \ {0}
        /\ answers \in Seq([id : 1 .. MaxSteps, reply : Mcp!Replies, inTurn : BOOLEAN])
        /\ call \in Mcp!Calls
    BY CallFacts DEF CallInv, Mcp!TypeOK
  <2>4. call.kind = "call" => Mcp!Steps = 1 /\ Mcp!Due = 1 /\ Len(answers) =< 1
    <3> SUFFICES ASSUME call.kind = "call"
                 PROVE  Mcp!Steps = 1 /\ Mcp!Due = 1 /\ Len(answers) =< 1
      OBVIOUS
    <3>1. call.gates \in [1 .. 1 -> Mcp!Gates]
      BY <2>3 DEF Mcp!Calls
    <3>2. Len(call.gates) = 1
      BY <3>1
    <3> QED
      BY <3>2 DEF Mcp!Steps, Mcp!Due, CallInv, OneAtATime
  <2>5. call.kind # "call" => call.kind = "session" /\ Mcp!Due = Len(answers)
    BY <2>3 DEF Mcp!Calls, Mcp!Due
  <2>6. lines # <<>> \/ (call.kind = "session" /\ answers = <<>>)
    BY <2>2, <2>3, <2>4, <2>5
  <2>7. ASSUME Mcp!Verdict = "completed"
        PROVE  /\ Len(answers) = Mcp!Steps /\ Len(lines) = Mcp!Steps /\ ~timedOut /\ ~failure
               /\ \A i \in 1 .. Mcp!Steps : /\ answers[i].reply # "astray"
                                            /\ ~Mcp!Fails(answers[i].reply)
                                            /\ lines[i] = "completed"
               /\ started \/ (call.kind = "call" /\ ~answers[1].inTurn)
    <3>1. /\ ~timedOut /\ ~failure /\ ~Mcp!Failed /\ Len(answers) = Mcp!Steps
          /\ \A i \in 1 .. Len(answers) : answers[i].reply # "astray"
      BY <2>7 DEF Mcp!Verdict
    <3>2. Len(lines) = Mcp!Steps
      BY <2>2, <2>4, <2>5, <3>1
    <3>3. ASSUME NEW i \in 1 .. Mcp!Steps
          PROVE  ~Mcp!Fails(answers[i].reply) /\ lines[i] = "completed"
      <4>1. ~Mcp!Fails(answers[i].reply)
        BY <3>1 DEF Mcp!Failed
      <4>2. answers[i].reply # "error" /\ ~(i > Len(answers)) /\ answers[i].reply # "astray"
        BY <2>3, <3>1, <4>1 DEF Mcp!Fails
      <4>3. Mcp!Status(i) = "completed"
        BY <4>2 DEF Mcp!Status
      <4> QED
        BY <2>2, <3>2, <4>1, <4>3
    <3>4. answers # <<>>
      BY <2>3, <3>1
    <3> QED
      BY <3>1, <3>2, <3>3, <3>4 DEF CallInv, OneAtATime
  <2>8. ASSUME Mcp!Verdict = "failed"
        PROVE  \/ \E i \in 1 .. Len(lines) : lines[i] = "error"
               \/ call.kind = "session" /\ \E i \in 1 .. Len(answers) : answers[i].reply = "toolError"
    <3>1. Mcp!Failed
      BY <2>8 DEF Mcp!Verdict
    <3>2. CASE call.kind = "call" /\ answers = <<>>
      <4>1. 1 > Len(answers) /\ 1 \in 1 .. Len(lines)
        BY <2>2, <2>4, <3>2
      <4>2. lines[1] = "error"
        BY <2>2, <4>1 DEF Mcp!Status
      <4> QED
        BY <4>1, <4>2
    <3>3. ASSUME NEW i \in 1 .. Len(answers), Mcp!Fails(answers[i].reply), answers[i].reply = "error"
          PROVE  lines[i] = "error" /\ i \in 1 .. Len(lines)
      <4>1. i \in 1 .. Len(lines)
        BY <2>2, <2>3, <2>4, <2>5
      <4> QED
        BY <2>2, <3>3, <4>1 DEF Mcp!Status
    <3> QED
      BY <3>1, <3>2, <3>3 DEF Mcp!Failed, Mcp!Fails
  <2> QED
    BY <2>1, <2>2, <2>6, <2>7, <2>8 DEF Mcp!OutcomeIsRecorded
<1>8. LinesTrue'
  BY DEF Mcp!Conclude, Mcp!Reporting, Mcp!Verdict, Mcp!Failed, CallInv,
         LinesTrue, Phased, Mcp!Due, Mcp!Status
<1> QED
  BY <1>1, <1>2, <1>3, <1>4, <1>5, <1>6, <1>7, <1>8 DEF CallInv

---------------------------------------------------------------------------
\* Nothing has been started, asked or recorded.
LEMMA CallStart == ASSUME CallBounds, Mcp!Init PROVE CallInv
<1>1. Mcp!TypeOK
  <2>1. call \in Mcp!Calls /\ Mcp!Steps \in 1 .. MaxSteps
    BY CallFacts DEF Mcp!Init
  <2>2. 0 \in 0 .. MaxSteps /\ 0 \in 0 .. MaxNoise /\ 0 \in 0 .. MaxFaults /\ 0 \in 0 .. Mcp!Steps
    BY <2>1 DEF CallBounds
  <2>3. asked \subseteq 0 .. MaxSteps /\ pipe \in Seq(Mcp!Messages) /\ inbox \in Seq(Mcp!Messages)
        /\ answers \in Seq([id : 1 .. MaxSteps, reply : Mcp!Replies, inTurn : BOOLEAN])
        /\ lines \in Seq({"completed", "error", "blocked"})
    BY DEF Mcp!Init
  <2> QED
    BY <2>1, <2>2, <2>3 DEF Mcp!Init, Mcp!TypeOK, Mcp!Phases, Mcp!Outcomes
<1>2. Checked /\ OneAtATime
  BY CallFacts DEF Mcp!Init, Checked, OneAtATime
<1>4. LinesTrue
  BY DEF Mcp!Init, LinesTrue, Mcp!Due
<1>3. InFlight /\ Phased /\ Told /\ Mcp!OutcomeIsRecorded
  BY DEF Mcp!Init, InFlight, Phased, Told, Mcp!OutcomeIsRecorded
<1> QED
  BY <1>1, <1>2, <1>3, <1>4 DEF CallInv

\* Every callback and every step of the server keeps the invariant.
LEMMA CallStep == ASSUME CallBounds, CallInv, [Mcp!Next]_(Mcp!vars) PROVE CallInv'
<1>1. CASE UNCHANGED Mcp!vars
  <2>1. Mcp!TypeOK' /\ Phased' /\ Told'
    BY <1>1 DEF Mcp!vars, CallInv, Mcp!TypeOK, Mcp!Steps, Phased, Told
  <2>2. Checked' /\ OneAtATime'
    BY <1>1 DEF Mcp!vars, CallInv, Checked, Mcp!MayGo, Mcp!Steps, OneAtATime, Mcp!Fails
  <2>3. InFlight' /\ Mcp!OutcomeIsRecorded'
    BY <1>1 DEF Mcp!vars, CallInv, InFlight, Fresh, Mcp!OutcomeIsRecorded, Mcp!Steps, Mcp!Fails
  <2>4. LinesTrue'
    BY <1>1 DEF Mcp!vars, CallInv, LinesTrue, Mcp!Due, Mcp!Status
  <2> QED
    BY <2>1, <2>2, <2>3, <2>4 DEF CallInv
<1>2. CASE Mcp!Next
  BY <1>2, PrepareStep, CallSpawnStep, SpawnErrorStep, AnswerStep, NoiseStep, DieStep, DataStep,
     HandleStep, CallTimeoutStep, KillFallbackStep, CloseStep, DrainStep, UncaughtStep,
     WriteEvidenceStep, WriteAuditStep, WriteTimelineStep, ThrowStep, CallConcludeStep
     DEF Mcp!Next, Mcp!Executor
<1> QED
  BY <1>1, <1>2

\* What the invariant says of the steps that are asked.
LEMMA StepsInOrder == ASSUME CallBounds, CallInv PROVE Mcp!AskedInOrder
<1>1. Mcp!CheckedBeforeSpawn
  BY DEF CallInv, Checked, Mcp!CheckedBeforeSpawn, Mcp!MayGo
<1>2. ASSUME \A i \in 1 .. Len(answers) : answers[i].inTurn
      PROVE  Mcp!Cardinality(asked) =< 1
  <2>1. asked = {} \/ asked = {active}
    BY <1>2 DEF CallInv, OneAtATime
  <2>2. Cardinality({}) = 0 /\ Cardinality({active}) = 1
    BY FS_EmptySet, FS_Singleton
  <2>3. Cardinality(asked) =< 1
    BY <2>1, <2>2
  <2> QED
    BY <2>3, Zenon DEF Cardinality, Mcp!Cardinality
<1>3. Mcp!Lockstep
  BY <1>2 DEF CallInv, OneAtATime, Mcp!Lockstep
<1> QED
  BY <1>1, <1>3 DEF Mcp!AskedInOrder

\* And of the server when all is over.
LEMMA ServerEnded == ASSUME CallInv PROVE Mcp!NoServerLeft
  BY DEF CallInv, Phased, Told, Mcp!NoServerLeft

---------------------------------------------------------------------------
\* No server runs unchecked, and its steps go out in order and up to the first
\* that fails, whatever it adds, repeats or chunks; one at a time, unless it
\* answered one before it was asked (executeSession, the data callbacks of a
\* call and of a session, sendNextStep).
THEOREM StepsGoInOrder == ASSUME CallBounds PROVE Mcp!Spec => [](Mcp!TypeOK /\ Mcp!AskedInOrder)
<1>1. CallInv => Mcp!TypeOK /\ Mcp!AskedInOrder
  BY StepsInOrder DEF CallInv
<1> QED
  BY <1>1, CallStart, CallStep, PTL DEF Mcp!Spec

\* What is reported of a call is what its answers say, after its evidence and
\* an audit line for each answer of a session, or the one of a call, that says
\* the same; and its server is dead or was told to end (executeCall,
\* executeSession, killProcessTree).
THEOREM ReportsFollowAnswers ==
    ASSUME CallBounds PROVE Mcp!Spec => [](Mcp!OutcomeIsRecorded /\ Mcp!NoServerLeft)
<1>1. CallInv => Mcp!OutcomeIsRecorded /\ Mcp!NoServerLeft
  BY ServerEnded DEF CallInv
<1> QED
  BY <1>1, CallStart, CallStep, PTL DEF Mcp!Spec

---------------------------------------------------------------------------
(***************************************************************************)
(* Runs and a call in one instance.                                        *)
(***************************************************************************)
\* What holds of the runs and of the call, whichever of them moves.
PartsInv == RunsInv /\ CallInv

\* The constants of the instance are what a call needs.
LEMMA InstanceBounds == CallBounds
  BY SessionAssumption, BoundsAssumption DEF CallBounds

\* Either the runs begin in the instance, or as they always do.
LEMMA PartsStart == ASSUME PartsInit PROVE PartsInv
<1>1. RunsInv
  BY InstanceInit, RunsInit DEF PartsInit
<1>2. CallInv
  BY InstanceBounds, CallStart DEF PartsInit
<1> QED
  BY <1>1, <1>2 DEF PartsInv

\* What moves keeps its own, and leaves the other alone.
LEMMA PartsStep == ASSUME PartsInv, [PartsNext]_allvars PROVE PartsInv'
<1>1. [Next]_vars
  BY DEF PartsNext, Running, Calling, allvars
<1>2. [Mcp!Next]_(Mcp!vars)
  BY DEF PartsNext, Running, Calling, allvars, callVars, Mcp!vars
<1>3. RunsInv'
  BY <1>1, RunsStep DEF PartsInv
<1>4. CallInv'
  BY <1>2, InstanceBounds, CallStep DEF PartsInv
<1> QED
  BY <1>3, <1>4 DEF PartsInv

\* What that says of each part.
LEMMA PartsSafe ==
    ASSUME PartsInv
    PROVE  TypesOK /\ AskedInOrder /\ RunIsOfApproved /\ ReportsAreTrue /\ NoChildLeft
<1>1. TypeOK /\ RunIsOfApproved /\ ReportIsTrue /\ OwnEvidence /\ NoneOutlives
  BY RunsSafe DEF PartsInv
<1>2. Mcp!TypeOK /\ Mcp!OutcomeIsRecorded
  BY DEF PartsInv, CallInv
<1>3. Mcp!AskedInOrder /\ Mcp!NoServerLeft
  BY InstanceBounds, StepsInOrder, ServerEnded DEF PartsInv
<1> QED
  BY <1>1, <1>2, <1>3 DEF TypesOK, AskedInOrder, ReportsAreTrue, NoChildLeft

\* Whatever is approved meanwhile, and whatever a server or a program does:
\* types are kept, a server is asked its checked steps in order, a report says
\* what happened, as the audit does, and its evidence is on record, and no
\* program outlives the call or run it was started for (McpStdioExecutor,
\* ToolAdapterRunner, ExternalIntegrationExecutor).
THEOREM ChildrenAreKept ==
    PartsSpec => [](TypesOK /\ AskedInOrder /\ RunIsOfApproved /\ ReportsAreTrue /\ NoChildLeft)
<1>1. PartsInit => PartsInv
  BY PartsStart
<1>2. PartsInv /\ [PartsNext]_allvars => PartsInv'
  BY PartsStep
<1>3. PartsInv => TypesOK /\ AskedInOrder /\ RunIsOfApproved /\ ReportsAreTrue /\ NoChildLeft
  BY PartsSafe
<1> QED
  BY <1>1, <1>2, <1>3, PTL DEF PartsSpec
=============================================================================
