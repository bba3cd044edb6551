--------------------------- MODULE FindingRecords ---------------------------
(***************************************************************************)
(* The findings, finding_candidates and evidence_artifacts tables, the     *)
(* report drafts beside them, and the `bounty` commands that fill them.    *)
(*                                                                         *)
(* No command of the program opens a transaction: it reads what it decides *)
(* on and then issues its statements one by one, each committed as it      *)
(* comes, while other processes do the same.  A command is therefore the   *)
(* list of the statements it still has to issue, and it may die between    *)
(* any two.  A list kept as JSON in a column is read by one statement and  *)
(* written back by another.                                                *)
(*                                                                         *)
(* An artifact is evidence of a finding in two ways: its finding_id names  *)
(* the finding, or its path is in the evidence_paths of the finding.       *)
(***************************************************************************)
EXTENDS Naturals, FiniteSets, SequencesExt

CONSTANTS Candidates, \* fingerprints: what the program may detect in one job
          Findings,   \* ids of findings
          Artifacts,  \* artifacts of evidence, each with its own path
          Procs,      \* the processes of one workspace
          None,
          MaxCommands, \* bound: commands of a behaviour,
          MaxStops     \* and those that do not come to their end

ASSUME BoundAssumption == MaxCommands \in Nat /\ MaxStops \in Nat

\* The rows of a database are finitely many.
ASSUME FiniteAssumption ==
    IsFiniteSet(Candidates) /\ IsFiniteSet(Findings) /\ IsFiniteSet(Artifacts)

ASSUME NoneAssumption == None \notin Findings \cup Artifacts \cup Candidates

VARIABLES
    finding,   \* finding[f]: its status and evidence_paths, or NoRow
    candidate, \* candidate[c]: the row of fingerprint c, or NoRow
    artifact,  \* artifact[e]: "absent", or its finding_id, None for NULL
    own,       \* own[f]: the report of f, on disk and as artifact, its notes
    todo,      \* todo[p]: the statements of p's command still to come
    commands,  \* commands begun so far, and
    stops,     \* commands that died or failed
    seen,      \* seen[p]: the list p has read and not written back yet
    origin,    \* origin[f]: the artifact f was made from; for the properties
    attached,  \* only, as are the artifacts commands have attached,
    raced,     \* the rows written back though they had changed since,
    overtaken, \* the drafts decided on before a person rejected the finding,
    byHand     \* and the findings a person has called drafted

rows  == <<finding, candidate, artifact, own>>
notes == <<origin, attached, raced, overtaken, byHand>>
vars  == <<rows, todo, commands, stops, seen, notes>>

\* A status stands for those that block a report alike: "duplicate" for invalid
\* too, "open" for new, needs_validation, needs_manual_review, validated and
\* submitted.  Their weight in the score is left open (see ReviewReport).
FindingStatuses == {"open", "report_drafted", "duplicate"}

\* Of a reportability only "ready_for_draft" is ever asked for.
Readinesses == [status : {"needs_manual_verification", "ready_for_draft", "promoted"},
                reportability : {"needs_review", "ready_for_draft"}]

NoRow == [status |-> "absent"]

FindingRows   == [status : FindingStatuses, paths : SUBSET Artifacts]
CandidateRows == [readiness : Readinesses, evidence : SUBSET Artifacts, finding : Findings]

Stored(f) == finding[f] # NoRow
Known(c)  == candidate[c] # NoRow

\* EvidenceStore.list(findingId).
Listed(f) == {e \in Artifacts : artifact[e] = f \/ (Stored(f) /\ e \in finding[f].paths)}

\* evidenceForCandidate.
EvidenceOf(c) == candidate[c].evidence \cup Listed(candidate[c].finding)

---------------------------------------------------------------------------
(***************************************************************************)
(* Statements: an operation and the rows it names.                         *)
(***************************************************************************)
Stmt(op, c, e, f, s) == [op |-> op, c |-> c, e |-> e, f |-> f, s |-> s]

Store(e, f)         == Stmt("storeArtifact", None, e, f, "")
LinkArtifact(e, f)  == Stmt("linkArtifact", None, e, f, "")
Create(f, e)        == Stmt("createFinding", None, e, f, "open")
CreateAs(f, s)      == Stmt("createFinding", None, None, f, s)
Upsert(c, e, f)     == Stmt("upsertCandidate", c, e, f, "")
LinkFinding(c, f)   == Stmt("linkFinding", c, None, f, "")
SetStatus(f, s)     == Stmt("setStatus", None, None, f, s)
Review(f, s)        == Stmt("review", None, None, f, s)
DraftStatus(f, s)   == Stmt("draftStatus", None, None, f, s)
Keep(f, s)          == Stmt("keep", None, None, f, s)
LinkCandidates(f,e) == Stmt("linkCandidates", None, e, f, "")
ReadPaths(f)        == Stmt("readPaths", None, None, f, "")
WritePaths(f, e)    == Stmt("writePaths", None, e, f, "")
ReadEvidence(c)     == Stmt("readEvidence", c, None, None, "")
WriteEvidence(c, e) == Stmt("writeEvidence", c, e, None, "")
SetReadiness(c)     == Stmt("setReadiness", c, None, None, "")

\* linkEvidencePath, linkEvidence, refreshCandidateReadiness.
AttachPath(f, e)   == <<ReadPaths(f), WritePaths(f, e)>>
LinkEvidence(c, e) == <<ReadEvidence(c), WriteEvidence(c, e)>>
Refresh(c)         == <<ReadEvidence(c), SetReadiness(c)>>

\* The programs, of k statements each, one after another in the order the
\* table gives the rows.
Each(program, k) ==
    {[i \in 1 .. k * Cardinality(DOMAIN program) |->
         program[row[((i - 1) \div k) + 1]][((i - 1) % k) + 1]] :
        row \in SetToSeqs(DOMAIN program)}

\* Mutant: the candidate before its finding.
SignalCandidateFirst(c, e, f) == <<Upsert(c, e, f), Create(f, e), LinkArtifact(e, f)>>

\* Safe checks, the analysis of scripts and the hunts: a signal becomes a
\* finding and a candidate that names it.
Signal(c, e, f) == <<Create(f, e), LinkArtifact(e, f), Upsert(c, e, f)>>

Link(e, f) == <<LinkArtifact(e, f)>> \o AttachPath(f, e)

\* A new artifact that names the finding and is attached to it.
Filed(e, f) == <<Store(e, f)>> \o AttachPath(f, e)

\* promoteCandidate: every candidate has a finding already (see Signal).
Promote(c) == LET f == candidate[c].finding
              IN  {links \o <<LinkFinding(c, f)>> :
                     links \in Each([e \in EvidenceOf(c) |-> Link(e, f)], 3)}

\* draftFindingReport and `report`; the reports phase of `run` stores the
\* artifact before it sets the status.
Draft(f, s)     == <<Keep(f, "file"), DraftStatus(f, s), Keep(f, "report")>>
DraftInRun(f)   == <<Keep(f, "file"), Keep(f, "report"), DraftStatus(f, "checked")>>

---------------------------------------------------------------------------
Init == /\ finding = [f \in Findings |-> NoRow]
        /\ candidate = [c \in Candidates |-> NoRow]
        /\ artifact = [e \in Artifacts |-> "absent"]
        /\ own = [f \in Findings |-> {}]
        /\ todo = [p \in Procs |-> <<>>]
        /\ commands = 0 /\ stops = 0
        /\ seen = [p \in Procs |-> {}]
        /\ origin = [f \in Findings |-> None]
        /\ attached = {} /\ raced = {} /\ overtaken = {} /\ byHand = {}

(***************************************************************************)
(* Commands.  What they ask of the tables first is read in one step.       *)
(***************************************************************************)
Named == (UNION {{todo[p][i].e : i \in DOMAIN todo[p]} : p \in Procs})
         \cup (UNION {{todo[p][i].f : i \in DOMAIN todo[p]} : p \in Procs})

\* An id is drawn at random; which of the unused ones makes no difference.
Draw(ids) == IF ids = {} THEN {} ELSE {CHOOSE id \in ids : TRUE}

NewArtifacts == {e \in Artifacts : artifact[e] = "absent" /\ e \notin Named}
NewFindings  == {f \in Findings : ~Stored(f) /\ f \notin Named}

Ready(p) == todo[p] = <<>> /\ commands < MaxCommands

Begin(p, program) == /\ commands' = commands + 1
                     /\ todo' = [todo EXCEPT ![p] = program]
                     /\ UNCHANGED <<rows, stops, seen, notes>>

\* `check` and `js` make findings only.  runSafeChecks, runJsAnalysis,
\* executeSafeChecks, executeJsAnalyzer: one artifact, which all the signals
\* found in it share.
Detect(p) ==
    \E e \in Draw(NewArtifacts), f \in Draw(NewFindings), c \in Candidates :
       \/ Begin(p, <<Store(e, None), Create(f, e)>>)
       \/ Begin(p, <<Store(e, None)>> \o Signal(c, e, f))
       \/ \E g \in Draw(NewFindings \ {f}), d \in Candidates \ {c} :
             Begin(p, <<Store(e, None)>> \o Signal(c, e, f) \o Signal(d, e, g))

\* runHuntPlaybook: then a note on how to reproduce it.
Hunt(p) ==
    \E e \in Draw(NewArtifacts), f \in Draw(NewFindings), c \in Candidates :
       \E n \in Draw(NewArtifacts \ {e}) :
          Begin(p, <<Store(e, None)>> \o Signal(c, e, f)
                   \o Filed(n, f) \o <<LinkCandidates(f, n)>>)

\* `findings create`, with any --status, with and without --note.
CreateByHand(p) ==
    \E f \in Draw(NewFindings), s \in FindingStatuses :
       \/ Begin(p, <<CreateAs(f, s)>>)
       \/ \E e \in Draw(NewArtifacts) : Begin(p, <<CreateAs(f, s)>> \o Filed(e, f))

\* `evidence add` and `evidence record` of a text or a file, with and without
\* --finding.
RecordEvidence(p) ==
    \E e \in Draw(NewArtifacts) :
       \/ Begin(p, <<Store(e, None)>>)
       \/ \E f \in Findings : Stored(f) /\ Begin(p, Filed(e, f))

\* `evidence record` of a URL, then a note on how to reproduce it.  What the
\* browser captures is filed piece by piece; without a browser the request and
\* the response are both stored first, and the request stays if no response
\* comes.
CaptureEvidence(p) ==
    \E e \in Draw(NewArtifacts), f \in Findings :
       \E n \in Draw(NewArtifacts \ {e}) :
          /\ Stored(f)
          /\ \/ Begin(p, Filed(e, f) \o Filed(n, f))
             \/ Begin(p, <<Store(e, f)>>)
             \/ \E d \in Draw(NewArtifacts \ {e, n}) :
                   Begin(p, <<Store(e, f), Store(d, f)>> \o AttachPath(f, e)
                            \o AttachPath(f, d) \o Filed(n, f))

\* `ai report --write`: the finding is the one the candidate had before the
\* provider was asked.
AiReport(p) ==
    \E c \in Candidates, e \in Draw(NewArtifacts) :
       Known(c) /\ LET f == candidate[c].finding IN
                   Begin(p, <<Store(e, f)>> \o LinkEvidence(c, e) \o AttachPath(f, e))

\* `reproduce` and `reports review --write` file a note under the finding that
\* they do not attach to it: it is evidence by its finding_id alone.
Reproduce(p)    == \E f \in Findings : Stored(f) /\ Begin(p, <<Keep(f, "note")>>)
ReviewByHand(p) == \E f \in Findings : Stored(f) /\ Begin(p, <<Keep(f, "note")>>)

\* `evidence link`.
LinkByHand(p) ==
    \E e \in Artifacts, f \in Findings :
       artifact[e] # "absent" /\ Stored(f) /\ Begin(p, Link(e, f))

\* `findings status`: any status, then a note about it.
MarkByHand(p) ==
    \E f \in Findings, s \in FindingStatuses :
       Stored(f) /\ Begin(p, <<SetStatus(f, s), Keep(f, "note")>>)

\* `findings promote-candidate`.
PromoteByHand(p) ==
    \E c \in Candidates : Known(c) /\ \E program \in Promote(c) : Begin(p, program)

\* `report` and `reports draft` of a finding.
DraftFinding(p) ==
    \E f \in Findings, s \in {"checked", "forced"} :
       Stored(f) /\ Begin(p, <<Review(f, s)>>)

\* `reports draft` of a candidate.
DraftCandidate(p) ==
    \E c \in Candidates, s \in {"checked", "forced"} :
       /\ Known(c)
       /\ s = "forced" \/ candidate[c].readiness.reportability = "ready_for_draft"
       /\ \E program \in Promote(c) :
             Begin(p, program \o <<Review(candidate[c].finding, s)>>)

\* draftReports, the reports phase of `run`: of the findings with evidence of
\* the job, those that score well enough and are not rejected.
DraftAll(p) ==
    \E F \in SUBSET {f \in Findings : Stored(f) /\ Listed(f) # {} /\ finding[f].status # "duplicate"} :
       F # {} /\ \E program \in Each([f \in F |-> DraftInRun(f)], 3) : Begin(p, program)

---------------------------------------------------------------------------
(***************************************************************************)
(* The statements.                                                         *)
(***************************************************************************)
At(p, op) == todo[p] # <<>> /\ Head(todo[p]).op = op

Now(p) == Head(todo[p])

Then(p, program) == /\ todo' = [todo EXCEPT ![p] = program \o Tail(@)]
                    /\ UNCHANGED <<commands, stops>>

StoreArtifact(p) ==
    /\ At(p, "storeArtifact") /\ Then(p, <<>>)
    /\ artifact' = [artifact EXCEPT ![Now(p).e] = Now(p).f]
    /\ UNCHANGED <<finding, candidate, own, seen, notes>>

\* linkToFinding: the artifact leaves the finding it was linked to.
RelinkArtifact(p) ==
    /\ At(p, "linkArtifact") /\ Then(p, <<>>)
    /\ artifact' = [artifact EXCEPT ![Now(p).e] = Now(p).f]
    /\ UNCHANGED <<finding, candidate, own, seen, notes>>

Drafting(p, f) == \E i \in DOMAIN todo[p] : todo[p][i].op = "draftStatus" /\ todo[p][i].f = f

\* What a person says of a finding.
Say(f, s) ==
    /\ overtaken' = overtaken \cup {<<q, f>> : q \in {q \in Procs : s = "duplicate" /\ Drafting(q, f)}}
    /\ byHand' = IF s = "report_drafted" THEN byHand \cup {f} ELSE byHand \ {f}

\* Mutant: no artifact is stored as a path.
CreateFindingNull(p) ==
    LET f == Now(p).f  e == Now(p).e  s == Now(p).s IN
    /\ At(p, "createFinding") /\ Then(p, <<>>)
    /\ finding' = [finding EXCEPT ![f] = [status |-> s, paths |-> {e}]]
    /\ origin' = [origin EXCEPT ![f] = e]
    /\ Say(f, s)
    /\ UNCHANGED <<candidate, artifact, own, seen, attached, raced>>

CreateFinding(p) ==
    LET f == Now(p).f  e == Now(p).e  s == Now(p).s IN
    /\ At(p, "createFinding") /\ Then(p, <<>>)
    /\ finding' = [finding EXCEPT ![f] = [status |-> s, paths |-> {e} \ {None}]]
    /\ origin' = [origin EXCEPT ![f] = e]
    /\ Say(f, s)
    /\ UNCHANGED <<candidate, artifact, own, seen, attached, raced>>

\* INSERT ... ON CONFLICT(fingerprint) DO UPDATE: detected again, a candidate
\* starts over, whatever had become of it.
UpsertCandidate(p) ==
    LET c == Now(p).c IN
    /\ At(p, "upsertCandidate") /\ Then(p, <<>>)
    /\ candidate' = [candidate EXCEPT ![c] =
          [readiness |-> [status |-> "needs_manual_verification", reportability |-> "needs_review"],
           evidence |-> {Now(p).e}, finding |-> Now(p).f]]
    /\ UNCHANGED <<finding, artifact, own, seen, notes>>

PromoteCandidate(p) ==
    LET c == Now(p).c IN
    /\ At(p, "linkFinding") /\ Then(p, <<>>)
    /\ candidate' = [candidate EXCEPT ![c].finding = Now(p).f,
                                      ![c].readiness = [@ EXCEPT !.status = "promoted"]]
    /\ UNCHANGED <<finding, artifact, own, seen, notes>>

ReadRow(p) ==
    /\ \/ At(p, "readPaths")    /\ seen' = [seen EXCEPT ![p] = finding[Now(p).f].paths]
       \/ At(p, "readEvidence") /\ seen' = [seen EXCEPT ![p] = candidate[Now(p).c].evidence]
    /\ Then(p, <<>>)
    /\ UNCHANGED <<rows, notes>>

\* Mutant: the list is replaced.
WriteBackAlone(p, e) == {e}

WriteBack(p, e) == seen[p] \cup {e}

Written(p, row, list) == /\ Then(p, <<>>)
                         /\ seen' = [seen EXCEPT ![p] = {}]
                         /\ raced' = IF list = seen[p] THEN raced ELSE raced \cup {row}

WritePathsBack(p) ==
    LET f == Now(p).f  e == Now(p).e IN
    /\ At(p, "writePaths") /\ Written(p, f, finding[f].paths)
    /\ finding' = [finding EXCEPT ![f].paths = WriteBack(p, e)]
    /\ attached' = attached \cup {<<f, e>>}
    /\ UNCHANGED <<candidate, artifact, own, origin, overtaken, byHand>>

WriteEvidenceBack(p) ==
    LET c == Now(p).c IN
    /\ At(p, "writeEvidence") /\ Written(p, c, candidate[c].evidence)
    /\ candidate' = [candidate EXCEPT ![c].evidence = WriteBack(p, Now(p).e)]
    /\ UNCHANGED <<finding, artifact, own, origin, attached, overtaken, byHand>>

\* evaluateFindingCandidateReadiness.  Confidence and severity of a candidate
\* and its likeness to other findings, `strong`, are left open.
\* Mutant: one artifact is enough.
ReadinessOfOne(count, strong) ==
    LET r == IF strong /\ count >= 1 THEN "ready" ELSE "review" IN
    [status |-> IF r = "ready" THEN "ready_for_draft" ELSE "needs_manual_verification",
     reportability |-> IF r = "ready" THEN "ready_for_draft" ELSE "needs_review"]

Readiness(count, strong) ==
    LET ready == strong /\ count >= 2 IN
    [status |-> IF ready THEN "ready_for_draft" ELSE "needs_manual_verification",
     reportability |-> IF ready THEN "ready_for_draft" ELSE "needs_review"]

WriteReadiness(p) ==
    LET c == Now(p).c IN
    /\ At(p, "setReadiness") /\ Written(p, c, candidate[c].evidence)
    /\ \E strong \in BOOLEAN :
          candidate' = [candidate EXCEPT ![c].readiness = Readiness(Cardinality(seen[p]), strong)]
    /\ UNCHANGED <<finding, artifact, own, origin, attached, overtaken, byHand>>

\* runHuntPlaybook: candidates.list({ findingId }) and what follows for each.
ListCandidates(p) ==
    LET f == Now(p).f  e == Now(p).e IN
    /\ At(p, "linkCandidates")
    /\ \E program \in Each([c \in {c \in Candidates : Known(c) /\ candidate[c].finding = f} |->
                               LinkEvidence(c, e) \o Refresh(c)], 4) : Then(p, program)
    /\ UNCHANGED <<rows, seen, notes>>

\* Mutant: the status of a finding is not looked at.
BlockedByEvidence(f) == Listed(f) = {} /\ own[f] \cap {"note", "report"} = {}

Blocked(f) == \/ finding[f].status = "duplicate"
              \/ Listed(f) = {} /\ own[f] \cap {"note", "report"} = {}

\* buildReportReview.  What it makes of the contents of the evidence, of
\* likeness and of the score, `poor`, is left open.
ReviewReport(p) ==
    LET f == Now(p).f  s == Now(p).s IN
    /\ At(p, "review")
    /\ \E poor \in BOOLEAN : IF s # "forced" /\ (poor \/ Blocked(f))
                             THEN Then(p, <<>>) ELSE Then(p, Draft(f, s))
    /\ UNCHANGED <<rows, seen, notes>>

\* The report on disk, its artifact, or the note of a change of status.
KeepOwn(p) ==
    /\ At(p, "keep") /\ Then(p, <<>>)
    /\ own' = [own EXCEPT ![Now(p).f] = @ \cup {Now(p).s}]
    /\ UNCHANGED <<finding, candidate, artifact, seen, notes>>

MarkFinding(p) ==
    LET f == Now(p).f  s == Now(p).s IN
    /\ At(p, "setStatus") /\ Then(p, <<>>)
    /\ finding' = [finding EXCEPT ![f].status = s]
    /\ Say(f, s)
    /\ UNCHANGED <<candidate, artifact, own, seen, origin, attached, raced>>

MarkDrafted(p) ==
    LET f == Now(p).f IN
    /\ At(p, "draftStatus") /\ Then(p, <<>>)
    /\ finding' = [finding EXCEPT ![f].status = "report_drafted"]
    /\ overtaken' = overtaken \ {<<p, f>>}
    /\ byHand' = byHand \ {f}
    /\ UNCHANGED <<candidate, artifact, own, seen, origin, attached, raced>>

\* The process dies, or a statement throws: the rest is never issued.
Stop(p) == /\ todo[p] # <<>>
           /\ stops < MaxStops /\ stops' = stops + 1
           /\ todo' = [todo EXCEPT ![p] = <<>>]
           /\ seen' = [seen EXCEPT ![p] = {}]
           /\ overtaken' = {o \in overtaken : o[1] # p}
           /\ UNCHANGED <<rows, commands, origin, attached, raced, byHand>>

Command(p) == /\ Ready(p)
              /\ \/ Detect(p) \/ Hunt(p) \/ CreateByHand(p) \/ RecordEvidence(p)
                 \/ CaptureEvidence(p) \/ AiReport(p) \/ Reproduce(p) \/ ReviewByHand(p)
                 \/ LinkByHand(p) \/ MarkByHand(p) \/ PromoteByHand(p)
                 \/ DraftFinding(p) \/ DraftCandidate(p) \/ DraftAll(p)

Statement(p) == \/ StoreArtifact(p) \/ RelinkArtifact(p) \/ CreateFinding(p)
                \/ UpsertCandidate(p) \/ PromoteCandidate(p) \/ ReadRow(p)
                \/ WritePathsBack(p) \/ WriteEvidenceBack(p) \/ WriteReadiness(p)
                \/ ListCandidates(p) \/ ReviewReport(p) \/ KeepOwn(p)
                \/ MarkFinding(p) \/ MarkDrafted(p)

Next == \E p \in Procs : Command(p) \/ Statement(p) \/ Stop(p)

Spec == Init /\ [][Next]_vars

---------------------------------------------------------------------------

\* The rows and what is known of them keep their types.
TypeOK ==
    /\ commands \in 0 .. MaxCommands /\ stops \in 0 .. MaxStops
    /\ finding \in [Findings -> FindingRows \cup {NoRow}]
    /\ candidate \in [Candidates -> CandidateRows \cup {NoRow}]
    /\ artifact \in [Artifacts -> Findings \cup {None, "absent"}]
    /\ own \in [Findings -> SUBSET {"file", "report", "note"}]
    /\ seen \in [Procs -> SUBSET Artifacts]
    /\ origin \in [Findings -> Artifacts \cup {None}]
    /\ attached \subseteq Findings \X Artifacts
    /\ raced \subseteq Findings \cup Candidates
    /\ overtaken \subseteq Procs \X Findings
    /\ byHand \subseteq Findings

\* The artifact a finding was made from stays its evidence, however many
\* findings share it, wherever it is linked next and whatever writes race
\* (linkToFinding moves an artifact, linkEvidencePath writes back a stale
\* list).
FirstEvidenceStays ==
    \A f \in Findings : Stored(f) /\ origin[f] # None => origin[f] \in Listed(f)

\* So does every artifact attached later, unless two processes attached to
\* the same finding at once.
AttachedStays ==
    \A a \in attached : a[2] \in Listed(a[1]) \/ a[1] \in raced

\* Evidence stays where it was found or attached: both of the above.
EvidenceStays == FirstEvidenceStays /\ AttachedStays

\* At any moment, also between the statements of the command that makes it, a
\* candidate can be promoted: its finding is there and has evidence
\* (promoteCandidate).
CandidateCanBePromoted ==
    \A c \in Candidates : Known(c) => Stored(candidate[c].finding) /\ EvidenceOf(c) # {}

\* A candidate called ready for a draft has two artifacts to show, unless its
\* readiness was computed from a list that another process has changed since
\* (refreshCandidateReadiness).
ReadyIsBacked ==
    \A c \in Candidates :
       /\ Known(c)
       /\ candidate[c].readiness.reportability = "ready_for_draft"
       => Cardinality(candidate[c].evidence) >= 2 \/ c \in raced

\* A finding a person rejected is called drafted only by force, by a command
\* that had decided on its draft before (draftFindingReport, draftReports), or
\* by a person again (`findings status` asks for no reason).
RejectionRespected ==
    [][\A f \in Findings :
          finding[f].status = "duplicate" /\ finding'[f].status = "report_drafted" =>
             \E p \in Procs :
                /\ todo'[p] # todo[p] /\ todo[p] # <<>> /\ Now(p).f = f
                /\ \/ Now(p).op = "draftStatus" /\ (Now(p).s = "forced" \/ <<p, f>> \in overtaken)
                   \/ Now(p).op = "setStatus"]_vars

\* A finding that says its report is drafted has that report on disk, also
\* when the command stopped half-way, unless a person has said so, who may
\* at any time (`findings status`, `findings create --status`).
DraftIsThere ==
    \A f \in Findings :
       finding[f].status = "report_drafted" => "file" \in own[f] \/ f \in byHand

\* What a report needs is there, when it is called ready and when it is called
\* drafted.
ReportsAreBacked == ReadyIsBacked /\ DraftIsThere
=============================================================================
