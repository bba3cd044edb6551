------------------------ MODULE FindingRecords_proof ------------------------
(***************************************************************************)
(* What stays true of the findings, candidates and evidence whatever       *)
(* commands race and wherever they stop.  A command under way is a list of *)
(* statements; Fits says that such a list may still be issued against the  *)
(* rows there are.  It is a predicate on sequences alone, so the lemmas    *)
(* about lists know nothing of steps, and those about steps little of      *)
(* lists.                                                                  *)
(***************************************************************************)
EXTENDS FindingRecords, FiniteSetTheorems, SequenceTheorems, TLAPS

Ops == {"storeArtifact", "linkArtifact", "createFinding", "upsertCandidate", "linkFinding",
        "setStatus", "review", "draftStatus", "keep", "linkCandidates", "readPaths",
        "writePaths", "readEvidence", "writeEvidence", "setReadiness"}

Words == {"", "open", "report_drafted", "duplicate", "checked", "forced", "file", "report", "note"}

\* The statements whose finding, candidate or artifact is not None.
OfFinding   == Ops \ {"storeArtifact", "readEvidence", "writeEvidence", "setReadiness"}
OfCandidate == {"upsertCandidate", "linkFinding", "readEvidence", "writeEvidence",
                "setReadiness"}
OfArtifact  == {"storeArtifact", "linkArtifact", "upsertCandidate", "linkCandidates",
                "writePaths", "writeEvidence"}

Statements ==
    {m \in [op : Ops, c : Candidates \cup {None}, e : Artifacts \cup {None},
            f : Findings \cup {None}, s : Words] :
       /\ m.op \in OfFinding => m.f \in Findings
       /\ m.op \in OfCandidate => m.c \in Candidates
       /\ m.op \in OfArtifact => m.e \in Artifacts
       /\ m.op = "keep" => m.s \in {"file", "report", "note"}
       /\ m.op \in {"setStatus", "createFinding"} => m.s \in FindingStatuses
       /\ m.op \in {"review", "draftStatus"} => m.s \in {"checked", "forced"}}

\* The statements that need the row of their finding, or of their candidate.
NeedsFinding   == {"upsertCandidate", "linkFinding", "setStatus", "review", "draftStatus",
                   "readPaths", "writePaths"}
NeedsCandidate == {"linkFinding", "readEvidence", "writeEvidence", "setReadiness"}

Creates(m) == IF m.op = "createFinding" THEN {m.f} ELSE {}
Files(m)   == IF m.op = "keep" /\ m.s = "file" THEN {m.f} ELSE {}

\* Statement i of the list t may come, once those before it have, where the
\* findings of S and the candidates of K have rows, those of F a report on
\* disk, and those of D may get a draft that is not forced.
FitsAt(t, i, S, K, F, D) ==
    /\ t[i].op \in NeedsFinding =>
          t[i].f \in S \/ \E j \in 1 .. Len(t) : j < i /\ t[i].f \in Creates(t[j])
    /\ t[i].op \in NeedsCandidate => t[i].c \in K
    /\ t[i].op = "draftStatus" =>
          /\ t[i].f \in F \/ \E j \in 1 .. Len(t) : j < i /\ t[i].f \in Files(t[j])
          /\ t[i].s = "forced" \/ t[i].f \in D
    /\ t[i].op = "createFinding" =>
          t[i].f \notin S /\ \A j \in 1 .. Len(t) : j < i => t[i].f \notin Creates(t[j])
    /\ t[i].op = "writePaths" /\ i > 1 => t[i - 1].op = "readPaths" /\ t[i - 1].f = t[i].f

Fits(t, S, K, F, D) == t \in Seq(Statements) /\ \A i \in 1 .. Len(t) : FitsAt(t, i, S, K, F, D)

CreatedIn(t) == {t[i].f : i \in {j \in 1 .. Len(t) : t[j].op = "createFinding"}}
FiledIn(t)   == {t[i].f : i \in {j \in 1 .. Len(t) : t[j].op = "keep" /\ t[j].s = "file"}}
DraftedIn(t) == {t[i].f : i \in {j \in 1 .. Len(t) : t[j].op = "draftStatus"}}

\* Such a list that is no rest of another: it writes no list back that it has
\* not read itself.
Whole(t, S, K, F, D) == Fits(t, S, K, F, D) /\ (t # <<>> => t[1].op # "writePaths")

\* One that creates no finding.
Quiet(t, S, K, F, D) == Whole(t, S, K, F, D) /\ CreatedIn(t) = {}

stored == {f \in Findings : Stored(f)}
known  == {c \in Candidates : Known(c)}
filed  == {f \in Findings : "file" \in own[f]}

\* The findings p may draft a report of without force: those no person has
\* rejected, or only after p had made up its mind.
Decided(p) == {f \in Findings : finding[f].status # "duplicate" \/ <<p, f>> \in overtaken}

\* What every process has still to do can be done.
ProgramsFit == /\ todo \in [Procs -> Seq(Statements)]
               /\ \A p \in Procs : Fits(todo[p], stored, known, filed, Decided(p))

\* No two processes are about to create the same finding.
CreatesApart == \A p, q \in Procs : p # q => CreatedIn(todo[p]) \cap CreatedIn(todo[q]) = {}

\* The list a process is about to write back has the first evidence in it.
ReadHasOrigin == \A p \in Procs : At(p, "writePaths") => origin[Now(p).f] \in seen[p] \cup {None}

\* Evidence stays in evidence_paths itself, not only with the artifact, which
\* may be linked elsewhere.
PathsKeep ==
    /\ \A f \in Findings : Stored(f) /\ origin[f] # None => origin[f] \in finding[f].paths
    /\ \A a \in attached : a[1] \in raced \/ (Stored(a[1]) /\ a[2] \in finding[a[1]].paths)

CandidatesWhole == \A c \in Candidates : Known(c) => /\ Stored(candidate[c].finding)
                                                     /\ candidate[c].evidence # {}

IInv == /\ TypeOK /\ ProgramsFit /\ CreatesApart /\ ReadHasOrigin /\ PathsKeep
        /\ CandidatesWhole /\ ReportsAreBacked

\* A statement is typed where its fields are, and those its operation needs
\* are not None.
LEMMA StatementType ==
    ASSUME NEW op \in Ops, NEW c \in Candidates \cup {None}, NEW e \in Artifacts \cup {None},
           NEW f \in Findings \cup {None}, NEW s \in Words,
           op \in OfFinding => f \in Findings,
           op \in OfCandidate => c \in Candidates,
           op \in OfArtifact => e \in Artifacts,
           op = "keep" => s \in {"file", "report", "note"},
           op \in {"setStatus", "createFinding"} => s \in FindingStatuses,
           op \in {"review", "draftStatus"} => s \in {"checked", "forced"}
    PROVE  Stmt(op, c, e, f, s) \in Statements
  BY DEF Statements, Stmt

\* Every statement a program is made of is typed.
LEMMA StatementTypes ==
    /\ \A e \in Artifacts, f \in Findings \cup {None} : Store(e, f) \in Statements
    /\ \A e \in Artifacts, f \in Findings :
          LinkArtifact(e, f) \in Statements /\ WritePaths(f, e) \in Statements
            /\ LinkCandidates(f, e) \in Statements
    /\ \A f \in Findings, e \in Artifacts \cup {None} : Create(f, e) \in Statements
    /\ \A f \in Findings, s \in FindingStatuses : CreateAs(f, s) \in Statements
    /\ \A c \in Candidates, e \in Artifacts, f \in Findings : Upsert(c, e, f) \in Statements
    /\ \A c \in Candidates, e \in Artifacts : WriteEvidence(c, e) \in Statements
    /\ \A c \in Candidates, f \in Findings : LinkFinding(c, f) \in Statements
    /\ \A f \in Findings : ReadPaths(f) \in Statements
    /\ \A c \in Candidates : ReadEvidence(c) \in Statements /\ SetReadiness(c) \in Statements
    /\ \A f \in Findings, s \in FindingStatuses : SetStatus(f, s) \in Statements
    /\ \A f \in Findings, s \in {"checked", "forced"} :
          Review(f, s) \in Statements /\ DraftStatus(f, s) \in Statements
    /\ \A f \in Findings, s \in {"file", "report", "note"} : Keep(f, s) \in Statements
<1>0. "" \in Words
  BY Zenon DEF Words
<1>10. {"open", "duplicate", "checked", "forced", "file", "report", "note"} \subseteq Words
  BY Zenon DEF Words
<1>11. FindingStatuses \subseteq Words
  BY Zenon DEF Words, FindingStatuses
<1>1. \A e \in Artifacts, f \in Findings \cup {None} : Store(e, f) \in Statements
  <2>1. \A e \in Artifacts, f \in Findings \cup {None}, s \in Words : Stmt("storeArtifact", None, e, f, s) \in Statements
    <3>1. /\ "storeArtifact" \in Ops /\ "storeArtifact" \notin OfFinding \cup OfCandidate
          /\ "storeArtifact" \notin {"keep", "setStatus", "review", "draftStatus"}
      BY DEF Ops, OfFinding, OfCandidate
    <3> QED
      BY <3>1, StatementType
  <2> QED
    BY <1>0, <2>1, Zenon DEF Store
<1>2. \A e \in Artifacts, f \in Findings :
          LinkArtifact(e, f) \in Statements /\ WritePaths(f, e) \in Statements
            /\ LinkCandidates(f, e) \in Statements
  <2>1. \A e \in Artifacts, f \in Findings, s \in Words : Stmt("linkArtifact", None, e, f, s) \in Statements
    BY StatementType DEF Ops, OfFinding, OfCandidate, OfArtifact
  <2>2. \A e \in Artifacts, f \in Findings, s \in Words : Stmt("writePaths", None, e, f, s) \in Statements
    BY StatementType DEF Ops, OfFinding, OfCandidate, OfArtifact
  <2>3. \A e \in Artifacts, f \in Findings, s \in Words : Stmt("linkCandidates", None, e, f, s) \in Statements
    BY StatementType DEF Ops, OfFinding, OfCandidate, OfArtifact
  <2> QED
    BY <1>0, <2>1, <2>2, <2>3, Zenon DEF LinkArtifact, WritePaths, LinkCandidates
<1>3. /\ \A f \in Findings, e \in Artifacts \cup {None} : Create(f, e) \in Statements
      /\ \A f \in Findings, s \in FindingStatuses : CreateAs(f, s) \in Statements
  <2>1. \A f \in Findings, e \in Artifacts \cup {None}, s \in FindingStatuses :
           Stmt("createFinding", None, e, f, s) \in Statements
    <3>1. /\ "createFinding" \in Ops /\ "createFinding" \notin OfCandidate \cup OfArtifact
          /\ "createFinding" \notin {"keep", "review", "draftStatus"}
      BY DEF Ops, OfCandidate, OfArtifact
    <3>2. \A s \in FindingStatuses : s \in Words
      BY <1>11
    <3> QED
      BY <3>1, <3>2, StatementType
  <2>2. "open" \in FindingStatuses
    BY DEF FindingStatuses
  <2>3. \A f \in Findings, e \in Artifacts \cup {None} : Create(f, e) \in Statements
    BY <2>1, <2>2, Zenon DEF Create
  <2>4. \A f \in Findings, s \in FindingStatuses : CreateAs(f, s) \in Statements
    BY <2>1, Zenon DEF CreateAs
  <2> QED
    BY <2>3, <2>4
<1>4. /\ \A c \in Candidates, e \in Artifacts, f \in Findings : Upsert(c, e, f) \in Statements
      /\ \A c \in Candidates, e \in Artifacts : WriteEvidence(c, e) \in Statements
      /\ \A c \in Candidates, f \in Findings : LinkFinding(c, f) \in Statements
  <2>1. \A c \in Candidates, e \in Artifacts, f \in Findings, s \in Words : Stmt("upsertCandidate", c, e, f, s) \in Statements
    BY StatementType DEF Ops, OfFinding, OfCandidate, OfArtifact
  <2>2. \A c \in Candidates, e \in Artifacts, s \in Words : Stmt("writeEvidence", c, e, None, s) \in Statements
    BY StatementType DEF Ops, OfFinding, OfCandidate, OfArtifact
  <2>3. \A c \in Candidates, f \in Findings, s \in Words : Stmt("linkFinding", c, None, f, s) \in Statements
    BY StatementType DEF Ops, OfFinding, OfCandidate, OfArtifact
  <2> QED
    BY <1>0, <2>1, <2>2, <2>3, Zenon DEF Upsert, LinkFinding, WriteEvidence
<1>5. \A f \in Findings : ReadPaths(f) \in Statements
  <2>1. \A f \in Findings, s \in Words : Stmt("readPaths", None, None, f, s) \in Statements
    BY StatementType DEF Ops, OfFinding, OfCandidate, OfArtifact
  <2> QED
    BY <1>0, <2>1, Zenon DEF ReadPaths
<1>6. \A c \in Candidates : ReadEvidence(c) \in Statements /\ SetReadiness(c) \in Statements
  <2>1. \A c \in Candidates, s \in Words : Stmt("readEvidence", c, None, None, s) \in Statements
    BY StatementType DEF Ops, OfFinding, OfCandidate, OfArtifact
  <2>2. \A c \in Candidates, s \in Words : Stmt("setReadiness", c, None, None, s) \in Statements
    BY StatementType DEF Ops, OfFinding, OfCandidate, OfArtifact
  <2> QED
    BY <1>0, <2>1, <2>2, Zenon DEF ReadEvidence, SetReadiness
<1>7. \A f \in Findings, s \in FindingStatuses : SetStatus(f, s) \in Statements
  BY <1>11, StatementType DEF Ops, OfFinding, OfCandidate, OfArtifact, SetStatus
<1>8. \A f \in Findings, s \in {"checked", "forced"} :
          Review(f, s) \in Statements /\ DraftStatus(f, s) \in Statements
  BY <1>10, StatementType DEF Ops, OfFinding, OfCandidate, OfArtifact, Review, DraftStatus
<1>9. \A f \in Findings, s \in {"file", "report", "note"} : Keep(f, s) \in Statements
  BY <1>10, StatementType DEF Ops, OfFinding, OfCandidate, OfArtifact, Keep
<1> QED
  BY <1>1, <1>2, <1>3, <1>4, <1>5, <1>6, <1>7, <1>8, <1>9

\* What a statement is and what it is about.
LEMMA StatementFields ==
    /\ \A e, f : Store(e, f).op = "storeArtifact"
    /\ \A e, f : LinkArtifact(e, f).op = "linkArtifact"
    /\ \A f, e : Create(f, e).op = "createFinding" /\ Create(f, e).f = f
    /\ \A f, s : CreateAs(f, s).op = "createFinding" /\ CreateAs(f, s).f = f
    /\ \A c, e, f : Upsert(c, e, f).op = "upsertCandidate" /\ Upsert(c, e, f).f = f
    /\ \A c, f : LinkFinding(c, f).op = "linkFinding" /\ LinkFinding(c, f).f = f
                   /\ LinkFinding(c, f).c = c
    /\ \A f, s : SetStatus(f, s).op = "setStatus" /\ SetStatus(f, s).f = f
    /\ \A f, s : Review(f, s).op = "review" /\ Review(f, s).f = f
    /\ \A f, s : DraftStatus(f, s).op = "draftStatus" /\ DraftStatus(f, s).f = f
                   /\ DraftStatus(f, s).s = s
    /\ \A f, s : Keep(f, s).op = "keep" /\ Keep(f, s).f = f /\ Keep(f, s).s = s
    /\ \A f, e : LinkCandidates(f, e).op = "linkCandidates"
    /\ \A f : ReadPaths(f).op = "readPaths" /\ ReadPaths(f).f = f
    /\ \A f, e : WritePaths(f, e).op = "writePaths" /\ WritePaths(f, e).f = f
    /\ \A c : ReadEvidence(c).op = "readEvidence" /\ ReadEvidence(c).c = c
    /\ \A c, e : WriteEvidence(c, e).op = "writeEvidence" /\ WriteEvidence(c, e).c = c
    /\ \A c : SetReadiness(c).op = "setReadiness" /\ SetReadiness(c).c = c
  BY DEF Stmt, Store, LinkArtifact, Create, CreateAs, Upsert, LinkFinding, SetStatus, Review, DraftStatus,
         Keep, LinkCandidates, ReadPaths, WritePaths, ReadEvidence, WriteEvidence, SetReadiness

\* A list of one statement fits where that statement may come.
LEMMA SingleFits ==
    ASSUME NEW S, NEW K, NEW F, NEW D, NEW m \in Statements,
           m.op \in NeedsFinding => m.f \in S,
           m.op \in NeedsCandidate => m.c \in K,
           m.op = "draftStatus" => m.f \in F /\ (m.s = "forced" \/ m.f \in D),
           m.op = "createFinding" => m.f \notin S
    PROVE  Fits(<<m>>, S, K, F, D)
<1> SUFFICES ASSUME NEW t, t = <<m>>
             PROVE  Fits(t, S, K, F, D)
  OBVIOUS
<1>1. t \in Seq(Statements) /\ Len(t) = 1 /\ \A i \in 1 .. Len(t) : i = 1 /\ t[i] = m
  OBVIOUS
<1>2. ASSUME NEW i \in 1 .. Len(t)
      PROVE  FitsAt(t, i, S, K, F, D)
  BY <1>1 DEF FitsAt
<1> QED
  BY <1>1, <1>2 DEF Fits

\* Once its first statement is done, the rest of a list still fits.
LEMMA TailFits ==
    ASSUME NEW S, NEW K, NEW F, NEW D, NEW t, t # <<>>, Fits(t, S, K, F, D)
    PROVE  Fits(Tail(t), S \cup Creates(Head(t)), K, F \cup Files(Head(t)), D)
<1> SUFFICES ASSUME NEW u, u = Tail(t)
             PROVE  Fits(u, S \cup Creates(Head(t)), K, F \cup Files(Head(t)), D)
  OBVIOUS
<1>1. u \in Seq(Statements) /\ Len(u) = Len(t) - 1 /\ \A i \in 1 .. Len(u) : u[i] = t[i + 1]
  BY DEF Fits
<1>2. \A j \in 1 .. Len(t) : t[j] = Head(t) \/ (j - 1 \in 1 .. Len(u) /\ t[j] = u[j - 1])
  BY <1>1 DEF Fits
<1>3. 1 \in 1 .. Len(t) /\ Head(t) = t[1]
  BY DEF Fits
<1>4. ASSUME NEW i \in 1 .. Len(u)
      PROVE  FitsAt(u, i, S \cup Creates(Head(t)), K, F \cup Files(Head(t)), D)
  <2>1. FitsAt(t, i + 1, S, K, F, D) /\ u[i] = t[i + 1]
    BY <1>1 DEF Fits
  <2>2. i > 1 => u[i - 1] = t[i]
    BY <1>1
  <2>3. \A j \in 1 .. Len(t) : j < i + 1 =>
           t[j] = Head(t) \/ (j - 1 \in 1 .. Len(u) /\ j - 1 < i /\ t[j] = u[j - 1])
    BY <1>1, <1>2
  <2>4. \A j \in 1 .. Len(u) : j < i => u[j] = t[j + 1] /\ j + 1 \in 1 .. Len(t) /\ j + 1 < i + 1
    BY <1>1
  <2>5. u[i].op \in NeedsFinding =>
           u[i].f \in S \cup Creates(Head(t)) \/ \E j \in 1 .. Len(u) : j < i /\ u[i].f \in Creates(u[j])
    BY <2>1, <2>3 DEF FitsAt
  <2>6. u[i].op = "draftStatus" =>
           /\ u[i].f \in F \cup Files(Head(t)) \/ \E j \in 1 .. Len(u) : j < i /\ u[i].f \in Files(u[j])
           /\ u[i].s = "forced" \/ u[i].f \in D
    BY <2>1, <2>3 DEF FitsAt
  <2>7. u[i].op = "createFinding" =>
           /\ u[i].f \notin S \cup Creates(Head(t))
           /\ \A j \in 1 .. Len(u) : j < i => u[i].f \notin Creates(u[j])
    BY <1>3, <2>1, <2>4 DEF FitsAt
  <2> QED
    BY <2>1, <2>2, <2>5, <2>6, <2>7 DEF FitsAt
<1> QED
  BY <1>1, <1>4 DEF Fits

\* A list still fits when there are more rows, none of them of a finding it is
\* to create, and no finding it is to draft has been rejected since.
LEMMA MoreRows ==
    ASSUME NEW S, NEW K, NEW F, NEW D, NEW t, Fits(t, S, K, F, D),
           NEW S2, NEW K2, NEW F2, NEW D2,
           S \subseteq S2, K \subseteq K2, F \subseteq F2,
           (S2 \ S) \cap CreatedIn(t) = {},
           D \cap DraftedIn(t) \subseteq D2
    PROVE  Fits(t, S2, K2, F2, D2)
<1> SUFFICES ASSUME NEW i \in 1 .. Len(t)
             PROVE  FitsAt(t, i, S2, K2, F2, D2)
  BY DEF Fits
<1>1. FitsAt(t, i, S, K, F, D)
  BY DEF Fits
<1>2. t[i].op = "draftStatus" => t[i].f \in DraftedIn(t)
  BY DEF DraftedIn
<1>3. t[i].op = "createFinding" => t[i].f \in CreatedIn(t)
  BY DEF CreatedIn
<1>4. t[i].op = "createFinding" => t[i].f \notin S2
  BY <1>1, <1>3 DEF FitsAt
<1>5. t[i].op = "draftStatus" => t[i].s = "forced" \/ t[i].f \in D2
  BY <1>1, <1>2 DEF FitsAt
<1> QED
  BY <1>1, <1>4, <1>5 DEF FitsAt

\* What stands where in one list after another.
LEMMA ConcatFacts ==
    ASSUME NEW s \in Seq(Statements), NEW t \in Seq(Statements), NEW u, u = s \o t
    PROVE  /\ u \in Seq(Statements) /\ Len(u) = Len(s) + Len(t)
           /\ \A i \in 1 .. Len(s) : i \in 1 .. Len(u) /\ u[i] = s[i]
           /\ \A i \in 1 .. Len(t) : i + Len(s) \in 1 .. Len(u) /\ u[i + Len(s)] = t[i]
           /\ \A i \in 1 .. Len(u) : \/ i \in 1 .. Len(s) /\ u[i] = s[i]
                                     \/ i - Len(s) \in 1 .. Len(t) /\ u[i] = t[i - Len(s)]
  OBVIOUS

\* What one list after another creates and files.
LEMMA ConcatSets ==
    ASSUME NEW s \in Seq(Statements), NEW t \in Seq(Statements)
    PROVE  /\ CreatedIn(s \o t) = CreatedIn(s) \cup CreatedIn(t)
           /\ FiledIn(s \o t) = FiledIn(s) \cup FiledIn(t)
<1> SUFFICES ASSUME NEW u, u = s \o t
             PROVE  /\ CreatedIn(u) = CreatedIn(s) \cup CreatedIn(t)
                    /\ FiledIn(u) = FiledIn(s) \cup FiledIn(t)
  OBVIOUS
<1>1. CreatedIn(u) \subseteq CreatedIn(s) \cup CreatedIn(t)
  BY ConcatFacts DEF CreatedIn
<1>2. ASSUME NEW i \in 1 .. Len(s), s[i].op = "createFinding"
      PROVE  s[i].f \in CreatedIn(u)
  BY <1>2, ConcatFacts, i \in 1 .. Len(u) DEF CreatedIn
<1>3. ASSUME NEW i \in 1 .. Len(t), t[i].op = "createFinding"
      PROVE  t[i].f \in CreatedIn(u)
  <2>1. PICK k \in 1 .. Len(u) : u[k] = t[i]
    BY ConcatFacts
  <2> QED
    BY <1>3, <2>1 DEF CreatedIn
<1>4. FiledIn(u) \subseteq FiledIn(s) \cup FiledIn(t)
  BY ConcatFacts DEF FiledIn
<1>5. ASSUME NEW i \in 1 .. Len(s), s[i].op = "keep", s[i].s = "file"
      PROVE  s[i].f \in FiledIn(u)
  BY <1>5, ConcatFacts, i \in 1 .. Len(u) DEF FiledIn
<1>6. ASSUME NEW i \in 1 .. Len(t), t[i].op = "keep", t[i].s = "file"
      PROVE  t[i].f \in FiledIn(u)
  <2>1. PICK k \in 1 .. Len(u) : u[k] = t[i]
    BY ConcatFacts
  <2> QED
    BY <1>6, <2>1 DEF FiledIn
<1>7. CreatedIn(s) \subseteq CreatedIn(u) /\ CreatedIn(t) \subseteq CreatedIn(u)
  BY <1>2, <1>3 DEF CreatedIn
<1>8. FiledIn(s) \subseteq FiledIn(u) /\ FiledIn(t) \subseteq FiledIn(u)
  BY <1>5, <1>6 DEF FiledIn
<1> QED
  BY <1>1, <1>4, <1>7, <1>8

\* One whole list after another is whole, if the second reckons with what the
\* first creates and files.
LEMMA ConcatWhole ==
    ASSUME NEW S, NEW K, NEW F, NEW D, NEW s, NEW t,
           Whole(s, S, K, F, D), Whole(t, S \cup CreatedIn(s), K, F \cup FiledIn(s), D)
    PROVE  Whole(s \o t, S, K, F, D)
<1> SUFFICES ASSUME NEW u, u = s \o t
             PROVE  Whole(u, S, K, F, D)
  OBVIOUS
<1>1. s \in Seq(Statements) /\ t \in Seq(Statements)
  BY DEF Whole, Fits
<1>2. /\ u \in Seq(Statements) /\ Len(u) = Len(s) + Len(t) /\ Len(s) \in Nat /\ Len(t) \in Nat
      /\ \A i \in 1 .. Len(s) : i \in 1 .. Len(u) /\ u[i] = s[i]
      /\ \A i \in 1 .. Len(t) : i + Len(s) \in 1 .. Len(u) /\ u[i + Len(s)] = t[i]
      /\ \A i \in 1 .. Len(u) : \/ i \in 1 .. Len(s) /\ u[i] = s[i]
                                \/ i - Len(s) \in 1 .. Len(t) /\ u[i] = t[i - Len(s)]
  BY <1>1, ConcatFacts
<1>3. ASSUME NEW i \in 1 .. Len(s)
      PROVE  FitsAt(u, i, S, K, F, D)
  <2>1. FitsAt(s, i, S, K, F, D) /\ u[i] = s[i] /\ (i > 1 => u[i - 1] = s[i - 1])
    <3>1. FitsAt(s, i, S, K, F, D)
      BY DEF Whole, Fits
    <3>2. i > 1 => i - 1 \in 1 .. Len(s)
      BY <1>2
    <3> QED
      BY <1>2, <3>1, <3>2
  <2>2. \A j \in 1 .. Len(u) : j < i => j \in 1 .. Len(s) /\ u[j] = s[j]
    BY <1>2
  <2>3. \A j \in 1 .. Len(s) : j \in 1 .. Len(u) /\ u[j] = s[j]
    BY <1>2
  <2> QED
    BY <2>1, <2>2, <2>3 DEF FitsAt
<1>4. ASSUME NEW k \in 1 .. Len(t)
      PROVE  FitsAt(u, k + Len(s), S, K, F, D)
  <2> DEFINE i == k + Len(s)
  <2>1. FitsAt(t, k, S \cup CreatedIn(s), K, F \cup FiledIn(s), D)
    BY DEF Whole, Fits
  <2>2. i \in 1 .. Len(u) /\ u[i] = t[k] /\ (k > 1 => u[i - 1] = t[k - 1])
    BY <1>2
  <2>3. \A j \in 1 .. Len(t) : j < k =>
           j + Len(s) \in 1 .. Len(u) /\ j + Len(s) < i /\ u[j + Len(s)] = t[j]
    BY <1>2
  <2>4. \A j \in 1 .. Len(s) : j \in 1 .. Len(u) /\ j < i /\ u[j] = s[j]
    BY <1>2
  <2>5. \A j \in 1 .. Len(u) : j < i =>
           \/ j \in 1 .. Len(s) /\ u[j] = s[j]
           \/ j - Len(s) \in 1 .. Len(t) /\ j - Len(s) < k /\ u[j] = t[j - Len(s)]
    BY <1>2
  <2>6. t[k].op = "writePaths" => k > 1
    BY <1>1 DEF Whole
  <2>7. \A f \in CreatedIn(s) : \E j \in 1 .. Len(u) : j < i /\ f \in Creates(u[j])
    BY <2>4 DEF CreatedIn, Creates
  <2>8. \A f \in FiledIn(s) : \E j \in 1 .. Len(u) : j < i /\ f \in Files(u[j])
    BY <2>4 DEF FiledIn, Files
  <2>9. \A j \in 1 .. Len(s) : Creates(s[j]) \subseteq CreatedIn(s)
    BY DEF CreatedIn, Creates
  <2> HIDE DEF i
  <2>10. t[k].op \in NeedsFinding =>
            t[k].f \in S \/ \E j \in 1 .. Len(u) : j < i /\ t[k].f \in Creates(u[j])
    BY <2>1, <2>3, <2>7 DEF FitsAt
  <2>11. t[k].op = "draftStatus" =>
            /\ t[k].f \in F \/ \E j \in 1 .. Len(u) : j < i /\ t[k].f \in Files(u[j])
            /\ t[k].s = "forced" \/ t[k].f \in D
    BY <2>1, <2>3, <2>8 DEF FitsAt
  <2>12. t[k].op = "createFinding" =>
            t[k].f \notin S /\ \A j \in 1 .. Len(u) : j < i => t[k].f \notin Creates(u[j])
    BY <2>1, <2>5, <2>9 DEF FitsAt
  <2>13. t[k].op = "writePaths" /\ i > 1 => u[i - 1].op = "readPaths" /\ u[i - 1].f = t[k].f
    BY <2>1, <2>2, <2>6 DEF FitsAt
  <2>14. t[k].op \in NeedsCandidate => t[k].c \in K
    BY <2>1 DEF FitsAt
  <2>15. FitsAt(u, i, S, K, F, D)
    BY <2>2, <2>10, <2>11, <2>12, <2>13, <2>14 DEF FitsAt
  <2> QED
    BY <2>15 DEF i
<1>5. ASSUME NEW i \in 1 .. Len(u)
      PROVE  FitsAt(u, i, S, K, F, D)
  <2>1. i \in 1 .. Len(s) \/ \E k \in 1 .. Len(t) : i = k + Len(s)
    BY <1>2
  <2> QED
    BY <1>3, <1>4, <2>1
<1>6. u # <<>> => u[1].op # "writePaths"
  <2>1. u # <<>> => 1 \in 1 .. Len(u) /\ (s # <<>> \/ t # <<>>)
    BY <1>1, <1>2
  <2>2. s # <<>> => 1 \in 1 .. Len(s)
    BY <1>1
  <2>3. s = <<>> => Len(s) = 0
    BY <1>1
  <2> QED
    BY <1>2, <2>1, <2>2, <2>3 DEF Whole
<1> QED
  BY <1>2, <1>5, <1>6 DEF Whole, Fits

\* A list of one statement that writes no list back is whole.
LEMMA SingleWhole ==
    ASSUME NEW S, NEW K, NEW F, NEW D, NEW m \in Statements, m.op # "writePaths",
           m.op \in NeedsFinding => m.f \in S,
           m.op \in NeedsCandidate => m.c \in K,
           m.op = "draftStatus" => m.f \in F /\ (m.s = "forced" \/ m.f \in D),
           m.op = "createFinding" => m.f \notin S
    PROVE  Whole(<<m>>, S, K, F, D) /\ CreatedIn(<<m>>) = Creates(m) /\ FiledIn(<<m>>) = Files(m)
<1>1. Fits(<<m>>, S, K, F, D)
  BY SingleFits
<1>2. CreatedIn(<<m>>) = Creates(m)
  BY DEF CreatedIn, Creates
<1>3. FiledIn(<<m>>) = Files(m)
  BY DEF FiledIn, Files
<1> QED
  BY <1>1, <1>2, <1>3 DEF Whole

\* One list that creates nothing after another.
LEMMA ConcatQuiet ==
    ASSUME NEW S, NEW K, NEW F, NEW D, NEW s, NEW t,
           Quiet(s, S, K, F, D), Quiet(t, S, K, F \cup FiledIn(s), D)
    PROVE  Quiet(s \o t, S, K, F, D)
<1>1. s \in Seq(Statements) /\ t \in Seq(Statements)
  BY DEF Quiet, Whole, Fits
<1>2. S \cup CreatedIn(s) = S
  BY DEF Quiet
<1>3. Whole(s \o t, S, K, F, D)
  BY <1>2, ConcatWhole DEF Quiet
<1> QED
  BY <1>1, <1>3, ConcatSets DEF Quiet

\* Programs, whole and quiet, one after another are one such program.
LEMMA EachQuiet ==
    ASSUME NEW S, NEW K, NEW F, NEW D, NEW k \in {3, 4}, NEW program,
           IsFiniteSet(DOMAIN program),
           \A x \in DOMAIN program : Len(program[x]) = k /\ Quiet(program[x], S, K, F, D),
           NEW u \in Each(program, k)
    PROVE  Quiet(u, S, K, F, D)
<1> DEFINE n == Cardinality(DOMAIN program)
<1>1. n \in Nat
  BY FS_CardinalityType
<1> HIDE DEF n
<1>2. PICK row \in [1 .. n -> DOMAIN program] :
         u = [i \in 1 .. k * n |-> program[row[((i - 1) \div k) + 1]][((i - 1) % k) + 1]]
  BY DEF Each, SetToSeqs, n
<1>3. k * n \in Nat
  BY <1>1
<1>4. ASSUME NEW i \in 1 .. k * n
      PROVE  \E b \in 0 .. n - 1, r \in 1 .. k : i = k * b + r
  <2>1. CASE k = 3
    BY <1>1, <2>1, i = 3 * ((i - 1) \div 3) + (((i - 1) % 3) + 1)
  <2>2. CASE k = 4
    BY <1>1, <2>2, i = 4 * ((i - 1) \div 4) + (((i - 1) % 4) + 1)
  <2> QED
    BY <2>1, <2>2
<1>5. ASSUME NEW b \in 0 .. n - 1, NEW r \in 1 .. k
      PROVE  /\ k * b + r \in 1 .. k * n
             /\ u[k * b + r] = program[row[b + 1]][r]
             /\ row[b + 1] \in DOMAIN program
  <2>1. k * b + r \in 1 .. k * n
    BY <1>1
  <2>2. ((k * b + r - 1) \div k) + 1 = b + 1 /\ ((k * b + r - 1) % k) + 1 = r
    BY <1>1
  <2>4. b + 1 \in 1 .. n
    BY <1>1
  <2>5. row[b + 1] \in DOMAIN program
    BY <1>2, <2>4
  <2>6. u[k * b + r] = program[row[b + 1]][r]
    <3>1. ASSUME NEW i \in 1 .. k * n, NEW x, NEW y, ((i - 1) \div k) + 1 = x, ((i - 1) % k) + 1 = y
          PROVE  u[i] = program[row[x]][y]
      BY <1>2, <3>1, Zenon
    <3> QED
      BY <2>1, <2>2, <3>1
  <2> QED
    BY <2>1, <2>5, <2>6
<1>6. u \in Seq(Statements) /\ Len(u) = k * n
  <2>1. ASSUME NEW i \in 1 .. k * n
        PROVE  u[i] \in Statements
    <3>1. PICK b \in 0 .. n - 1, r \in 1 .. k : i = k * b + r
      BY <1>4
    <3>2. u[i] = program[row[b + 1]][r] /\ row[b + 1] \in DOMAIN program
      BY <1>5, <3>1
    <3> QED
      BY <3>2 DEF Quiet, Whole, Fits
  <2>2. u = [i \in 1 .. k * n |-> u[i]]
    BY <1>2
  <2> QED
    BY <1>3, <2>1, <2>2
<1>7. ASSUME NEW b \in 0 .. n - 1, NEW r \in 1 .. k
      PROVE  /\ FitsAt(u, k * b + r, S, K, F, D)
             /\ u[k * b + r].op # "createFinding"
             /\ r = 1 => u[k * b + r].op # "writePaths"
  <2> DEFINE t == program[row[b + 1]]
             i == k * b + r
  <2>1. Len(t) = k /\ t \in Seq(Statements) /\ FitsAt(t, r, S, K, F, D)
           /\ CreatedIn(t) = {} /\ t[1].op # "writePaths"
    BY <1>5 DEF Quiet, Whole, Fits
  <2>2. u[i] = t[r] /\ i \in 1 .. Len(u)
    BY <1>5, <1>6
  <2>3. r > 1 => u[i - 1] = t[r - 1]
    <3>1. r > 1 => r - 1 \in 1 .. k /\ k * b + (r - 1) = i - 1
      BY <1>1
    <3> QED
      BY <1>5, <3>1
  <2>4. \A j \in 1 .. Len(t) : j < r => k * b + j \in 1 .. Len(u) /\ k * b + j < i /\ u[k * b + j] = t[j]
    BY <1>1, <1>5, <1>6, <2>1
  <2>5. \A j \in 1 .. Len(t) : t[j].op # "createFinding"
    BY <2>1 DEF CreatedIn
  <2>6. i > 1 /\ t[r].op = "writePaths" => r > 1
    BY <2>1
  <2>7. r \in 1 .. Len(t)
    BY <2>1
  <2> HIDE DEF t, i
  <2>8. \A j \in 1 .. Len(t) : Creates(t[j]) = {}
    BY <2>5 DEF Creates
  <2>9. t[r].op \in NeedsFinding => t[r].f \in S
    BY <2>1, <2>8 DEF FitsAt
  <2>10. t[r].op = "draftStatus" =>
            /\ t[r].f \in F \/ \E j \in 1 .. Len(u) : j < i /\ t[r].f \in Files(u[j])
            /\ t[r].s = "forced" \/ t[r].f \in D
    BY <2>1, <2>4 DEF FitsAt
  <2>11. t[r].op = "writePaths" /\ i > 1 => u[i - 1].op = "readPaths" /\ u[i - 1].f = t[r].f
    BY <2>1, <2>3, <2>6 DEF FitsAt
  <2>12. t[r].op \in NeedsCandidate => t[r].c \in K
    BY <2>1 DEF FitsAt
  <2>13. FitsAt(u, i, S, K, F, D) /\ u[i].op # "createFinding" /\ (r = 1 => u[i].op # "writePaths")
    BY <2>1, <2>2, <2>5, <2>7, <2>9, <2>10, <2>11, <2>12 DEF FitsAt
  <2> QED
    BY <2>13 DEF i
<1>8. ASSUME NEW i \in 1 .. Len(u)
      PROVE  FitsAt(u, i, S, K, F, D) /\ u[i].op # "createFinding"
  <2>1. PICK b \in 0 .. n - 1, r \in 1 .. k : i = k * b + r
    BY <1>4, <1>6
  <2> QED
    BY <1>7, <2>1
<1>9. u # <<>> => u[1].op # "writePaths"
  <2>1. u # <<>> => n > 0
    BY <1>1, <1>6
  <2>2. u # <<>> => 0 \in 0 .. n - 1 /\ 1 \in 1 .. k /\ k * 0 + 1 = 1
    BY <1>1, <2>1
  <2> QED
    BY <1>7, <2>2
<1> QED
  BY <1>6, <1>8, <1>9 DEF Quiet, Whole, Fits, CreatedIn

---------------------------------------------------------------------------
(***************************************************************************)
(* The programs of the commands.                                           *)
(***************************************************************************)

\* A list of one statement that creates nothing.
LEMMA SingleQuiet ==
    ASSUME NEW S, NEW K, NEW F, NEW D, NEW m \in Statements,
           m.op \notin {"writePaths", "createFinding"},
           m.op \in NeedsFinding => m.f \in S,
           m.op \in NeedsCandidate => m.c \in K,
           m.op = "draftStatus" => m.f \in F /\ (m.s = "forced" \/ m.f \in D)
    PROVE  Quiet(<<m>>, S, K, F, D) /\ FiledIn(<<m>>) = Files(m)
<1>1. Whole(<<m>>, S, K, F, D) /\ CreatedIn(<<m>>) = Creates(m) /\ FiledIn(<<m>>) = Files(m)
  BY SingleWhole
<1>2. Creates(m) = {}
  BY DEF Creates
<1> QED
  BY <1>1, <1>2 DEF Quiet

\* Lists of two and three statements are put together from those of one.
LEMMA Lists ==
    ASSUME NEW a \in Statements, NEW b \in Statements, NEW c \in Statements
    PROVE  <<a, b>> = <<a>> \o <<b>> /\ <<a, b, c>> = (<<a>> \o <<b>>) \o <<c>>
<1>1. <<a, b>> = <<a>> \o <<b>>
  <2> SUFFICES ASSUME NEW s, s = <<a, b>>, NEW t, t = <<a>> \o <<b>>
               PROVE  s = t
    OBVIOUS
  <2>1. s \in Seq(Statements) /\ Len(s) = 2 /\ s[1] = a /\ s[2] = b
    OBVIOUS
  <2>2. t \in Seq(Statements) /\ Len(t) = 2 /\ t[1] = a /\ t[2] = b
    OBVIOUS
  <2>3. ASSUME NEW i \in 1 .. Len(s)
        PROVE  s[i] = t[i]
    <3>1. i = 1 \/ i = 2
      BY <2>1
    <3> QED
      BY <2>1, <2>2, <3>1
  <2> QED
    BY <2>1, <2>2, <2>3, SeqEqual
<1>2. <<a, b, c>> = <<a, b>> \o <<c>>
  <2> SUFFICES ASSUME NEW s, s = <<a, b, c>>, NEW t, t = <<a, b>> \o <<c>>
               PROVE  s = t
    OBVIOUS
  <2>1. s \in Seq(Statements) /\ Len(s) = 3 /\ s[1] = a /\ s[2] = b /\ s[3] = c
    OBVIOUS
  <2>2. t \in Seq(Statements) /\ Len(t) = 3 /\ t[1] = a /\ t[2] = b /\ t[3] = c
    OBVIOUS
  <2> QED
    BY <2>1, <2>2, SeqEqual
<1> QED
  BY <1>1, <1>2

\* linkEvidencePath.
LEMMA AttachPathQuiet ==
    ASSUME NEW S, NEW K, NEW F, NEW D, NEW f \in Findings, f \in S, NEW e \in Artifacts
    PROVE  Quiet(AttachPath(f, e), S, K, F, D) /\ Len(AttachPath(f, e)) = 2
<1> SUFFICES ASSUME NEW m, m = ReadPaths(f), NEW n, n = WritePaths(f, e), NEW t, t = <<m, n>>
             PROVE  Quiet(t, S, K, F, D) /\ Len(t) = 2
  BY DEF AttachPath
<1>1. /\ m \in Statements /\ m.op = "readPaths" /\ m.f = f
      /\ n \in Statements /\ n.op = "writePaths" /\ n.f = f
  BY StatementTypes, StatementFields
<1>2. t \in Seq(Statements) /\ Len(t) = 2 /\ t[1] = m /\ t[2] = n
  BY <1>1
<1>3. FitsAt(t, 1, S, K, F, D) /\ FitsAt(t, 2, S, K, F, D)
  BY <1>1, <1>2 DEF FitsAt, NeedsFinding, NeedsCandidate
<1>4. \A i \in 1 .. Len(t) : i = 1 \/ i = 2
  BY <1>2
<1>5. CreatedIn(t) = {}
  BY <1>1, <1>2, <1>4 DEF CreatedIn
<1> QED
  BY <1>1, <1>2, <1>3, <1>4, <1>5 DEF Quiet, Whole, Fits

\* The programs that attach evidence to a finding which is there.
LEMMA EvidenceQuiet ==
    ASSUME NEW S, NEW K, NEW F, NEW D, NEW f \in Findings, f \in S, NEW e \in Artifacts
    PROVE  /\ Quiet(Link(e, f), S, K, F, D) /\ Len(Link(e, f)) = 3
           /\ Quiet(Filed(e, f), S, K, F, D)
<1>1. \A m : (m = LinkArtifact(e, f) \/ m = Store(e, f)) => Quiet(<<m>>, S, K, F, D)
  BY StatementTypes, StatementFields, SingleQuiet DEF NeedsFinding, NeedsCandidate
<1>2. Quiet(AttachPath(f, e), S, K, F \cup FiledIn(<<LinkArtifact(e, f)>>), D)
  BY AttachPathQuiet
<1>3. Quiet(AttachPath(f, e), S, K, F \cup FiledIn(<<Store(e, f)>>), D)
  BY AttachPathQuiet
<1>4. Len(Link(e, f)) = 3
  BY DEF Link, AttachPath
<1> QED
  BY <1>1, <1>2, <1>3, <1>4, ConcatQuiet DEF Link, Filed

\* linkEvidence, refreshCandidateReadiness, and what runHuntPlaybook does for
\* every candidate.
LEMMA CandidateQuiet ==
    ASSUME NEW S, NEW K, NEW F, NEW D, NEW c \in Candidates, c \in K, NEW e \in Artifacts
    PROVE  /\ Quiet(LinkEvidence(c, e), S, K, F, D)
           /\ Quiet(LinkEvidence(c, e) \o Refresh(c), S, K, F, D)
           /\ Len(LinkEvidence(c, e) \o Refresh(c)) = 4
<1> DEFINE read == ReadEvidence(c)
           write == WriteEvidence(c, e)
           ready == SetReadiness(c)
<1>1. /\ read \in Statements /\ read.op = "readEvidence" /\ read.c = c
      /\ write \in Statements /\ write.op = "writeEvidence" /\ write.c = c
      /\ ready \in Statements /\ ready.op = "setReadiness" /\ ready.c = c
  <2>1. read \in Statements /\ write \in Statements /\ ready \in Statements
    BY StatementTypes
  <2> QED
    BY <2>1, StatementFields
<1> HIDE DEF read, write, ready
<1>2. ASSUME NEW X
      PROVE  Quiet(<<read>>, S, K, X, D) /\ Quiet(<<write>>, S, K, X, D) /\ Quiet(<<ready>>, S, K, X, D)
  BY <1>1, SingleQuiet DEF NeedsFinding
<1>3. ASSUME NEW X
      PROVE  Quiet(<<read, write>>, S, K, X, D) /\ Quiet(<<read, ready>>, S, K, X, D)
  <2>1. <<read, write>> = <<read>> \o <<write>> /\ <<read, ready>> = <<read>> \o <<ready>>
    BY <1>1, Lists
  <2>2. Quiet(<<read>> \o <<write>>, S, K, X, D)
    BY <1>2, ConcatQuiet
  <2>3. Quiet(<<read>> \o <<ready>>, S, K, X, D)
    BY <1>2, ConcatQuiet
  <2> QED
    BY <2>1, <2>2, <2>3
<1>4. \A X : Quiet(LinkEvidence(c, e), S, K, X, D) /\ Quiet(Refresh(c), S, K, X, D)
  BY <1>3 DEF LinkEvidence, Refresh, read, write, ready
<1>5. Len(LinkEvidence(c, e) \o Refresh(c)) = 4
  BY DEF LinkEvidence, Refresh
<1> QED
  BY <1>4, <1>5, ConcatQuiet

\* draftFindingReport, and the reports phase of `run`: the report is on disk
\* before the finding says so.
LEMMA DraftQuiet ==
    ASSUME NEW S, NEW K, NEW F, NEW D, NEW f \in Findings, f \in S,
           NEW s \in {"checked", "forced"}, s = "forced" \/ f \in D
    PROVE  /\ Quiet(Draft(f, s), S, K, F, D)
           /\ s = "checked" => Quiet(DraftInRun(f), S, K, F, D) /\ Len(DraftInRun(f)) = 3
<1> DEFINE file == Keep(f, "file")
           report == Keep(f, "report")
           status == DraftStatus(f, s)
<1>1. /\ file \in Statements /\ file.op = "keep" /\ file.f = f /\ file.s = "file"
      /\ report \in Statements /\ report.op = "keep" /\ report.f = f
      /\ status \in Statements /\ status.op = "draftStatus" /\ status.f = f /\ status.s = s
  BY StatementTypes, StatementFields
<1> HIDE DEF file, report, status
<1>2. ASSUME NEW X
      PROVE  /\ Quiet(<<file>>, S, K, X, D) /\ f \in FiledIn(<<file>>)
             /\ Quiet(<<report>>, S, K, X, D)
             /\ f \in X => Quiet(<<status>>, S, K, X, D)
  <2>1. Quiet(<<file>>, S, K, X, D) /\ FiledIn(<<file>>) = Files(file) /\ Quiet(<<report>>, S, K, X, D)
    BY <1>1, SingleQuiet DEF NeedsFinding, NeedsCandidate
  <2>2. f \in X => Quiet(<<status>>, S, K, X, D)
    BY <1>1, SingleQuiet DEF NeedsFinding, NeedsCandidate
  <2> QED
    BY <1>1, <2>1, <2>2 DEF Files
<1>3. /\ f \in FiledIn(<<file>> \o <<report>>)
      /\ <<file, report, status>> = (<<file>> \o <<report>>) \o <<status>>
      /\ <<file, status, report>> = (<<file>> \o <<status>>) \o <<report>>
  <2>1. f \in FiledIn(<<file>> \o <<report>>)
    BY <1>1, <1>2, ConcatSets, <<file>> \in Seq(Statements), <<report>> \in Seq(Statements)
  <2>2. file \in Statements /\ report \in Statements /\ status \in Statements
    BY <1>1
  <2>3. <<file, report, status>> = (<<file>> \o <<report>>) \o <<status>>
    BY <2>2, Lists, Zenon
  <2>4. <<file, status, report>> = (<<file>> \o <<status>>) \o <<report>>
    BY <2>2, Lists, Zenon
  <2> QED
    BY <2>1, <2>3, <2>4
<1>4. Quiet(<<file, status, report>>, S, K, F, D)
  <2>1. Quiet(<<file>> \o <<status>>, S, K, F, D)
    BY <1>2, ConcatQuiet
  <2> QED
    BY <1>2, <1>3, <2>1, ConcatQuiet
<1>5. Quiet(<<file, report, status>>, S, K, F, D)
  <2>1. Quiet(<<file>> \o <<report>>, S, K, F, D)
    BY <1>2, ConcatQuiet
  <2> QED
    BY <1>2, <1>3, <2>1, ConcatQuiet
<1> QED
  BY <1>4, <1>5 DEF Draft, DraftInRun, file, report, status

\* What is stored and what is created stand alone.
LEMMA StoreSingle ==
    ASSUME NEW S, NEW K, NEW F, NEW D, NEW e \in Artifacts, NEW f \in Findings \cup {None}
    PROVE  Quiet(<<Store(e, f)>>, S, K, F, D)
<1>1. Store(e, f) \in Statements /\ Store(e, f).op = "storeArtifact"
  BY StatementTypes, StatementFields
<1> QED
  BY <1>1, SingleQuiet DEF NeedsFinding, NeedsCandidate

\* A finding that has no row yet may be created.
LEMMA CreateSingle ==
    ASSUME NEW S, NEW K, NEW F, NEW D, NEW f \in Findings, f \notin S,
           NEW create, (\E e \in Artifacts \cup {None} : create = Create(f, e))
                       \/ (\E s \in FindingStatuses : create = CreateAs(f, s))
    PROVE  Whole(<<create>>, S, K, F, D) /\ CreatedIn(<<create>>) = {f}
<1>1. create \in Statements /\ create.op = "createFinding" /\ create.f = f
  BY StatementTypes, StatementFields
<1>2. Whole(<<create>>, S, K, F, D) /\ CreatedIn(<<create>>) = Creates(create)
  BY <1>1, SingleWhole DEF NeedsFinding, NeedsCandidate
<1> QED
  BY <1>1, <1>2 DEF Creates

\* A candidate comes after the finding it names.
LEMMA SignalCreates ==
    ASSUME NEW c \in Candidates, NEW e \in Artifacts, NEW f \in Findings
    PROVE  CreatedIn(Signal(c, e, f)) = {f}
<1> DEFINE create == Create(f, e)
           link == LinkArtifact(e, f)
           upsert == Upsert(c, e, f)
<1>1. /\ create.op = "createFinding" /\ create.f = f
      /\ link.op = "linkArtifact" /\ upsert.op = "upsertCandidate"
  BY StatementFields
<1> HIDE DEF create, link, upsert
<1>2. PICK t : t = <<create, link, upsert>>
  OBVIOUS
<1>3. Len(t) = 3 /\ t[1] = create /\ t[2] = link /\ t[3] = upsert
  BY <1>2
<1>4. CreatedIn(t) = {f}
  BY <1>1, <1>3 DEF CreatedIn
<1> QED
  BY <1>2, <1>4 DEF Signal, create, link, upsert

\* A signal makes its finding before the candidate that names it.
LEMMA SignalWhole ==
    ASSUME NEW S, NEW K, NEW F, NEW D, NEW c \in Candidates, NEW e \in Artifacts,
           NEW f \in Findings, f \notin S
    PROVE  Whole(Signal(c, e, f), S, K, F, D)
<1> DEFINE create == Create(f, e)
           link == LinkArtifact(e, f)
           upsert == Upsert(c, e, f)
<1>1. create \in Statements /\ link \in Statements /\ upsert \in Statements
  BY StatementTypes
<1>2. link.op = "linkArtifact" /\ upsert.op = "upsertCandidate" /\ upsert.f = f
  BY StatementFields
<1>3. Whole(<<create>>, S, K, F, D) /\ CreatedIn(<<create>>) = {f}
  BY CreateSingle
<1> HIDE DEF create, link, upsert
<1>4. ASSUME NEW T, NEW X, f \in T
      PROVE  Quiet(<<link>>, T, K, X, D) /\ Quiet(<<upsert>>, T, K, X, D)
  BY <1>1, <1>2, <1>4, SingleQuiet DEF NeedsFinding, NeedsCandidate
<1>5. Whole(<<create>> \o <<link>>, S, K, F, D)
  BY <1>3, <1>4, ConcatWhole DEF Quiet
<1>6. CreatedIn(<<create>> \o <<link>>) = {f}
  <2>1. CreatedIn(<<link>>) = {}
    BY <1>4 DEF Quiet
  <2> QED
    BY <1>1, <1>3, <2>1, ConcatSets, <<create>> \in Seq(Statements), <<link>> \in Seq(Statements)
<1>7. Whole((<<create>> \o <<link>>) \o <<upsert>>, S, K, F, D)
  BY <1>4, <1>5, <1>6, ConcatWhole DEF Quiet
<1>8. <<create, link, upsert>> = (<<create>> \o <<link>>) \o <<upsert>>
  BY <1>1, Lists, Zenon
<1> QED
  BY <1>7, <1>8 DEF Signal, create, link, upsert

\* Two programs in a row, of which the second needs no report on disk.
LEMMA ConcatCreating ==
    ASSUME NEW S, NEW K, NEW F, NEW D, NEW s, NEW t, NEW T, T = S \cup CreatedIn(s),
           Whole(s, S, K, F, D), Whole(t, T, K, {}, D)
    PROVE  Whole(s \o t, S, K, F, D)
<1>1. Fits(t, T, K, F \cup FiledIn(s), D)
  BY MoreRows DEF Whole
<1>2. Whole(t, S \cup CreatedIn(s), K, F \cup FiledIn(s), D)
  BY <1>1 DEF Whole
<1> QED
  BY <1>2, ConcatWhole

\* Whole and quiet lists are lists of statements.
LEMMA WholeIsSequence ==
    ASSUME NEW S, NEW K, NEW F, NEW D, NEW s
    PROVE  /\ Whole(s, S, K, F, D) => s \in Seq(Statements)
           /\ Quiet(s, S, K, F, D) => s \in Seq(Statements) /\ CreatedIn(s) = {}
  BY DEF Whole, Quiet, Fits

\* promoteCandidate.
LEMMA PromoteQuiet ==
    ASSUME TypeOK, CandidatesWhole, NEW c \in Candidates, Known(c), NEW F, NEW D,
           NEW program \in Promote(c)
    PROVE  Quiet(program, stored, known, F, D)
<1> DEFINE f == candidate[c].finding
           evidence == EvidenceOf(c)
           links == [e \in evidence |-> Link(e, f)]
           link == LinkFinding(c, f)
<1>1. f \in Findings /\ f \in stored /\ c \in known
  BY DEF TypeOK, CandidatesWhole, stored, known, Known, CandidateRows
<1>2. evidence \subseteq Artifacts
  BY DEF TypeOK, EvidenceOf, Listed, Known, CandidateRows
<1>3. PICK u \in Each(links, 3) : program = u \o <<link>>
  BY DEF Promote
<1>4. link \in Statements /\ link.op = "linkFinding" /\ link.f = f /\ link.c = c
  BY <1>1, StatementTypes, StatementFields
<1> HIDE DEF f, evidence, link
<1>5. IsFiniteSet(evidence)
  BY <1>2, FiniteAssumption, FS_Subset
<1>6. DOMAIN links = evidence /\ \A e \in evidence : links[e] = Link(e, f)
  OBVIOUS
<1>7. \A e \in evidence : Len(links[e]) = 3 /\ Quiet(links[e], stored, known, F, D)
  BY <1>1, <1>2, <1>6, EvidenceQuiet
<1> HIDE DEF links
<1>8. Quiet(u, stored, known, F, D)
  BY <1>5, <1>6, <1>7, EachQuiet
<1>9. Quiet(<<link>>, stored, known, F \cup FiledIn(u), D)
  BY <1>1, <1>4, SingleQuiet
<1> QED
  BY <1>3, <1>8, <1>9, ConcatQuiet

\* A command of p begins with a program it can carry out, and creates only
\* findings nobody has or is about to have.
Sound(p, program) == /\ Whole(program, stored, known, filed, Decided(p))
                     /\ CreatedIn(program) \subseteq NewFindings

WellBegun(p) == \E program : Begin(p, program) /\ Sound(p, program)

\* What is drawn from a set is in it.
LEMMA DrawIn == \A ids : Draw(ids) \subseteq ids
  BY DEF Draw

\* Ids not used yet are ids, and name no row.
LEMMA NewOnes == /\ NewArtifacts \subseteq Artifacts /\ NewFindings \subseteq Findings
                 /\ NewFindings \cap stored = {}
  BY DEF NewArtifacts, NewFindings, stored

\* A command that creates no finding begins well if its program is quiet.
LEMMA QuietIsSound ==
    ASSUME NEW p, NEW program, Quiet(program, stored, known, filed, Decided(p))
    PROVE  Sound(p, program)
  BY DEF Quiet, Sound

\* A detection creates one finding for each signal, and different ones.
LEMMA DetectBegins ==
    ASSUME NEW p \in Procs, Detect(p)
    PROVE  WellBegun(p)
<1> DEFINE S == stored
           K == known
           F == filed
           D == Decided(p)
<1>1. ASSUME NEW e \in NewArtifacts
      PROVE  LET store == <<Store(e, None)>> IN
             store \in Seq(Statements) /\ CreatedIn(store) = {} /\ Whole(store, S, K, F, D)
  <2>1. Quiet(<<Store(e, None)>>, S, K, F, D)
    BY NewOnes, StoreSingle
  <2> QED
    BY <2>1, WholeIsSequence DEF Quiet
<1>2. ASSUME NEW e \in NewArtifacts, NEW f \in NewFindings
      PROVE  Sound(p, <<Store(e, None), Create(f, e)>>)
  <2> DEFINE store == Store(e, None)
             create == Create(f, e)
  <2>1. e \in Artifacts /\ f \in Findings /\ f \notin S
    BY NewOnes
  <2>2. store \in Statements /\ create \in Statements
    BY <2>1, StatementTypes
  <2>3. Whole(<<create>>, S, K, {}, D) /\ CreatedIn(<<create>>) = {f}
    BY <2>1, CreateSingle
  <2>4. CreatedIn(<<store>>) = {} /\ Whole(<<store>>, S, K, F, D)
    BY <1>1
  <2> HIDE DEF store, create, S, K, F, D
  <2>5. S = S \cup CreatedIn(<<store>>)
    BY <2>4
  <2>6. Whole(<<store>> \o <<create>>, S, K, F, D)
    BY <2>3, <2>4, <2>5, ConcatCreating
  <2>7. CreatedIn(<<store>> \o <<create>>) = {f}
    BY <2>2, <2>3, <2>4, ConcatSets, <<store>> \in Seq(Statements), <<create>> \in Seq(Statements)
  <2>8. <<store, create>> = <<store>> \o <<create>>
    BY <2>2, Lists, Zenon
  <2> QED
    BY <2>6, <2>7, <2>8 DEF Sound, S, K, F, D, store, create
<1>3. ASSUME NEW e \in NewArtifacts, NEW f \in NewFindings, NEW c \in Candidates
      PROVE  LET u == <<Store(e, None)>> \o Signal(c, e, f) IN
             u \in Seq(Statements) /\ CreatedIn(u) = {f} /\ Whole(u, S, K, F, D)
  <2> DEFINE store == <<Store(e, None)>>
             t == Signal(c, e, f)
  <2>1. e \in Artifacts /\ f \in Findings /\ f \notin S
    BY NewOnes
  <2>2. Whole(t, S, K, {}, D)
    BY <2>1, SignalWhole
  <2>3. CreatedIn(t) = {f}
    BY <2>1, SignalCreates
  <2>4. CreatedIn(store) = {} /\ Whole(store, S, K, F, D)
    BY <1>1
  <2> HIDE DEF store, t, S, K, F, D
  <2>5. S = S \cup CreatedIn(store) /\ store \in Seq(Statements) /\ t \in Seq(Statements)
    BY <2>2, <2>4, WholeIsSequence
  <2>6. Whole(store \o t, S, K, F, D)
    BY <2>2, <2>4, <2>5, ConcatCreating
  <2>7. CreatedIn(store \o t) = {f} /\ store \o t \in Seq(Statements)
    BY <2>3, <2>4, <2>5, ConcatSets
  <2> QED
    BY <2>6, <2>7 DEF S, K, F, D, store, t
<1>4. ASSUME NEW e \in NewArtifacts, NEW f \in NewFindings, NEW c \in Candidates
      PROVE  Sound(p, <<Store(e, None)>> \o Signal(c, e, f))
  BY <1>3 DEF Sound
<1>5. ASSUME NEW e \in NewArtifacts, NEW f \in NewFindings, NEW c \in Candidates,
             NEW g \in Draw(NewFindings \ {f}), NEW d \in Candidates
      PROVE  Sound(p, <<Store(e, None)>> \o Signal(c, e, f) \o Signal(d, e, g))
  <2> DEFINE u == <<Store(e, None)>> \o Signal(c, e, f)
             t == Signal(d, e, g)
             T == S \cup {f}
  <2>1. e \in Artifacts /\ g \in NewFindings /\ g \in Findings /\ g \notin T
    BY DrawIn, NewOnes
  <2>2. Whole(t, T, K, {}, D)
    BY <2>1, SignalWhole
  <2>3. CreatedIn(t) = {g}
    BY <2>1, SignalCreates
  <2>4. u \in Seq(Statements) /\ CreatedIn(u) = {f} /\ Whole(u, S, K, F, D)
    BY <1>3
  <2>5. T = S \cup CreatedIn(u)
    BY <2>4
  <2> HIDE DEF u, t, T, S, K, F, D
  <2>6. Whole(u \o t, S, K, F, D)
    BY <2>2, <2>4, <2>5, ConcatCreating
  <2>7. t \in Seq(Statements)
    BY <2>2, WholeIsSequence
  <2>8. CreatedIn(u \o t) = {f, g}
    BY <2>3, <2>4, <2>7, ConcatSets
  <2> QED
    BY <2>1, <2>6, <2>8 DEF Sound, u, t, S, K, F, D
<1> QED
  BY <1>2, <1>4, <1>5, DrawIn DEF Detect, WellBegun

\* runHuntPlaybook: a signal, a note, and the candidates of its finding.
LEMMA HuntBegins ==
    ASSUME NEW p \in Procs, Hunt(p)
    PROVE  WellBegun(p)
<1> PICK e \in NewArtifacts, f \in NewFindings, c \in Candidates, n \in NewArtifacts :
       Begin(p, <<Store(e, None)>> \o Signal(c, e, f) \o Filed(n, f) \o <<LinkCandidates(f, n)>>)
  BY DrawIn DEF Hunt
<1> DEFINE S == stored
           K == known
           F == filed
           D == Decided(p)
           T == S \cup {f}
           store == <<Store(e, None)>>
           signal == Signal(c, e, f)
           note == Filed(n, f)
           link == LinkCandidates(f, n)
<1>1. e \in Artifacts /\ n \in Artifacts /\ f \in Findings /\ f \notin S /\ f \in T
  BY NewOnes
<1>2. Quiet(store, S, K, F, D)
  BY <1>1, StoreSingle
<1>3. Whole(signal, S, K, {}, D)
  BY <1>1, SignalWhole
<1>4. CreatedIn(signal) = {f}
  BY <1>1, SignalCreates
<1>5. link \in Statements /\ link.op = "linkCandidates"
  BY <1>1, StatementTypes, StatementFields
<1>6. Quiet(note, T, K, {}, D)
  BY <1>1, EvidenceQuiet
<1>7. Begin(p, ((store \o signal) \o note) \o <<link>>)
  OBVIOUS
<1> DEFINE detected == store \o signal
           noted == detected \o note
<1> HIDE DEF S, K, F, D, T, store, signal, note, link
<1>8. Quiet(<<link>>, T, K, {}, D)
  BY <1>5, SingleQuiet DEF NeedsFinding, NeedsCandidate
<1>9. /\ store \in Seq(Statements) /\ CreatedIn(store) = {} /\ Whole(store, S, K, F, D)
      /\ signal \in Seq(Statements)
      /\ note \in Seq(Statements) /\ CreatedIn(note) = {} /\ Whole(note, T, K, {}, D)
      /\ <<link>> \in Seq(Statements) /\ CreatedIn(<<link>>) = {} /\ Whole(<<link>>, T, K, {}, D)
  BY <1>2, <1>3, <1>6, <1>8 DEF Quiet, Whole, Fits
<1>10. /\ detected \in Seq(Statements) /\ CreatedIn(detected) = {f}
       /\ Whole(detected, S, K, F, D)
  <2>1. S = S \cup CreatedIn(store)
    BY <1>9
  <2>2. Whole(store \o signal, S, K, F, D)
    BY <1>3, <1>9, <2>1, ConcatCreating
  <2>3. /\ store \in Seq(Statements) /\ CreatedIn(store) = {}
        /\ signal \in Seq(Statements) /\ CreatedIn(signal) = {f}
    BY <1>4, <1>9
  <2>4. CreatedIn(store \o signal) = {f}
    BY <2>3, ConcatSets
  <2> QED
    BY <1>9, <2>2, <2>4
<1> HIDE DEF detected
<1>11. /\ noted \in Seq(Statements) /\ CreatedIn(noted) = {f}
       /\ Whole(noted, S, K, F, D)
  <2>1. T = S \cup CreatedIn(detected)
    BY <1>10 DEF T
  <2>2. Whole(detected \o note, S, K, F, D)
    BY <1>9, <1>10, <2>1, ConcatCreating
  <2>3. /\ detected \in Seq(Statements) /\ CreatedIn(detected) = {f}
        /\ note \in Seq(Statements) /\ CreatedIn(note) = {}
    BY <1>9, <1>10
  <2>4. CreatedIn(detected \o note) = {f}
    BY <2>3, ConcatSets
  <2> QED
    BY <1>9, <1>10, <2>2, <2>4
<1> HIDE DEF noted
<1>12. /\ CreatedIn(noted \o <<link>>) = {f}
       /\ Whole(noted \o <<link>>, S, K, F, D)
  <2>1. T = S \cup CreatedIn(noted)
    BY <1>11 DEF T
  <2>2. Whole(noted \o <<link>>, S, K, F, D)
    BY <1>9, <1>11, <2>1, ConcatCreating
  <2>3. /\ noted \in Seq(Statements) /\ CreatedIn(noted) = {f}
        /\ <<link>> \in Seq(Statements) /\ CreatedIn(<<link>>) = {}
    BY <1>9, <1>11
  <2>4. CreatedIn(noted \o <<link>>) = {f}
    BY <2>3, ConcatSets
  <2> QED
    BY <2>2, <2>4
<1> QED
  BY <1>7, <1>12 DEF detected, noted, WellBegun, Sound, S, K, F, D

\* `findings create`: the finding is there before a note is attached to it.
LEMMA CreateByHandBegins ==
    ASSUME NEW p \in Procs, CreateByHand(p)
    PROVE  WellBegun(p)
<1> PICK f \in NewFindings, s \in FindingStatuses :
       \/ Begin(p, <<CreateAs(f, s)>>)
       \/ \E e \in NewArtifacts : Begin(p, <<CreateAs(f, s)>> \o Filed(e, f))
  BY DrawIn DEF CreateByHand
<1> DEFINE S == stored
           K == known
           F == filed
           D == Decided(p)
           T == S \cup {f}
           create == <<CreateAs(f, s)>>
<1>1. f \in Findings /\ f \notin S /\ f \in T
  BY NewOnes
<1>2. Whole(create, S, K, F, D) /\ CreatedIn(create) = {f}
  BY <1>1, CreateSingle
<1>3. CASE Begin(p, create)
  BY <1>2, <1>3 DEF WellBegun, Sound
<1>4. ASSUME NEW e \in NewArtifacts, Begin(p, create \o Filed(e, f))
      PROVE  WellBegun(p)
  <2> DEFINE note == Filed(e, f)
  <2>1. e \in Artifacts
    BY NewOnes
  <2>2. Quiet(note, T, K, {}, D)
    BY <1>1, <2>1, EvidenceQuiet
  <2>3. Begin(p, create \o note)
    BY <1>4
  <2>4. /\ create \in Seq(Statements) /\ note \in Seq(Statements)
        /\ CreatedIn(note) = {} /\ Whole(note, T, K, {}, D) /\ T = S \cup CreatedIn(create)
    BY <1>2, <2>2, WholeIsSequence DEF Quiet
  <2> HIDE DEF S, K, F, D, T, create, note
  <2>5. Whole(create \o note, S, K, F, D)
    BY <1>2, <2>4, ConcatCreating
  <2>6. CreatedIn(create \o note) = {f}
    BY <1>2, <2>4, ConcatSets
  <2> QED
    BY <2>3, <2>5, <2>6 DEF WellBegun, Sound, S, K, F, D
<1> QED
  BY <1>3, <1>4

\* `evidence add`, `evidence record`, `evidence link`, `ai report`.
LEMMA EvidenceBegins ==
    ASSUME TypeOK, CandidatesWhole, NEW p \in Procs,
           RecordEvidence(p) \/ CaptureEvidence(p) \/ AiReport(p) \/ LinkByHand(p)
    PROVE  WellBegun(p)
<1> DEFINE S == stored
           K == known
           F == filed
           D == Decided(p)
<1>1. ASSUME NEW e \in Artifacts, NEW f \in Findings, f \in S, NEW X
      PROVE  /\ Quiet(Link(e, f), S, K, X, D) /\ Quiet(Filed(e, f), S, K, X, D)
             /\ Quiet(AttachPath(f, e), S, K, X, D) /\ Quiet(<<Store(e, f)>>, S, K, X, D)
  BY <1>1, EvidenceQuiet, AttachPathQuiet, StoreSingle
<1>2. \A f \in Findings : Stored(f) => f \in S
  BY DEF stored
<1>3. ASSUME NEW program, Begin(p, program), Quiet(program, S, K, F, D)
      PROVE  WellBegun(p)
  BY <1>3, QuietIsSound DEF WellBegun
<1> HIDE DEF S, K, F, D
<1>4. ASSUME RecordEvidence(p)
      PROVE  WellBegun(p)
  <2>1. ASSUME NEW e \in NewArtifacts
        PROVE  Quiet(<<Store(e, None)>>, S, K, F, D)
    BY NewOnes, StoreSingle
  <2>2. ASSUME NEW e \in NewArtifacts, NEW f \in Findings, Stored(f)
        PROVE  Quiet(Filed(e, f), S, K, F, D)
    BY <1>1, <1>2, <2>2, NewOnes
  <2> QED
    BY <1>3, <1>4, <2>1, <2>2, DrawIn DEF RecordEvidence
<1>5. ASSUME CaptureEvidence(p)
      PROVE  WellBegun(p)
  <2>1. PICK e \in NewArtifacts, f \in Findings, n \in NewArtifacts :
           /\ Stored(f)
           /\ \/ Begin(p, Filed(e, f) \o Filed(n, f))
              \/ Begin(p, <<Store(e, f)>>)
              \/ \E d \in Draw(NewArtifacts \ {e, n}) :
                    Begin(p, <<Store(e, f), Store(d, f)>> \o AttachPath(f, e)
                             \o AttachPath(f, d) \o Filed(n, f))
    BY <1>5, DrawIn DEF CaptureEvidence
  <2>2. e \in Artifacts /\ n \in Artifacts /\ f \in S
    BY <1>2, <2>1, NewOnes
  <2>3. CASE Begin(p, Filed(e, f) \o Filed(n, f))
    <3>1. Quiet(Filed(e, f) \o Filed(n, f), S, K, F, D)
      BY <1>1, <2>2, ConcatQuiet
    <3> QED
      BY <1>3, <2>3, <3>1
  <2>4. CASE Begin(p, <<Store(e, f)>>)
    BY <1>1, <1>3, <2>2, <2>4
  <2>5. ASSUME NEW d \in Draw(NewArtifacts \ {e, n}),
               Begin(p, <<Store(e, f), Store(d, f)>> \o AttachPath(f, e)
                        \o AttachPath(f, d) \o Filed(n, f))
        PROVE  WellBegun(p)
    <3> DEFINE a == Store(e, f)
               b == Store(d, f)
               both == <<a, b>>
               path == AttachPath(f, e)
               other == AttachPath(f, d)
               note == Filed(n, f)
    <3>1. d \in Artifacts
      BY DrawIn, NewOnes
    <3>2. a \in Statements /\ b \in Statements
      BY <2>2, <3>1, StatementTypes
    <3>3. ASSUME NEW X
          PROVE  /\ Quiet(<<a>>, S, K, X, D) /\ Quiet(<<b>>, S, K, X, D)
                 /\ Quiet(path, S, K, X, D) /\ Quiet(other, S, K, X, D) /\ Quiet(note, S, K, X, D)
      BY <1>1, <2>2, <3>1
    <3>4. Begin(p, both \o path \o other \o note)
      BY <2>5
    <3> HIDE DEF a, b, path, other, note
    <3>5. both = <<a>> \o <<b>>
      BY <3>2, Lists, Zenon
    <3>6. Quiet(<<a>> \o <<b>>, S, K, F, D)
      BY <3>3, ConcatQuiet
    <3>7. Quiet(both, S, K, F, D)
      BY <3>5, <3>6
    <3> HIDE DEF both
    <3>8. Quiet(both \o path, S, K, F, D)
      BY <3>3, <3>7, ConcatQuiet
    <3>9. Quiet((both \o path) \o other, S, K, F, D)
      BY <3>3, <3>8, ConcatQuiet
    <3>10. Quiet(((both \o path) \o other) \o note, S, K, F, D)
      BY <3>3, <3>9, ConcatQuiet
    <3> QED
      BY <1>3, <3>4, <3>10
  <2> QED
    BY <2>1, <2>3, <2>4, <2>5
<1>6. ASSUME AiReport(p)
      PROVE  WellBegun(p)
  <2>1. PICK c \in Candidates, e \in NewArtifacts :
           /\ Known(c)
           /\ Begin(p, <<Store(e, candidate[c].finding)>> \o LinkEvidence(c, e)
                       \o AttachPath(candidate[c].finding, e))
    BY <1>6, DrawIn DEF AiReport
  <2> DEFINE f == candidate[c].finding
             store == <<Store(e, f)>>
             link == LinkEvidence(c, e)
             path == AttachPath(f, e)
  <2>2. e \in Artifacts /\ c \in known /\ f \in Findings /\ f \in S
    BY <1>2, <2>1, NewOnes DEF TypeOK, CandidatesWhole, CandidateRows, Known, known
  <2>3. ASSUME NEW X
        PROVE  Quiet(store, S, K, X, D) /\ Quiet(path, S, K, X, D) /\ Quiet(link, S, K, X, D)
    BY <1>1, <2>2, CandidateQuiet DEF K
  <2>4. Begin(p, store \o link \o path)
    BY <2>1
  <2> HIDE DEF f, store, link, path
  <2>5. Quiet(store \o link, S, K, F, D)
    BY <2>3, ConcatQuiet
  <2>6. Quiet((store \o link) \o path, S, K, F, D)
    BY <2>3, <2>5, ConcatQuiet
  <2> QED
    BY <1>3, <2>4, <2>6
<1>7. ASSUME LinkByHand(p)
      PROVE  WellBegun(p)
  BY <1>1, <1>2, <1>3, <1>7 DEF LinkByHand
<1> QED
  BY <1>4, <1>5, <1>6, <1>7

\* `reproduce`, `reports review`, `findings status`, `reports draft` of a finding.
LEMMA MarkBegins ==
    ASSUME NEW p \in Procs,
           Reproduce(p) \/ ReviewByHand(p) \/ MarkByHand(p) \/ DraftFinding(p)
    PROVE  WellBegun(p)
<1> DEFINE S == stored
           K == known
           F == filed
           D == Decided(p)
<1>1. \A f \in Findings : Stored(f) => f \in S
  BY DEF stored
<1>2. ASSUME NEW program, Begin(p, program), Quiet(program, S, K, F, D)
      PROVE  WellBegun(p)
  BY <1>2, QuietIsSound DEF WellBegun
<1> HIDE DEF S, K, F, D
<1>3. ASSUME NEW f \in Findings, NEW X
      PROVE  Quiet(<<Keep(f, "note")>>, S, K, X, D)
  <2>1. Keep(f, "note") \in Statements /\ Keep(f, "note").op = "keep"
    BY StatementTypes, StatementFields
  <2> QED
    BY <2>1, SingleQuiet DEF NeedsFinding, NeedsCandidate
<1>4. ASSUME NEW f \in Findings, f \in S, NEW s \in {"checked", "forced"}
      PROVE  Quiet(<<Review(f, s)>>, S, K, F, D)
  <2>1. Review(f, s) \in Statements /\ Review(f, s).op = "review" /\ Review(f, s).f = f
    BY StatementTypes, StatementFields
  <2> QED
    BY <1>4, <2>1, SingleQuiet DEF NeedsFinding, NeedsCandidate
<1>5. ASSUME NEW f \in Findings, f \in S, NEW s \in FindingStatuses
      PROVE  Quiet(<<SetStatus(f, s), Keep(f, "note")>>, S, K, F, D)
  <2> DEFINE a == SetStatus(f, s)
             b == Keep(f, "note")
  <2>1. a \in Statements /\ a.op = "setStatus" /\ a.f = f /\ b \in Statements
    BY StatementTypes, StatementFields
  <2>2. \A X : Quiet(<<b>>, S, K, X, D)
    BY <1>3
  <2> HIDE DEF a, b
  <2>3. Quiet(<<a>>, S, K, F, D)
    BY <1>5, <2>1, SingleQuiet DEF NeedsFinding, NeedsCandidate
  <2>4. Quiet(<<a>> \o <<b>>, S, K, F, D)
    BY <2>2, <2>3, ConcatQuiet
  <2>5. <<a, b>> = <<a>> \o <<b>>
    <3>1. a \in Statements /\ b \in Statements
      BY <2>1
    <3> QED
      BY <3>1, Lists, Zenon
  <2> QED
    BY <2>4, <2>5 DEF a, b
<1>6. Reproduce(p) \/ ReviewByHand(p) => WellBegun(p)
  BY <1>2, <1>3 DEF Reproduce, ReviewByHand
<1>7. MarkByHand(p) => WellBegun(p)
  BY <1>1, <1>2, <1>5 DEF MarkByHand
<1>8. DraftFinding(p) => WellBegun(p)
  BY <1>1, <1>2, <1>4 DEF DraftFinding
<1> QED
  BY <1>6, <1>7, <1>8

\* `findings promote-candidate`, and `reports draft` of a candidate.
LEMMA PromoteBegins ==
    ASSUME TypeOK, CandidatesWhole, NEW p \in Procs, PromoteByHand(p) \/ DraftCandidate(p)
    PROVE  WellBegun(p)
<1>1. ASSUME NEW program, Begin(p, program), Quiet(program, stored, known, filed, Decided(p))
      PROVE  WellBegun(p)
  BY <1>1, QuietIsSound DEF WellBegun
<1>2. PromoteByHand(p) => WellBegun(p)
  BY <1>1, PromoteQuiet DEF PromoteByHand
<1>3. ASSUME DraftCandidate(p)
      PROVE  WellBegun(p)
  <2>1. PICK c \in Candidates, s \in {"checked", "forced"} :
           /\ Known(c)
           /\ \E program \in Promote(c) : Begin(p, program \o <<Review(candidate[c].finding, s)>>)
    BY <1>3 DEF DraftCandidate
  <2> PICK program \in Promote(c) : Begin(p, program \o <<Review(candidate[c].finding, s)>>)
    BY <2>1
  <2> DEFINE f == candidate[c].finding
             review == Review(f, s)
  <2>2. f \in Findings /\ f \in stored
    BY <2>1 DEF TypeOK, CandidatesWhole, CandidateRows, Known, stored
  <2>3. review \in Statements /\ review.op = "review" /\ review.f = f
    BY <2>2, StatementTypes, StatementFields
  <2>4. Begin(p, program \o <<review>>)
    OBVIOUS
  <2> HIDE DEF f, review
  <2>5. Quiet(program, stored, known, filed, Decided(p))
    BY <2>1, PromoteQuiet
  <2>6. Quiet(<<review>>, stored, known, filed \cup FiledIn(program), Decided(p))
    BY <2>2, <2>3, SingleQuiet DEF NeedsFinding, NeedsCandidate
  <2>7. Quiet(program \o <<review>>, stored, known, filed, Decided(p))
    BY <2>5, <2>6, ConcatQuiet
  <2> QED
    BY <1>1, <2>4, <2>7
<1> QED
  BY <1>2, <1>3

\* draftReports: each file is written before its status.
LEMMA DraftAllBegins ==
    ASSUME NEW p \in Procs, DraftAll(p)
    PROVE  WellBegun(p)
<1>1. PICK F \in SUBSET {f \in Findings : Stored(f) /\ finding[f].status # "duplicate"} :
         \E program \in Each([f \in F |-> DraftInRun(f)], 3) : Begin(p, program)
  BY DEF DraftAll
<1> DEFINE drafts == [f \in F |-> DraftInRun(f)]
<1>2. PICK program \in Each(drafts, 3) : Begin(p, program)
  BY <1>1
<1>3. F \subseteq Findings /\ F \subseteq stored /\ F \subseteq Decided(p)
  BY DEF stored, Decided
<1>4. IsFiniteSet(F)
  BY <1>3, FiniteAssumption, FS_Subset
<1>5. DOMAIN drafts = F /\ \A f \in F : drafts[f] = DraftInRun(f)
  OBVIOUS
<1>6. ASSUME NEW f \in F
      PROVE  Len(DraftInRun(f)) = 3 /\ Quiet(DraftInRun(f), stored, known, filed, Decided(p))
  BY <1>3, DraftQuiet, "checked" \in {"checked", "forced"}
<1>7. \A f \in F : Len(drafts[f]) = 3 /\ Quiet(drafts[f], stored, known, filed, Decided(p))
  BY <1>5, <1>6
<1> HIDE DEF drafts
<1>8. Quiet(program, stored, known, filed, Decided(p))
  BY <1>4, <1>5, <1>7, EachQuiet
<1> QED
  BY <1>2, <1>8, QuietIsSound DEF WellBegun

\* Whatever command begins, what it has to do can be done.
LEMMA CommandBegins ==
    ASSUME TypeOK, CandidatesWhole, NEW p \in Procs, Command(p)
    PROVE  WellBegun(p)
  BY DetectBegins, HuntBegins, CreateByHandBegins, EvidenceBegins, MarkBegins, PromoteBegins,
     DraftAllBegins DEF Command

---------------------------------------------------------------------------
(***************************************************************************)
(* The steps: first what they all do to the lists.                         *)
(***************************************************************************)

\* The statement p issues next can be issued.
LEMMA NowFits ==
    ASSUME ProgramsFit, NEW p \in Procs, todo[p] # <<>>
    PROVE  /\ todo[p] \in Seq(Statements) /\ Now(p) \in Statements
           /\ Now(p).op \in NeedsFinding => Now(p).f \in stored
           /\ Now(p).op \in NeedsCandidate => Now(p).c \in known
           /\ Now(p).op = "draftStatus" =>
                 Now(p).f \in filed /\ (Now(p).s = "forced" \/ Now(p).f \in Decided(p))
           /\ Now(p).op = "createFinding" => Now(p).f \notin stored /\ Now(p).f \in CreatedIn(todo[p])
<1> PICK t : t = todo[p]
  OBVIOUS
<1>1. t \in Seq(Statements) /\ t # <<>> /\ Fits(t, stored, known, filed, Decided(p))
  BY DEF ProgramsFit
<1>2. 1 \in 1 .. Len(t) /\ Head(t) = t[1] /\ t[1] \in Statements
  BY <1>1
<1>3. \A j \in 1 .. Len(t) : ~(j < 1)
  OBVIOUS
<1>4. FitsAt(t, 1, stored, known, filed, Decided(p))
  BY <1>1, <1>2 DEF Fits
<1>5. t[1].op = "createFinding" => t[1].f \in CreatedIn(t)
  BY <1>2 DEF CreatedIn
<1> QED
  BY <1>1, <1>2, <1>3, <1>4, <1>5 DEF FitsAt, Now

\* What comes after it can be issued after it; and unless it was a read, that
\* is no write of a list.
LEMMA RestFits ==
    ASSUME ProgramsFit, NEW p \in Procs, todo[p] # <<>>
    PROVE  /\ Fits(Tail(todo[p]), stored \cup Creates(Now(p)), known, filed \cup Files(Now(p)), Decided(p))
           /\ Tail(todo[p]) # <<>> /\ Head(Tail(todo[p])).op = "writePaths" =>
                 Now(p).op = "readPaths" /\ Head(Tail(todo[p])).f = Now(p).f
           /\ CreatedIn(Tail(todo[p])) \subseteq CreatedIn(todo[p])
           /\ DraftedIn(Tail(todo[p])) \subseteq DraftedIn(todo[p])
<1> PICK t : t = todo[p]
  OBVIOUS
<1>1. t \in Seq(Statements) /\ t # <<>> /\ Fits(t, stored, known, filed, Decided(p))
  BY DEF ProgramsFit
<1>2. Fits(Tail(t), stored \cup Creates(Head(t)), known, filed \cup Files(Head(t)), Decided(p))
  BY <1>1, TailFits
<1>3. Tail(t) # <<>> => Head(Tail(t)) = t[2] /\ 2 \in 1 .. Len(t) /\ Head(t) = t[1]
  BY <1>1
<1>4. Tail(t) # <<>> /\ Head(Tail(t)).op = "writePaths" =>
         Head(t).op = "readPaths" /\ Head(Tail(t)).f = Head(t).f
  <2>1. 2 \in 1 .. Len(t) => FitsAt(t, 2, stored, known, filed, Decided(p))
    BY <1>1 DEF Fits
  <2> QED
    BY <1>3, <2>1 DEF FitsAt
<1>5. \A i \in 1 .. Len(Tail(t)) : i + 1 \in 1 .. Len(t) /\ Tail(t)[i] = t[i + 1]
  BY <1>1
<1>6. CreatedIn(Tail(t)) \subseteq CreatedIn(t) /\ DraftedIn(Tail(t)) \subseteq DraftedIn(t)
  BY <1>5 DEF CreatedIn, DraftedIn
<1> QED
  BY <1>2, <1>4, <1>6 DEF Now

\* A statement that adds nothing to its program leaves the lists in order, if
\* the rows it makes are those the list counts on and what it does to the
\* status of a finding no draft to come minds.
LEMMA StepLists ==
    ASSUME ProgramsFit, CreatesApart, NEW p \in Procs, todo[p] # <<>>, Then(p, <<>>),
           stored' = stored \cup Creates(Now(p)),
           known \subseteq known', filed \cup Files(Now(p)) \subseteq filed',
           \A q \in Procs : Decided(q) \cap DraftedIn(todo'[q]) \subseteq Decided(q)'
    PROVE  ProgramsFit' /\ CreatesApart'
<1>1. /\ Fits(Tail(todo[p]), stored \cup Creates(Now(p)), known, filed \cup Files(Now(p)), Decided(p))
      /\ CreatedIn(Tail(todo[p])) \subseteq CreatedIn(todo[p])
  BY RestFits
<1>2. todo[p] \in Seq(Statements) /\ Tail(todo[p]) \in Seq(Statements)
  BY <1>1 DEF ProgramsFit, Fits
<1>3. /\ todo' \in [Procs -> Seq(Statements)] /\ todo'[p] = Tail(todo[p])
      /\ \A q \in Procs \ {p} : todo'[q] = todo[q]
  <2>1. <<>> \o Tail(todo[p]) = Tail(todo[p])
    BY <1>2
  <2> QED
    BY <1>2, <2>1 DEF Then, ProgramsFit
<1>4. \A q \in Procs \ {p} : Creates(Now(p)) \cap CreatedIn(todo[q]) = {}
  <2>1. Creates(Now(p)) \subseteq CreatedIn(todo[p])
    BY NowFits DEF Creates
  <2> QED
    BY <2>1 DEF CreatesApart
<1>5. Fits(todo'[p], stored', known', filed', Decided(p)')
  <2> DEFINE t == Tail(todo[p])
             S == stored \cup Creates(Now(p))
             F == filed \cup Files(Now(p))
  <2>1. Fits(t, S, known, F, Decided(p)) /\ F \subseteq filed' /\ S \subseteq stored'
           /\ (stored' \ S) \cap CreatedIn(t) = {}
           /\ Decided(p) \cap DraftedIn(t) \subseteq Decided(p)'
    BY <1>1, <1>3
  <2> HIDE DEF t, S, F
  <2>2. Fits(t, stored', known', filed', Decided(p)')
    BY <2>1, MoreRows
  <2> QED
    BY <1>3, <2>2 DEF t
<1>6. ASSUME NEW q \in Procs \ {p}
      PROVE  Fits(todo'[q], stored', known', filed', Decided(q)')
  <2>1. Fits(todo[q], stored, known, filed, Decided(q)) /\ todo'[q] = todo[q]
    BY <1>3 DEF ProgramsFit
  <2>2. /\ stored \subseteq stored' /\ filed \subseteq filed'
        /\ (stored' \ stored) \cap CreatedIn(todo[q]) = {}
        /\ Decided(q) \cap DraftedIn(todo[q]) \subseteq Decided(q)'
    BY <1>4, <2>1
  <2> QED
    BY <2>1, <2>2, MoreRows
<1>7. ProgramsFit'
  BY <1>3, <1>5, <1>6 DEF ProgramsFit
<1>8. CreatesApart'
  BY <1>1, <1>3 DEF CreatesApart
<1> QED
  BY <1>7, <1>8

\* A list read by another process, and one read by p if p has more to read
\* first, has its first evidence in it as before.
LEMMA StepReads ==
    ASSUME ProgramsFit, ReadHasOrigin, NEW p \in Procs, todo[p] # <<>>, Then(p, <<>>),
           Now(p).op # "readPaths",
           \A q \in Procs \ {p} : seen'[q] = seen[q],
           \A f \in stored : origin'[f] = origin[f]
    PROVE  ReadHasOrigin'
<1>1. /\ Tail(todo[p]) # <<>> => Head(Tail(todo[p])).op # "writePaths"
      /\ Tail(todo[p]) \in Seq(Statements)
  BY RestFits DEF Fits
<1>2. <<>> \o Tail(todo[p]) = Tail(todo[p])
  BY <1>1
<1>3. todo'[p] = Tail(todo[p]) /\ \A q \in Procs \ {p} : todo'[q] = todo[q]
  BY <1>2 DEF Then, ProgramsFit
<1>4. ~At(p, "writePaths")'
  BY <1>1, <1>3 DEF At
<1>5. ASSUME NEW q \in Procs \ {p}, At(q, "writePaths")'
      PROVE  origin'[Now(q)'.f] \in seen'[q] \cup {None}
  <2>1. At(q, "writePaths") /\ Now(q)' = Now(q)
    BY <1>3, <1>5 DEF At, Now
  <2>2. Now(q).f \in stored
    BY <2>1, NowFits DEF At, Now, NeedsFinding
  <2> QED
    BY <2>1, <2>2 DEF ReadHasOrigin
<1> QED
  BY <1>4, <1>5 DEF ReadHasOrigin

\* The fields of the rows, which NoRow does not have.
LEMMA RowFacts ==
    /\ \A r \in FindingRows : r # NoRow /\ r.status \in FindingStatuses /\ r.paths \in SUBSET Artifacts
    /\ \A r \in CandidateRows : /\ r # NoRow /\ r.readiness \in Readinesses
                                /\ r.evidence \in SUBSET Artifacts /\ r.finding \in Findings
    /\ NoRow.status = "absent"
<1>1. /\ NoRow.status = "absent"
      /\ \A r \in FindingRows : r.status \in FindingStatuses /\ r.paths \in SUBSET Artifacts
  BY DEF FindingRows, NoRow
<1>2. \A r \in FindingRows : r # NoRow
  BY <1>1 DEF FindingStatuses
<1>3. \A r \in CandidateRows : /\ r.readiness \in Readinesses
                               /\ r.evidence \in SUBSET Artifacts /\ r.finding \in Findings
  BY DEF CandidateRows
<1>4. \A r \in CandidateRows : r # NoRow
  <2>1. \A r \in CandidateRows : "evidence" \in DOMAIN r
    BY DEF CandidateRows
  <2>2. "evidence" \notin DOMAIN NoRow
    BY DEF NoRow
  <2> QED
    BY <2>1, <2>2
<1> QED
  BY <1>1, <1>2, <1>3, <1>4

\* StoreArtifact and RelinkArtifact: an artifact that is moved stays in the
\* evidence_paths it was in.
LEMMA ArtifactSteps ==
    ASSUME IInv, NEW p \in Procs, StoreArtifact(p) \/ RelinkArtifact(p)
    PROVE  IInv'
<1>1. /\ todo[p] # <<>> /\ Now(p).op \in {"storeArtifact", "linkArtifact"} /\ Then(p, <<>>)
      /\ artifact' = [artifact EXCEPT ![Now(p).e] = Now(p).f]
      /\ UNCHANGED <<finding, candidate, own, seen, notes>>
  BY DEF StoreArtifact, RelinkArtifact, At, Now
<1>2. Now(p) \in Statements
  BY <1>1, NowFits DEF IInv
<1>3. Creates(Now(p)) = {} /\ Files(Now(p)) = {}
  BY <1>1 DEF Creates, Files
<1>4. /\ stored' = stored /\ known' = known /\ filed' = filed
      /\ \A q \in Procs : Decided(q)' = Decided(q)
  BY <1>1 DEF stored, known, filed, Decided, Stored, Known, notes
<1>5. TypeOK'
  BY <1>1, <1>2 DEF IInv, TypeOK, Then, notes, Statements
<1>6. ProgramsFit' /\ CreatesApart'
  BY <1>1, <1>3, <1>4, StepLists DEF IInv
<1>7. ReadHasOrigin'
  BY <1>1, StepReads DEF IInv, notes
<1>8. PathsKeep' /\ CandidatesWhole' /\ ReportsAreBacked'
  BY <1>1 DEF IInv, PathsKeep, CandidatesWhole, ReportsAreBacked, ReadyIsBacked, DraftIsThere,
              Stored, Known, notes
<1> QED
  BY <1>5, <1>6, <1>7, <1>8 DEF IInv

\* A rejection overtakes the drafts under way: what a process has decided to
\* draft, it may still draft once the status of f is another.
LEMMA DecidedStays ==
    ASSUME IInv, NEW p \in Procs, todo[p] # <<>>, Then(p, <<>>),
           NEW f \in Findings, NEW s, finding'[f].status = s,
           \A g \in Findings \ {f} : finding'[g] = finding[g],
           s = "duplicate" => \A q \in Procs : Drafting(q, f) => <<q, f>> \in overtaken',
           \A o \in overtaken : o \in overtaken' \/ o[2] = f
    PROVE  \A q \in Procs : Decided(q) \cap DraftedIn(todo'[q]) \subseteq Decided(q)'
<1>1. ASSUME NEW q \in Procs, NEW g \in Decided(q) \cap DraftedIn(todo'[q])
      PROVE  g \in Decided(q)'
  <2>1. g \in Findings /\ (finding[g].status # "duplicate" \/ <<q, g>> \in overtaken)
    BY <1>1 DEF Decided
  <2>2. DraftedIn(todo'[q]) \subseteq DraftedIn(todo[q])
    <3>1. DraftedIn(Tail(todo[p])) \subseteq DraftedIn(todo[p]) /\ Tail(todo[p]) \in Seq(Statements)
      BY RestFits DEF IInv, Fits
    <3>2. <<>> \o Tail(todo[p]) = Tail(todo[p])
      BY <3>1
    <3> QED
      BY <3>1, <3>2 DEF Then, IInv, ProgramsFit
  <2>3. g \in DraftedIn(todo[q]) => Drafting(q, g)
    <3>1. DOMAIN todo[q] = 1 .. Len(todo[q])
      BY DEF IInv, ProgramsFit
    <3> QED
      BY <3>1 DEF Drafting, DraftedIn
  <2>4. CASE g # f
    <3>1. finding'[g] = finding[g] /\ (<<q, g>> \in overtaken => <<q, g>> \in overtaken')
      BY <2>1, <2>4
    <3> QED
      BY <2>1, <3>1 DEF Decided
  <2>5. CASE g = f
    <3>1. s = "duplicate" => <<q, g>> \in overtaken'
      BY <1>1, <2>2, <2>3, <2>5
    <3> QED
      BY <2>1, <2>5, <3>1 DEF Decided
  <2> QED
    BY <2>4, <2>5
<1> QED
  BY <1>1

\* What a person says of f overtakes the drafts of f under way, and of no other
\* finding is anything noted.
LEMMA SaidFacts ==
    ASSUME NEW f \in Findings, NEW s, Say(f, s),
           overtaken \subseteq Procs \X Findings, byHand \subseteq Findings
    PROVE  /\ overtaken' \subseteq Procs \X Findings
           /\ s = "duplicate" => \A q \in Procs : Drafting(q, f) => <<q, f>> \in overtaken'
           /\ \A o \in overtaken : o \in overtaken' \/ o[2] = f
           /\ byHand' \subseteq Findings /\ \A g \in byHand : g \in byHand' \/ g = f
           /\ s = "report_drafted" => f \in byHand'
  BY DEF Say

\* The finding begins with the artifact it was made from.
LEMMA CreateStep ==
    ASSUME IInv, NEW p \in Procs, CreateFinding(p)
    PROVE  IInv'
<1> DEFINE f == Now(p).f
           e == Now(p).e
           s == Now(p).s
<1> PICK row : row = [status |-> s, paths |-> {e} \ {None}]
  OBVIOUS
<1>1. /\ todo[p] # <<>> /\ Now(p).op = "createFinding" /\ Then(p, <<>>)
      /\ finding' = [finding EXCEPT ![f] = row]
      /\ origin' = [origin EXCEPT ![f] = e]
      /\ Say(f, s)
      /\ UNCHANGED <<candidate, artifact, own, seen, attached, raced>>
  BY DEF CreateFinding, At, Now
<1>2. Now(p) \in Statements /\ f \notin stored
  BY <1>1, NowFits DEF IInv
<1>3. f \in Findings /\ e \in Artifacts \cup {None} /\ s \in FindingStatuses /\ ~Stored(f)
  BY <1>1, <1>2 DEF Statements, OfFinding, Ops, stored
<1>4. row \in FindingRows /\ row # NoRow /\ row.status = s /\ row.paths = {e} \ {None}
  <2>1. row \in FindingRows /\ row.status = s /\ row.paths = {e} \ {None}
    BY <1>3 DEF FindingRows
  <2> QED
    BY <2>1, RowFacts
<1> HIDE DEF f, e, s
<1>5. finding'[f] = row /\ origin'[f] = e
         /\ \A g \in Findings \ {f} : finding'[g] = finding[g] /\ origin'[g] = origin[g]
  BY <1>1, <1>3 DEF IInv, TypeOK
<1>6. Creates(Now(p)) = {f} /\ Files(Now(p)) = {}
  BY <1>1 DEF Creates, Files, f
<1>7. stored' = stored \cup {f} /\ known' = known /\ filed' = filed
  BY <1>1, <1>3, <1>4, <1>5 DEF stored, known, filed, Stored, Known
<1>14. /\ overtaken' \subseteq Procs \X Findings
       /\ s = "duplicate" => \A q \in Procs : Drafting(q, f) => <<q, f>> \in overtaken'
       /\ \A o \in overtaken : o \in overtaken' \/ o[2] = f
       /\ byHand' \subseteq Findings /\ \A g \in byHand : g \in byHand' \/ g = f
       /\ s = "report_drafted" => f \in byHand'
  BY <1>1, <1>3, SaidFacts DEF IInv, TypeOK
<1>8. \A q \in Procs : Decided(q) \cap DraftedIn(todo'[q]) \subseteq Decided(q)'
  BY <1>1, <1>3, <1>4, <1>5, <1>14, DecidedStays
<1>9. TypeOK'
  BY <1>1, <1>3, <1>4, <1>14 DEF IInv, TypeOK, Then
<1>10. ProgramsFit' /\ CreatesApart'
  BY <1>1, <1>6, <1>7, <1>8, StepLists DEF IInv
<1>11. ReadHasOrigin'
  <2>1. \A g \in stored : origin'[g] = origin[g]
    BY <1>3, <1>5 DEF stored
  <2> QED
    BY <1>1, <2>1, StepReads DEF IInv
<1>12. PathsKeep'
  <2>1. \A g \in Findings : Stored(g)' /\ origin'[g] # None => origin'[g] \in finding'[g].paths
    BY <1>4, <1>5 DEF IInv, PathsKeep, Stored
  <2>2. \A a \in attached : a[1] \in Findings
    BY DEF IInv, TypeOK
  <2>3. \A a \in attached : a[1] \in raced \/ (Stored(a[1])' /\ a[2] \in finding'[a[1]].paths)
    BY <1>3, <1>5, <2>2 DEF IInv, PathsKeep, Stored
  <2> QED
    BY <1>1, <2>1, <2>3 DEF PathsKeep
<1>13. CandidatesWhole' /\ ReportsAreBacked'
  <2>1. \A g \in Findings : Stored(g) => Stored(g)'
    BY <1>3, <1>5 DEF Stored
  <2>2. CandidatesWhole'
    BY <1>1, <2>1, RowFacts DEF IInv, TypeOK, CandidatesWhole, Known
  <2>3. DraftIsThere'
    BY <1>1, <1>4, <1>5, <1>14 DEF IInv, ReportsAreBacked, DraftIsThere
  <2>4. ReadyIsBacked'
    BY <1>1 DEF IInv, ReportsAreBacked, ReadyIsBacked, Known
  <2> QED
    BY <2>2, <2>3, <2>4 DEF ReportsAreBacked
<1> QED
  BY <1>9, <1>10, <1>11, <1>12, <1>13 DEF IInv

\* The steps that change a candidate and no finding.
LEMMA CandidateStep ==
    ASSUME IInv, NEW p \in Procs, todo[p] # <<>>, Then(p, <<>>),
           Now(p).op \in {"upsertCandidate", "linkFinding", "writeEvidence", "setReadiness"},
           NEW c \in Candidates, NEW row \in CandidateRows,
           candidate' \in [Candidates -> CandidateRows \cup {NoRow}],
           candidate'[c] = row, \A d \in Candidates \ {c} : candidate'[d] = candidate[d],
           Stored(row.finding), row.evidence # {},
           row.readiness.reportability = "ready_for_draft" =>
              Cardinality(row.evidence) >= 2 \/ c \in raced',
           seen' \in [Procs -> SUBSET Artifacts],
           \A q \in Procs \ {p} : seen'[q] = seen[q],
           raced \subseteq raced', raced' \subseteq raced \cup {c},
           UNCHANGED <<finding, artifact, own, origin, attached, overtaken, byHand>>
    PROVE  IInv'
<1>1. Creates(Now(p)) = {} /\ Files(Now(p)) = {}
  BY DEF Creates, Files
<1>2. candidate'[c] = row /\ \A d \in Candidates \ {c} : candidate'[d] = candidate[d]
  OBVIOUS
<1>3. row # NoRow
  BY RowFacts
<1>4. /\ stored' = stored /\ known \subseteq known' /\ filed' = filed
      /\ \A q \in Procs : Decided(q)' = Decided(q)
  BY <1>2, <1>3 DEF stored, known, filed, Decided, Stored, Known
<1>5. TypeOK'
  BY DEF IInv, TypeOK, Then
<1>6. ProgramsFit' /\ CreatesApart'
  BY <1>1, <1>4, StepLists DEF IInv
<1>7. ReadHasOrigin'
  BY StepReads DEF IInv
<1>8. PathsKeep'
  BY DEF IInv, PathsKeep, Stored
<1>9. CandidatesWhole'
  BY <1>2 DEF IInv, CandidatesWhole, Stored, Known
<1>10. ReportsAreBacked'
  <2>1. DraftIsThere'
    BY DEF IInv, ReportsAreBacked, DraftIsThere
  <2>2. ReadyIsBacked'
    BY <1>2 DEF IInv, ReportsAreBacked, ReadyIsBacked, Known
  <2> QED
    BY <2>1, <2>2 DEF ReportsAreBacked
<1> QED
  BY <1>5, <1>6, <1>7, <1>8, <1>9, <1>10 DEF IInv

\* The row a candidate gets anew names a finding and has evidence.
LEMMA UpsertStep ==
    ASSUME IInv, NEW p \in Procs, UpsertCandidate(p)
    PROVE  IInv'
<1> DEFINE c == Now(p).c
           f == Now(p).f
           e == Now(p).e
<1> PICK row :
       row = [readiness |-> [status |-> "needs_manual_verification", reportability |-> "needs_review"],
              evidence |-> {e}, finding |-> f]
  OBVIOUS
<1>1. /\ todo[p] # <<>> /\ Now(p).op = "upsertCandidate" /\ Then(p, <<>>)
      /\ candidate' = [candidate EXCEPT ![c] = row]
      /\ UNCHANGED <<finding, artifact, own, seen, notes>>
  BY DEF UpsertCandidate, At, Now
<1>2. c \in Candidates /\ f \in Findings /\ e \in Artifacts /\ Stored(f)
  BY <1>1, NowFits DEF IInv, Statements, OfFinding, OfCandidate, OfArtifact, Ops, NeedsFinding, stored
<1>3. /\ row \in CandidateRows /\ row.finding = f /\ row.evidence = {e}
      /\ row.readiness.reportability = "needs_review"
  BY <1>2 DEF CandidateRows, Readinesses
<1> HIDE DEF c, f, e
<1>4. /\ candidate' \in [Candidates -> CandidateRows \cup {NoRow}] /\ candidate'[c] = row
      /\ \A d \in Candidates \ {c} : candidate'[d] = candidate[d]
  BY <1>1, <1>2, <1>3 DEF IInv, TypeOK
<1>5. seen' \in [Procs -> SUBSET Artifacts] /\ (\A q \in Procs \ {p} : seen'[q] = seen[q])
         /\ raced' = raced /\ UNCHANGED <<finding, artifact, own, origin, attached, overtaken, byHand>>
  BY <1>1 DEF IInv, TypeOK, notes
<1> QED
  BY <1>1, <1>2, <1>3, <1>4, <1>5, CandidateStep

\* linkFinding: the candidate names a finding that is there.
LEMMA PromoteStep ==
    ASSUME IInv, NEW p \in Procs, PromoteCandidate(p)
    PROVE  IInv'
<1> DEFINE c == Now(p).c
           f == Now(p).f
<1>1. /\ todo[p] # <<>> /\ Now(p).op = "linkFinding" /\ Then(p, <<>>)
      /\ candidate' = [candidate EXCEPT ![c].finding = f,
                                        ![c].readiness = [@ EXCEPT !.status = "promoted"]]
      /\ UNCHANGED <<finding, artifact, own, seen, notes>>
  BY DEF PromoteCandidate, At, Now
<1>2. c \in Candidates /\ f \in Findings /\ Stored(f) /\ Known(c)
  BY <1>1, NowFits DEF IInv, Statements, OfFinding, OfCandidate, Ops, NeedsFinding, NeedsCandidate,
                       stored, known
<1> HIDE DEF c, f
<1> DEFINE row == candidate'[c]
<1>3. candidate[c] \in CandidateRows
  BY <1>2 DEF IInv, TypeOK, Known
<1>4. /\ row = [candidate[c] EXCEPT !.finding = f,
                                    !.readiness = [candidate[c].readiness EXCEPT !.status = "promoted"]]
      /\ \A d \in Candidates \ {c} : candidate'[d] = candidate[d]
  BY <1>1, <1>2 DEF IInv, TypeOK
<1>5. /\ row \in CandidateRows /\ row.finding = f /\ row.evidence = candidate[c].evidence
      /\ row.readiness.reportability = candidate[c].readiness.reportability
  <2> DEFINE old == candidate[c].readiness
             r == [old EXCEPT !.status = "promoted"]
  <2>1. old \in Readinesses
    BY <1>3 DEF CandidateRows
  <2>2. r \in Readinesses /\ r.reportability = old.reportability
    BY <2>1 DEF Readinesses
  <2>3. row = [candidate[c] EXCEPT !.finding = f, !.readiness = r]
    BY <1>4
  <2> HIDE DEF r, row
  <2>4. row \in CandidateRows /\ row.finding = f /\ row.evidence = candidate[c].evidence
           /\ row.readiness = r
    BY <1>2, <1>3, <2>2, <2>3 DEF CandidateRows
  <2> QED
    BY <2>2, <2>4
<1>6. candidate' \in [Candidates -> CandidateRows \cup {NoRow}]
  <2>1. candidate' = [d \in Candidates |-> candidate'[d]]
    BY <1>1 DEF IInv, TypeOK
  <2>2. \A d \in Candidates : candidate'[d] \in CandidateRows \cup {NoRow}
    BY <1>4, <1>5 DEF IInv, TypeOK
  <2> QED
    BY <2>1, <2>2
<1>7. /\ row.evidence # {}
      /\ row.readiness.reportability = "ready_for_draft" => Cardinality(row.evidence) >= 2 \/ c \in raced
  BY <1>2, <1>5 DEF IInv, CandidatesWhole, ReportsAreBacked, ReadyIsBacked
<1>8. seen' \in [Procs -> SUBSET Artifacts] /\ (\A q \in Procs \ {p} : seen'[q] = seen[q])
         /\ raced' = raced /\ UNCHANGED <<finding, artifact, own, origin, attached, overtaken, byHand>>
  BY <1>1 DEF IInv, TypeOK, notes
<1> HIDE DEF row
<1>9. candidate'[c] = row
  BY DEF row
<1> QED
  BY <1>1, <1>2, <1>4, <1>5, <1>6, <1>7, <1>8, <1>9, CandidateStep

\* Evidence of a candidate is never taken away, unless its list has been
\* written meanwhile.
LEMMA WriteEvidenceStep ==
    ASSUME IInv, NEW p \in Procs, WriteEvidenceBack(p)
    PROVE  IInv'
<1> DEFINE c == Now(p).c
           e == Now(p).e
<1>1. /\ todo[p] # <<>> /\ Now(p).op = "writeEvidence" /\ Then(p, <<>>)
      /\ candidate' = [candidate EXCEPT ![c].evidence = seen[p] \cup {e}]
      /\ seen' = [seen EXCEPT ![p] = {}]
      /\ raced' = IF candidate[c].evidence = seen[p] THEN raced ELSE raced \cup {c}
      /\ UNCHANGED <<finding, artifact, own, origin, attached, overtaken, byHand>>
  BY DEF WriteEvidenceBack, WriteBack, Written, At, Now
<1>2. c \in Candidates /\ e \in Artifacts /\ Known(c)
  BY <1>1, NowFits DEF IInv, Statements, OfCandidate, OfArtifact, NeedsCandidate, known
<1> HIDE DEF c, e
<1> DEFINE row == candidate'[c]
<1>3. candidate[c] \in CandidateRows /\ seen[p] \in SUBSET Artifacts
  BY <1>2 DEF IInv, TypeOK, Known
<1>4. /\ row = [candidate[c] EXCEPT !.evidence = seen[p] \cup {e}]
      /\ \A d \in Candidates \ {c} : candidate'[d] = candidate[d]
  BY <1>1, <1>2 DEF IInv, TypeOK
<1>5. /\ row \in CandidateRows /\ row.finding = candidate[c].finding /\ row.evidence = seen[p] \cup {e}
      /\ row.readiness = candidate[c].readiness
  BY <1>2, <1>3, <1>4 DEF CandidateRows
<1>6. candidate' \in [Candidates -> CandidateRows \cup {NoRow}]
  <2>1. candidate' = [d \in Candidates |-> candidate'[d]]
    BY <1>1 DEF IInv, TypeOK
  <2>2. \A d \in Candidates : candidate'[d] \in CandidateRows \cup {NoRow}
    BY <1>4, <1>5 DEF IInv, TypeOK
  <2> QED
    BY <2>1, <2>2
<1>7. row.readiness.reportability = "ready_for_draft" => Cardinality(row.evidence) >= 2 \/ c \in raced'
  <2>1. CASE candidate[c].evidence = seen[p]
    <3>1. row.evidence \subseteq Artifacts /\ candidate[c].evidence \subseteq row.evidence
      BY <1>2, <1>3, <1>5, <2>1
    <3>2. IsFiniteSet(row.evidence) /\ IsFiniteSet(candidate[c].evidence)
      BY <3>1, FiniteAssumption, FS_Subset
    <3>3. /\ Cardinality(candidate[c].evidence) <= Cardinality(row.evidence)
          /\ Cardinality(candidate[c].evidence) \in Nat /\ Cardinality(row.evidence) \in Nat
      BY <3>1, <3>2, FS_Subset, FS_CardinalityType
    <3> QED
      BY <1>1, <1>2, <1>5, <2>1, <3>3 DEF IInv, ReportsAreBacked, ReadyIsBacked
  <2>2. CASE candidate[c].evidence # seen[p]
    BY <1>1, <2>2
  <2> QED
    BY <2>1, <2>2
<1>8. /\ seen' \in [Procs -> SUBSET Artifacts] /\ \A q \in Procs \ {p} : seen'[q] = seen[q]
      /\ raced \subseteq raced' /\ raced' \subseteq raced \cup {c}
  BY <1>1 DEF IInv, TypeOK
<1>9. Stored(row.finding) /\ row.evidence # {}
  BY <1>2, <1>5 DEF IInv, CandidatesWhole
<1> HIDE DEF row
<1>10. candidate'[c] = row
  BY DEF row
<1> QED
  BY <1>1, <1>2, <1>4, <1>5, <1>6, <1>7, <1>8, <1>9, <1>10, CandidateStep

\* refreshCandidateReadiness: ready means two artifacts, as far as was read.
LEMMA WriteReadinessStep ==
    ASSUME IInv, NEW p \in Procs, WriteReadiness(p)
    PROVE  IInv'
<1> DEFINE c == Now(p).c
<1> PICK strong \in BOOLEAN :
       candidate' = [candidate EXCEPT ![c].readiness = Readiness(Cardinality(seen[p]), strong)]
  BY DEF WriteReadiness
<1> DEFINE r == Readiness(Cardinality(seen[p]), strong)
<1>1. /\ todo[p] # <<>> /\ Now(p).op = "setReadiness" /\ Then(p, <<>>)
      /\ candidate' = [candidate EXCEPT ![c].readiness = r]
      /\ seen' = [seen EXCEPT ![p] = {}]
      /\ raced' = IF candidate[c].evidence = seen[p] THEN raced ELSE raced \cup {c}
      /\ UNCHANGED <<finding, artifact, own, origin, attached, overtaken, byHand>>
  BY DEF WriteReadiness, Written, At, Now
<1>2. c \in Candidates /\ Known(c)
  BY <1>1, NowFits DEF IInv, Statements, OfCandidate, NeedsCandidate, known
<1>3. r \in Readinesses /\ (r.reportability = "ready_for_draft" => Cardinality(seen[p]) >= 2)
  BY DEF Readiness, Readinesses
<1> HIDE DEF c, r
<1> DEFINE row == candidate'[c]
<1>4. candidate[c] \in CandidateRows
  BY <1>2 DEF IInv, TypeOK, Known
<1>5. /\ row = [candidate[c] EXCEPT !.readiness = r]
      /\ \A d \in Candidates \ {c} : candidate'[d] = candidate[d]
  BY <1>1, <1>2 DEF IInv, TypeOK
<1>6. /\ row \in CandidateRows /\ row.finding = candidate[c].finding
      /\ row.evidence = candidate[c].evidence /\ row.readiness = r
  BY <1>3, <1>4, <1>5 DEF CandidateRows
<1>7. candidate' \in [Candidates -> CandidateRows \cup {NoRow}]
  <2>1. candidate' = [d \in Candidates |-> candidate'[d]]
    BY <1>1 DEF IInv, TypeOK
  <2>2. \A d \in Candidates : candidate'[d] \in CandidateRows \cup {NoRow}
    BY <1>5, <1>6 DEF IInv, TypeOK
  <2> QED
    BY <2>1, <2>2
<1>8. row.readiness.reportability = "ready_for_draft" => Cardinality(row.evidence) >= 2 \/ c \in raced'
  BY <1>1, <1>3, <1>6
<1>9. /\ seen' \in [Procs -> SUBSET Artifacts] /\ \A q \in Procs \ {p} : seen'[q] = seen[q]
      /\ raced \subseteq raced' /\ raced' \subseteq raced \cup {c}
  BY <1>1 DEF IInv, TypeOK
<1>10. Stored(row.finding) /\ row.evidence # {}
  BY <1>2, <1>6 DEF IInv, CandidatesWhole
<1> HIDE DEF row
<1>11. candidate'[c] = row
  BY DEF row
<1> QED
  BY <1>1, <1>2, <1>5, <1>6, <1>7, <1>8, <1>9, <1>10, <1>11, CandidateStep

\* What a process reads of a finding has the first evidence in it.
LEMMA ReadStep ==
    ASSUME IInv, NEW p \in Procs, ReadRow(p)
    PROVE  IInv'
<1> DEFINE f == Now(p).f
           c == Now(p).c
<1>1. /\ todo[p] # <<>> /\ Then(p, <<>>) /\ UNCHANGED <<rows, notes>>
      /\ \/ Now(p).op = "readPaths" /\ seen' = [seen EXCEPT ![p] = finding[f].paths]
         \/ Now(p).op = "readEvidence" /\ seen' = [seen EXCEPT ![p] = candidate[c].evidence]
  BY DEF ReadRow, At, Now
<1>2. /\ Now(p) \in Statements
      /\ Now(p).op = "readPaths" => f \in Findings /\ Stored(f)
      /\ Now(p).op = "readEvidence" => c \in Candidates /\ Known(c)
  BY <1>1, NowFits DEF IInv, Statements, OfFinding, OfCandidate, Ops, NeedsFinding, NeedsCandidate,
                       stored, known
<1>3. /\ Now(p).op = "readPaths" => finding[f].paths \in SUBSET Artifacts
      /\ Now(p).op = "readEvidence" => candidate[c].evidence \in SUBSET Artifacts
  BY <1>2, RowFacts DEF IInv, TypeOK, Stored, Known
<1> HIDE DEF f, c
<1>4. Creates(Now(p)) = {} /\ Files(Now(p)) = {}
  BY <1>1 DEF Creates, Files
<1>5. /\ stored' = stored /\ known' = known /\ filed' = filed
      /\ \A q \in Procs : Decided(q)' = Decided(q)
  BY <1>1 DEF stored, known, filed, Decided, Stored, Known, rows, notes
<1>6. seen' \in [Procs -> SUBSET Artifacts] /\ \A q \in Procs \ {p} : seen'[q] = seen[q]
  BY <1>1, <1>3 DEF IInv, TypeOK
<1>7. TypeOK'
  BY <1>1, <1>6 DEF IInv, TypeOK, Then, rows, notes
<1>8. ProgramsFit' /\ CreatesApart'
  BY <1>1, <1>4, <1>5, StepLists DEF IInv
<1>9. ReadHasOrigin'
  <2>1. CASE Now(p).op = "readEvidence"
    BY <1>1, <1>6, <2>1, StepReads DEF IInv, notes
  <2>2. CASE Now(p).op = "readPaths"
    <3>1. /\ Tail(todo[p]) # <<>> /\ Head(Tail(todo[p])).op = "writePaths" => Head(Tail(todo[p])).f = f
          /\ Tail(todo[p]) \in Seq(Statements)
      BY <1>1, RestFits DEF IInv, Fits, f
    <3>2. <<>> \o Tail(todo[p]) = Tail(todo[p])
      BY <3>1
    <3>3. todo'[p] = Tail(todo[p]) /\ \A q \in Procs \ {p} : todo'[q] = todo[q]
      BY <1>1, <3>2 DEF Then, IInv, ProgramsFit
    <3>4. seen'[p] = finding[f].paths /\ origin' = origin
      BY <1>1, <2>2 DEF IInv, TypeOK, notes
    <3>5. origin[f] \in seen'[p] \cup {None}
      BY <1>2, <2>2, <3>4 DEF IInv, PathsKeep
    <3>6. ASSUME At(p, "writePaths")'
          PROVE  origin'[Now(p)'.f] \in seen'[p] \cup {None}
      BY <3>1, <3>3, <3>4, <3>5, <3>6 DEF At, Now
    <3>7. ASSUME NEW q \in Procs \ {p}, At(q, "writePaths")'
          PROVE  origin'[Now(q)'.f] \in seen'[q] \cup {None}
      BY <1>6, <3>3, <3>4, <3>7 DEF At, Now, IInv, ReadHasOrigin
    <3> QED
      BY <3>6, <3>7 DEF ReadHasOrigin
  <2> QED
    BY <1>1, <2>1, <2>2
<1>10. PathsKeep' /\ CandidatesWhole' /\ ReportsAreBacked'
  BY <1>1 DEF IInv, PathsKeep, CandidatesWhole, ReportsAreBacked, ReadyIsBacked, DraftIsThere,
              Stored, Known, rows, notes
<1> QED
  BY <1>7, <1>8, <1>9, <1>10 DEF IInv

\* The steps that change a finding which is there.
LEMMA FindingStep ==
    ASSUME IInv, NEW p \in Procs, todo[p] # <<>>, Then(p, <<>>),
           Now(p).op \in {"writePaths", "setStatus", "draftStatus"},
           NEW f \in Findings, Stored(f), NEW row \in FindingRows,
           finding' \in [Findings -> FindingRows \cup {NoRow}],
           finding'[f] = row, \A g \in Findings \ {f} : finding'[g] = finding[g],
           row.status = "report_drafted" => f \in filed \/ f \in byHand',
           byHand' \subseteq Findings, \A g \in byHand : g \in byHand' \/ g = f,
           origin[f] = None \/ origin[f] \in row.paths,
           attached' \subseteq Findings \X Artifacts,
           \A a \in attached' : a[1] \in raced' \/ a[1] # f \/ a[2] \in row.paths,
           \A a \in attached' : a \in attached \/ a[1] = f,
           raced \subseteq raced', raced' \subseteq raced \cup {f},
           seen' \in [Procs -> SUBSET Artifacts],
           \A q \in Procs \ {p} : seen'[q] = seen[q],
           overtaken' \subseteq Procs \X Findings,
           \A q \in Procs : Decided(q) \cap DraftedIn(todo'[q]) \subseteq Decided(q)',
           UNCHANGED <<candidate, artifact, own, origin>>
    PROVE  IInv'
<1>1. Creates(Now(p)) = {} /\ Files(Now(p)) = {}
  BY DEF Creates, Files
<1>2. row # NoRow
  BY RowFacts
<1>3. stored' = stored /\ known' = known /\ filed' = filed
         /\ \A g \in Findings : Stored(g)' <=> Stored(g)
  BY <1>2 DEF stored, known, filed, Stored, Known
<1>4. TypeOK'
  BY DEF IInv, TypeOK, Then
<1>5. ProgramsFit' /\ CreatesApart'
  BY <1>1, <1>3, StepLists DEF IInv
<1>6. ReadHasOrigin'
  BY StepReads DEF IInv
<1>7. PathsKeep'
  <2>1. \A g \in Findings : Stored(g)' /\ origin'[g] # None => origin'[g] \in finding'[g].paths
    BY <1>3 DEF IInv, PathsKeep
  <2>2. ASSUME NEW a \in attached'
        PROVE  a[1] \in raced' \/ (Stored(a[1])' /\ a[2] \in finding'[a[1]].paths)
    <3>1. a[1] \in Findings
      OBVIOUS
    <3>2. CASE a[1] = f
      BY <1>3, <3>2
    <3>3. CASE a[1] # f
      BY <1>3, <3>1, <3>3 DEF IInv, PathsKeep
    <3> QED
      BY <3>2, <3>3
  <2> QED
    BY <2>1, <2>2 DEF PathsKeep
<1>8. CandidatesWhole'
  <2>1. \A c \in Candidates : Known(c) => candidate[c].finding \in Findings
    BY RowFacts DEF IInv, TypeOK, Known
  <2> QED
    BY <1>3, <2>1 DEF IInv, CandidatesWhole, Known
<1>9. ReportsAreBacked'
  <2>1. DraftIsThere'
    BY DEF IInv, ReportsAreBacked, DraftIsThere, filed
  <2>2. ReadyIsBacked'
    BY DEF IInv, ReportsAreBacked, ReadyIsBacked, Known
  <2> QED
    BY <2>1, <2>2 DEF ReportsAreBacked
<1> QED
  BY <1>4, <1>5, <1>6, <1>7, <1>8, <1>9 DEF IInv

\* linkEvidencePath writes back what was read, and the new path: the first
\* evidence is among it, and so is the rest, unless the list had changed.
LEMMA WritePathsStep ==
    ASSUME IInv, NEW p \in Procs, WritePathsBack(p)
    PROVE  IInv'
<1> DEFINE f == Now(p).f
           e == Now(p).e
           list == seen[p] \cup {e}
<1>1. /\ todo[p] # <<>> /\ Now(p).op = "writePaths" /\ Then(p, <<>>)
      /\ finding' = [finding EXCEPT ![f].paths = list]
      /\ seen' = [seen EXCEPT ![p] = {}]
      /\ raced' = IF finding[f].paths = seen[p] THEN raced ELSE raced \cup {f}
      /\ attached' = attached \cup {<<f, e>>}
      /\ UNCHANGED <<candidate, artifact, own, origin, overtaken, byHand>>
  BY DEF WritePathsBack, WriteBack, Written, At, Now
<1>2. f \in Findings /\ e \in Artifacts /\ Stored(f)
  BY <1>1, NowFits DEF IInv, Statements, OfFinding, OfArtifact, Ops, NeedsFinding, stored
<1>3. origin[f] \in list \cup {None}
  BY <1>1 DEF IInv, ReadHasOrigin, At, Now
<1>4. list \in SUBSET Artifacts
  BY <1>2 DEF IInv, TypeOK
<1>5. seen[p] \subseteq list /\ e \in list
  OBVIOUS
<1> HIDE DEF f, e, list
<1>6. finding[f] \in FindingRows
  BY <1>2 DEF IInv, TypeOK, Stored
<1> DEFINE row == finding'[f]
<1>7. /\ row = [finding[f] EXCEPT !.paths = list]
      /\ \A g \in Findings \ {f} : finding'[g] = finding[g]
  BY <1>1, <1>2 DEF IInv, TypeOK
<1>8. row \in FindingRows /\ row.paths = list /\ row.status = finding[f].status
  BY <1>4, <1>6, <1>7 DEF FindingRows
<1>9. finding' \in [Findings -> FindingRows \cup {NoRow}]
  <2>1. finding' = [g \in Findings |-> finding'[g]]
    BY <1>1 DEF IInv, TypeOK
  <2>2. \A g \in Findings : finding'[g] \in FindingRows \cup {NoRow}
    BY <1>7, <1>8 DEF IInv, TypeOK
  <2> QED
    BY <2>1, <2>2
<1> HIDE DEF row
<1>10. finding'[f] = row
  BY DEF row
<1>11. /\ row.status = "report_drafted" => f \in filed \/ f \in byHand'
       /\ byHand' \subseteq Findings /\ \A g \in byHand : g \in byHand' \/ g = f
  BY <1>1, <1>2, <1>8 DEF IInv, TypeOK, ReportsAreBacked, DraftIsThere, filed
<1>12. /\ attached' \subseteq Findings \X Artifacts
       /\ \A a \in attached' : a \in attached \/ a[1] = f
  BY <1>1, <1>2 DEF IInv, TypeOK
<1>13. \A a \in attached' : a[1] \in raced' \/ a[1] # f \/ a[2] \in row.paths
  <2>1. CASE finding[f].paths = seen[p]
    <3>1. \A a \in attached : a[1] = f => a[1] \in raced \/ a[2] \in seen[p]
      BY <2>1 DEF IInv, PathsKeep
    <3> QED
      BY <1>1, <1>5, <1>8, <2>1, <3>1
  <2>2. CASE finding[f].paths # seen[p]
    BY <1>1, <2>2
  <2> QED
    BY <2>1, <2>2
<1>14. \A q \in Procs : Decided(q)' = Decided(q)
  BY <1>1, <1>7, <1>8, <1>10 DEF Decided
<1>15. /\ seen' \in [Procs -> SUBSET Artifacts] /\ \A q \in Procs \ {p} : seen'[q] = seen[q]
       /\ raced \subseteq raced' /\ raced' \subseteq raced \cup {f}
       /\ overtaken' \subseteq Procs \X Findings
  BY <1>1 DEF IInv, TypeOK
<1>16. \A q \in Procs : Decided(q) \cap DraftedIn(todo'[q]) \subseteq Decided(q)'
  BY <1>14
<1>17. origin[f] = None \/ origin[f] \in row.paths
  BY <1>3, <1>8
<1> QED
  BY <1>1, <1>2, <1>7, <1>8, <1>9, <1>10, <1>11, <1>12, <1>13, <1>15, <1>16, <1>17, FindingStep

\* A change of status: a person's, which overtakes the drafts under way, and
\* the program's own.
LEMMA StatusStep ==
    ASSUME IInv, NEW p \in Procs, todo[p] # <<>>, Then(p, <<>>),
           Now(p).op \in {"setStatus", "draftStatus"},
           NEW f \in Findings, Stored(f), NEW s \in FindingStatuses,
           finding' = [finding EXCEPT ![f].status = s],
           s = "report_drafted" => f \in filed \/ f \in byHand',
           byHand' \subseteq Findings, \A g \in byHand : g \in byHand' \/ g = f,
           overtaken' \subseteq Procs \X Findings,
           s = "duplicate" => \A q \in Procs : Drafting(q, f) => <<q, f>> \in overtaken',
           \A o \in overtaken : o \in overtaken' \/ o[2] = f,
           UNCHANGED <<candidate, artifact, own, seen, origin, attached, raced>>
    PROVE  IInv'
<1>1. finding[f] \in FindingRows
  BY DEF IInv, TypeOK, Stored
<1> DEFINE row == finding'[f]
<1>2. /\ row = [finding[f] EXCEPT !.status = s]
      /\ \A g \in Findings \ {f} : finding'[g] = finding[g]
  BY DEF IInv, TypeOK
<1>3. row \in FindingRows /\ row.paths = finding[f].paths /\ row.status = s
  BY <1>1, <1>2 DEF FindingRows
<1>4. finding' \in [Findings -> FindingRows \cup {NoRow}]
  <2>1. finding' = [g \in Findings |-> finding'[g]]
    BY DEF IInv, TypeOK
  <2>2. \A g \in Findings : finding'[g] \in FindingRows \cup {NoRow}
    BY <1>2, <1>3 DEF IInv, TypeOK
  <2> QED
    BY <2>1, <2>2
<1> HIDE DEF row
<1>5. finding'[f] = row
  BY DEF row
<1>6. \A q \in Procs : Decided(q) \cap DraftedIn(todo'[q]) \subseteq Decided(q)'
  BY <1>2, <1>3, <1>5, DecidedStays
<1>7. origin[f] = None \/ origin[f] \in row.paths
  BY <1>3 DEF IInv, PathsKeep
<1>8. /\ attached' \subseteq Findings \X Artifacts
      /\ \A a \in attached' : a \in attached \/ a[1] = f
      /\ raced \subseteq raced' /\ raced' \subseteq raced \cup {f}
      /\ seen' \in [Procs -> SUBSET Artifacts] /\ \A q \in Procs \ {p} : seen'[q] = seen[q]
  BY DEF IInv, TypeOK
<1>9. \A a \in attached' : a[1] \in raced' \/ a[1] # f \/ a[2] \in row.paths
  BY <1>3 DEF IInv, PathsKeep
<1> QED
  BY <1>2, <1>3, <1>4, <1>5, <1>6, <1>7, <1>8, <1>9, FindingStep

\* A rejection overtakes the drafts already decided on.
LEMMA MarkStep ==
    ASSUME IInv, NEW p \in Procs, MarkFinding(p)
    PROVE  IInv'
<1> DEFINE f == Now(p).f
           s == Now(p).s
<1>1. /\ todo[p] # <<>> /\ Now(p).op = "setStatus" /\ Then(p, <<>>)
      /\ finding' = [finding EXCEPT ![f].status = s]
      /\ Say(f, s)
      /\ UNCHANGED <<candidate, artifact, own, seen, origin, attached, raced>>
  BY DEF MarkFinding, At, Now
<1>2. f \in Findings /\ Stored(f) /\ s \in FindingStatuses
  BY <1>1, NowFits DEF IInv, Statements, OfFinding, Ops, NeedsFinding, stored
<1> HIDE DEF f, s
<1>3. /\ overtaken' \subseteq Procs \X Findings
      /\ s = "duplicate" => \A q \in Procs : Drafting(q, f) => <<q, f>> \in overtaken'
      /\ \A o \in overtaken : o \in overtaken' \/ o[2] = f
      /\ byHand' \subseteq Findings /\ \A g \in byHand : g \in byHand' \/ g = f
      /\ s = "report_drafted" => f \in byHand'
  BY <1>1, <1>2, SaidFacts DEF IInv, TypeOK
<1> QED
  BY <1>1, <1>2, <1>3, StatusStep

\* A status of drafted comes after the file.
LEMMA MarkDraftedStep ==
    ASSUME IInv, NEW p \in Procs, MarkDrafted(p)
    PROVE  IInv'
<1> DEFINE f == Now(p).f
<1>1. /\ todo[p] # <<>> /\ Now(p).op = "draftStatus" /\ Then(p, <<>>)
      /\ finding' = [finding EXCEPT ![f].status = "report_drafted"]
      /\ overtaken' = overtaken \ {<<p, f>>} /\ byHand' = byHand \ {f}
      /\ UNCHANGED <<candidate, artifact, own, seen, origin, attached, raced>>
  BY DEF MarkDrafted, At, Now
<1>2. f \in Findings /\ Stored(f) /\ f \in filed
  BY <1>1, NowFits DEF IInv, Statements, OfFinding, Ops, NeedsFinding, stored
<1> HIDE DEF f
<1>3. "report_drafted" \in FindingStatuses
  BY DEF FindingStatuses
<1>4. /\ overtaken' \subseteq Procs \X Findings
      /\ \A o \in overtaken : o \in overtaken' \/ o[2] = f
      /\ byHand' \subseteq Findings /\ \A g \in byHand : g \in byHand' \/ g = f
  BY <1>1, <1>2 DEF IInv, TypeOK
<1> QED
  BY <1>1, <1>2, <1>3, <1>4, StatusStep

\* What is kept of a finding is never removed.
LEMMA KeepStep ==
    ASSUME IInv, NEW p \in Procs, KeepOwn(p)
    PROVE  IInv'
<1> DEFINE f == Now(p).f
           s == Now(p).s
<1>1. /\ todo[p] # <<>> /\ Now(p).op = "keep" /\ Then(p, <<>>)
      /\ own' = [own EXCEPT ![f] = @ \cup {s}]
      /\ UNCHANGED <<finding, candidate, artifact, seen, notes>>
  BY DEF KeepOwn, At, Now
<1>2. f \in Findings /\ s \in {"file", "report", "note"}
  BY <1>1, NowFits DEF IInv, Statements, OfFinding, Ops
<1>3. Creates(Now(p)) = {} /\ Files(Now(p)) = IF s = "file" THEN {f} ELSE {}
  BY <1>1 DEF Creates, Files
<1> HIDE DEF f, s
<1>4. /\ own'[f] = own[f] \cup {s} /\ \A g \in Findings : own[g] \subseteq own'[g]
      /\ own' \in [Findings -> SUBSET {"file", "report", "note"}]
  BY <1>1, <1>2 DEF IInv, TypeOK
<1>5. /\ stored' = stored /\ known' = known /\ filed \cup Files(Now(p)) \subseteq filed'
      /\ \A q \in Procs : Decided(q)' = Decided(q)
  BY <1>1, <1>2, <1>3, <1>4 DEF stored, known, filed, Decided, Stored, Known, notes
<1>6. TypeOK'
  BY <1>1, <1>4 DEF IInv, TypeOK, Then, notes
<1>7. ProgramsFit' /\ CreatesApart'
  BY <1>1, <1>3, <1>5, StepLists DEF IInv
<1>8. ReadHasOrigin'
  BY <1>1, StepReads DEF IInv, notes
<1>9. PathsKeep' /\ CandidatesWhole'
  BY <1>1 DEF IInv, PathsKeep, CandidatesWhole, Stored, Known, notes
<1>10. ReportsAreBacked'
  <2>1. DraftIsThere'
    BY <1>1, <1>4 DEF IInv, ReportsAreBacked, DraftIsThere, notes
  <2>2. ReadyIsBacked'
    BY <1>1 DEF IInv, ReportsAreBacked, ReadyIsBacked, Known, notes
  <2> QED
    BY <2>1, <2>2 DEF ReportsAreBacked
<1> QED
  BY <1>6, <1>7, <1>8, <1>9, <1>10 DEF IInv

\* A command begins, a process stops: its list is another, and no row changes.
LEMMA NewList ==
    ASSUME IInv, NEW p \in Procs, NEW program,
           todo' = [todo EXCEPT ![p] = program],
           Whole(program, stored, known, filed, Decided(p)),
           \A q \in Procs \ {p} : CreatedIn(program) \cap CreatedIn(todo[q]) = {},
           UNCHANGED rows,
           \A q \in Procs \ {p} : Decided(q)' = Decided(q),
           Decided(p) \cap DraftedIn(program) \subseteq Decided(p)',
           \A q \in Procs \ {p} : seen'[q] = seen[q],
           UNCHANGED <<origin, attached, raced, byHand>>,
           TypeOK'
    PROVE  IInv'
<1>1. /\ todo' \in [Procs -> Seq(Statements)] /\ todo'[p] = program
      /\ \A q \in Procs \ {p} : todo'[q] = todo[q]
  BY DEF IInv, ProgramsFit, Whole, Fits
<1>2. stored' = stored /\ known' = known /\ filed' = filed
  BY DEF stored, known, filed, Stored, Known, rows
<1>3. Fits(program, stored, known, filed, Decided(p))
  BY DEF Whole
<1>4. Fits(program, stored', known', filed', Decided(p)')
  BY <1>2, <1>3, MoreRows
<1>5. ProgramsFit'
  BY <1>1, <1>2, <1>4 DEF IInv, ProgramsFit
<1>6. CreatesApart'
  BY <1>1 DEF IInv, CreatesApart
<1>7. ReadHasOrigin'
  <2>1. ~At(p, "writePaths")'
    <3>1. program # <<>> => Head(program) = program[1]
      BY DEF Whole, Fits
    <3> QED
      BY <1>1, <3>1 DEF At, Whole
  <2>2. ASSUME NEW q \in Procs \ {p}, At(q, "writePaths")'
        PROVE  origin'[Now(q)'.f] \in seen'[q] \cup {None}
    BY <1>1, <2>2 DEF At, Now, IInv, ReadHasOrigin
  <2> QED
    BY <2>1, <2>2 DEF ReadHasOrigin
<1>8. PathsKeep' /\ CandidatesWhole' /\ ReportsAreBacked'
  BY DEF IInv, PathsKeep, CandidatesWhole, ReportsAreBacked, ReadyIsBacked, DraftIsThere,
         Stored, Known, rows
<1> QED
  BY <1>5, <1>6, <1>7, <1>8 DEF IInv

\* A command that begins reads the tables and adds what it has to do.
LEMMA CommandStep ==
    ASSUME IInv, NEW p \in Procs, Command(p)
    PROVE  IInv'
<1>1. PICK program : Begin(p, program) /\ Sound(p, program)
  BY CommandBegins DEF IInv, WellBegun
<1>2. commands < MaxCommands
  BY DEF Command, Ready
<1>3. TypeOK'
  BY <1>1, <1>2, BoundAssumption DEF Begin, IInv, TypeOK, rows, notes
<1>4. \A q \in Procs : Decided(q)' = Decided(q)
  BY <1>1 DEF Begin, Decided, rows, notes
<1>5. ASSUME NEW q \in Procs
      PROVE  CreatedIn(program) \cap CreatedIn(todo[q]) = {}
  <2>1. DOMAIN todo[q] = 1 .. Len(todo[q])
    BY DEF IInv, ProgramsFit
  <2>2. ASSUME NEW i \in 1 .. Len(todo[q])
        PROVE  todo[q][i].f \in Named
    <3> DEFINE all == {{todo[r][j].f : j \in DOMAIN todo[r]} : r \in Procs}
               one == {todo[q][j].f : j \in DOMAIN todo[q]}
    <3>1. one \in all
      OBVIOUS
    <3>2. todo[q][i].f \in one
      BY <2>1
    <3>3. UNION all \subseteq Named
      <4> DEFINE others == UNION {{todo[r][j].e : j \in DOMAIN todo[r]} : r \in Procs}
      <4>1. Named = others \cup UNION all
        BY DEF Named
      <4> QED
        BY <4>1
    <3> HIDE DEF one, all
    <3> QED
      BY <3>1, <3>2, <3>3
  <2>3. CreatedIn(todo[q]) \subseteq Named
    BY <2>2 DEF CreatedIn
  <2> QED
    BY <1>1, <2>3 DEF Sound, NewFindings
<1> QED
  BY <1>1, <1>3, <1>4, <1>5, NewList DEF Begin, Sound, notes

\* The statements that put others before the rest of their program.
LEMMA ThenStep ==
    ASSUME IInv, NEW p \in Procs, todo[p] # <<>>,
           Now(p).op \in {"review", "linkCandidates"},
           NEW program, Then(p, program),
           Quiet(program, stored, known, filed, Decided(p)),
           UNCHANGED <<rows, seen, notes>>
    PROVE  IInv'
<1> DEFINE rest == Tail(todo[p])
<1>1. /\ Fits(rest, stored, known, filed, Decided(p))
      /\ rest # <<>> => Head(rest).op # "writePaths"
      /\ CreatedIn(rest) \subseteq CreatedIn(todo[p])
  <2>1. Creates(Now(p)) = {} /\ Files(Now(p)) = {}
    BY DEF Creates, Files
  <2>2. stored \cup {} = stored /\ filed \cup {} = filed
    OBVIOUS
  <2>3. Fits(rest, stored \cup {}, known, filed \cup {}, Decided(p))
    BY <2>1, RestFits DEF IInv
  <2>4. Fits(rest, stored, known, filed, Decided(p))
    BY <2>2, <2>3
  <2> QED
    BY <2>4, RestFits DEF IInv
<1>2. rest \in Seq(Statements) /\ program \in Seq(Statements) /\ CreatedIn(program) = {}
  BY <1>1 DEF Quiet, Whole, Fits
<1> HIDE DEF rest
<1>3. Whole(rest, stored, known, filed, Decided(p))
  BY <1>1, <1>2 DEF Whole
<1>4. Whole(program \o rest, stored, known, filed, Decided(p))
  <2>1. Fits(rest, stored, known, filed \cup FiledIn(program), Decided(p))
    BY <1>3, MoreRows DEF Whole
  <2>2. stored \cup CreatedIn(program) = stored
    BY <1>2
  <2>3. Whole(rest, stored \cup CreatedIn(program), known, filed \cup FiledIn(program), Decided(p))
    BY <1>3, <2>1, <2>2 DEF Whole
  <2> QED
    BY <2>3, ConcatWhole DEF Quiet
<1>5. CreatedIn(program \o rest) = CreatedIn(rest)
  <2>1. CreatedIn(program \o rest) = CreatedIn(program) \cup CreatedIn(rest)
    BY <1>2, ConcatSets
  <2> QED
    BY <1>2, <2>1
<1>6. \A q \in Procs \ {p} : CreatedIn(program \o rest) \cap CreatedIn(todo[q]) = {}
  BY <1>1, <1>5 DEF IInv, CreatesApart
<1>7. \A q \in Procs : Decided(q)' = Decided(q)
  BY DEF Decided, rows, notes
<1>8. TypeOK'
  BY DEF Then, IInv, TypeOK, rows, notes
<1>9. todo' = [todo EXCEPT ![p] = program \o rest]
  BY DEF Then, rest
<1> QED
  BY <1>4, <1>6, <1>7, <1>8, <1>9, NewList DEF notes

\* The candidates that runHuntPlaybook refreshes are those of the finding then.
LEMMA ListCandidatesStep ==
    ASSUME IInv, NEW p \in Procs, ListCandidates(p)
    PROVE  IInv'
<1> DEFINE f == Now(p).f
           e == Now(p).e
           C == {c \in Candidates : Known(c) /\ candidate[c].finding = f}
           links == [c \in C |-> LinkEvidence(c, e) \o Refresh(c)]
<1>1. /\ todo[p] # <<>> /\ Now(p).op = "linkCandidates" /\ UNCHANGED <<rows, seen, notes>>
      /\ \E program \in Each(links, 4) : Then(p, program)
  BY DEF ListCandidates, At, Now
<1>2. PICK program \in Each(links, 4) : Then(p, program)
  BY <1>1
<1>3. e \in Artifacts
  BY <1>1, NowFits DEF IInv, Statements, OfArtifact
<1>4. C \subseteq Candidates /\ C \subseteq known
  BY DEF known
<1>5. IsFiniteSet(C)
  BY <1>4, FiniteAssumption, FS_Subset
<1> HIDE DEF f, e, C
<1>6. DOMAIN links = C /\ \A c \in C : links[c] = LinkEvidence(c, e) \o Refresh(c)
  OBVIOUS
<1>7. \A c \in C : Len(links[c]) = 4 /\ Quiet(links[c], stored, known, filed, Decided(p))
  BY <1>3, <1>4, <1>6, CandidateQuiet
<1> HIDE DEF links
<1>8. Quiet(program, stored, known, filed, Decided(p))
  BY <1>5, <1>6, <1>7, EachQuiet
<1> QED
  BY <1>1, <1>2, <1>8, ThenStep

\* Only a review that does not refuse goes on to a draft.
LEMMA ReviewStep ==
    ASSUME IInv, NEW p \in Procs, ReviewReport(p)
    PROVE  IInv'
<1> DEFINE f == Now(p).f
           s == Now(p).s
<1>1. /\ todo[p] # <<>> /\ Now(p).op = "review" /\ UNCHANGED <<rows, seen, notes>>
      /\ \/ Then(p, <<>>)
         \/ (s = "forced" \/ finding[f].status # "duplicate") /\ Then(p, Draft(f, s))
  BY DEF ReviewReport, Blocked, At, Now
<1>2. f \in Findings /\ f \in stored /\ s \in {"checked", "forced"}
  BY <1>1, NowFits DEF IInv, Statements, OfFinding, Ops, NeedsFinding
<1> HIDE DEF f, s
<1>3. CASE Then(p, <<>>)
  <2>1. Quiet(<<>>, stored, known, filed, Decided(p))
    BY DEF Quiet, Whole, Fits, CreatedIn
  <2> QED
    BY <1>1, <1>3, <2>1, ThenStep
<1>4. CASE (s = "forced" \/ finding[f].status # "duplicate") /\ Then(p, Draft(f, s))
  <2>1. s = "forced" \/ f \in Decided(p)
    BY <1>2, <1>4 DEF Decided
  <2>2. Quiet(Draft(f, s), stored, known, filed, Decided(p))
    BY <1>2, <2>1, DraftQuiet
  <2> QED
    BY <1>1, <1>4, <2>2, ThenStep
<1> QED
  BY <1>1, <1>3, <1>4

\* A process that stops leaves its command half done: the rest is not needed
\* by what the rows promise.
LEMMA StopStep ==
    ASSUME IInv, NEW p \in Procs, Stop(p)
    PROVE  IInv'
<1>1. Whole(<<>>, stored, known, filed, Decided(p))
  BY DEF Whole, Fits
<1>2. CreatedIn(<<>>) = {} /\ DraftedIn(<<>>) = {}
  BY DEF CreatedIn, DraftedIn
<1>3. TypeOK'
  BY BoundAssumption DEF Stop, IInv, TypeOK, rows
<1>4. \A q \in Procs \ {p} : Decided(q)' = Decided(q)
  BY DEF Stop, Decided, rows
<1>5. \A q \in Procs \ {p} : seen'[q] = seen[q]
  BY DEF Stop, IInv, TypeOK
<1> QED
  BY <1>1, <1>2, <1>3, <1>4, <1>5, NewList DEF Stop

---------------------------------------------------------------------------
\* The tables start empty, and no process has anything to do.
LEMMA InitHolds == Init => IInv
<1> SUFFICES ASSUME Init PROVE IInv
  OBVIOUS
<1>1. TypeOK
  BY BoundAssumption DEF Init, TypeOK
<1>2. ProgramsFit
  BY DEF Init, ProgramsFit, Fits
<1>3. CreatesApart
  BY DEF Init, CreatesApart, CreatedIn
<1>4. ReadHasOrigin
  BY DEF Init, ReadHasOrigin, At
<1>5. PathsKeep /\ CandidatesWhole
  BY DEF Init, PathsKeep, CandidatesWhole, Stored, Known
<1>6. ReportsAreBacked
  BY DEF Init, ReportsAreBacked, ReadyIsBacked, DraftIsThere, Known, NoRow
<1> QED
  BY <1>1, <1>2, <1>3, <1>4, <1>5, <1>6 DEF IInv

\* Every step of every process keeps the invariant.
LEMMA StepHolds == IInv /\ [Next]_vars => IInv'
<1> SUFFICES ASSUME IInv, [Next]_vars PROVE IInv'
  OBVIOUS
<1>1. CASE UNCHANGED vars
  <2>1. /\ stored' = stored /\ known' = known /\ filed' = filed
        /\ \A p \in Procs : Decided(p)' = Decided(p)
    BY <1>1 DEF vars, rows, notes, stored, known, filed, Stored, Known, Decided
  <2>2. TypeOK'
    BY <1>1 DEF IInv, TypeOK, vars, rows, notes
  <2>3. ProgramsFit'
    BY <1>1, <2>1 DEF IInv, ProgramsFit, vars
  <2>4. CreatesApart' /\ ReadHasOrigin'
    BY <1>1 DEF IInv, CreatesApart, ReadHasOrigin, At, Now, vars, notes
  <2>5. PathsKeep' /\ CandidatesWhole' /\ ReportsAreBacked'
    BY <1>1 DEF IInv, PathsKeep, CandidatesWhole, ReportsAreBacked, ReadyIsBacked,
                DraftIsThere, Stored, Known, vars, rows, notes
  <2> QED
    BY <2>2, <2>3, <2>4, <2>5 DEF IInv
<1>2. CASE Next
  <2>1. PICK p \in Procs : Command(p) \/ Statement(p) \/ Stop(p)
    BY <1>2 DEF Next
  <2>2. CASE Command(p)
    BY <2>2, CommandStep
  <2>3. CASE Stop(p)
    BY <2>3, StopStep
  <2>4. CASE StoreArtifact(p) \/ RelinkArtifact(p)
    BY <2>4, ArtifactSteps
  <2>5. CASE CreateFinding(p)
    BY <2>5, CreateStep
  <2>6. CASE UpsertCandidate(p)
    BY <2>6, UpsertStep
  <2>7. CASE PromoteCandidate(p)
    BY <2>7, PromoteStep
  <2>8. CASE ReadRow(p)
    BY <2>8, ReadStep
  <2>9. CASE WritePathsBack(p)
    BY <2>9, WritePathsStep
  <2>10. CASE WriteEvidenceBack(p)
    BY <2>10, WriteEvidenceStep
  <2>11. CASE WriteReadiness(p)
    BY <2>11, WriteReadinessStep
  <2>12. CASE ListCandidates(p)
    BY <2>12, ListCandidatesStep
  <2>13. CASE ReviewReport(p)
    BY <2>13, ReviewStep
  <2>14. CASE KeepOwn(p)
    BY <2>14, KeepStep
  <2>15. CASE MarkFinding(p)
    BY <2>15, MarkStep
  <2>16. CASE MarkDrafted(p)
    BY <2>16, MarkDraftedStep
  <2> QED
    BY <2>1, <2>2, <2>3, <2>4, <2>5, <2>6, <2>7, <2>8, <2>9, <2>10, <2>11, <2>12, <2>13,
       <2>14, <2>15, <2>16 DEF Statement
<1> QED
  BY <1>1, <1>2

\* The invariant holds in every state of every behaviour.
THEOREM Invariance == Spec => []IInv
<1> QED
  BY InitHolds, StepHolds, PTL DEF Spec

\* The rows of the tables and what is known of them keep their types.
THEOREM RowsAreTyped == Spec => []TypeOK
<1>1. IInv => TypeOK
  BY DEF IInv
<1> QED
  BY <1>1, Invariance, PTL

\* The artifact a finding was made from, and those commands have attached to
\* it, stay its evidence, whatever other processes relink or write back
\* (linkToFinding, linkEvidencePath), but for a row two of them wrote at once.
THEOREM EvidenceIsKept == Spec => []EvidenceStays
<1>1. IInv => EvidenceStays
  <2> SUFFICES ASSUME IInv PROVE EvidenceStays
    OBVIOUS
  <2>1. FirstEvidenceStays
    BY DEF IInv, PathsKeep, FirstEvidenceStays, Listed, TypeOK
  <2>2. ASSUME NEW a \in attached, a[1] \notin raced
        PROVE  a[2] \in Listed(a[1])
    BY <2>2 DEF IInv, PathsKeep, Listed, TypeOK
  <2>3. AttachedStays
    BY <2>2 DEF AttachedStays
  <2> QED
    BY <2>1, <2>3 DEF EvidenceStays
<1> QED
  BY <1>1, Invariance, PTL

\* A candidate has a finding and evidence at any moment, so promoteCandidate
\* never throws for want of them, between which statements soever it comes.
THEOREM CandidatesStayPromotable == Spec => []CandidateCanBePromoted
<1>1. IInv => CandidateCanBePromoted
  BY DEF IInv, CandidatesWhole, CandidateCanBePromoted, EvidenceOf
<1> QED
  BY <1>1, Invariance, PTL

\* A candidate called ready has two artifacts to show unless its row was
\* raced, and a finding called drafted has its report on disk unless a person
\* has called it so (refreshCandidateReadiness, draftFindingReport,
\* `findings status`).
THEOREM BackedReports == Spec => []ReportsAreBacked
<1>1. IInv => ReportsAreBacked
  BY DEF IInv
<1> QED
  BY <1>1, Invariance, PTL

\* A finding a person rejected is called drafted by force, by a command that
\* had decided on its draft before it was rejected, or by a person: no other
\* statement of any process does it (`findings status`, draftReports).
THEOREM RejectionIsRespected == Spec => RejectionRespected
<1> DEFINE Mover(p, f) ==
              /\ todo'[p] # todo[p] /\ todo[p] # <<>> /\ Now(p).f = f
              /\ \/ Now(p).op = "draftStatus" /\ (Now(p).s = "forced" \/ <<p, f>> \in overtaken)
                 \/ Now(p).op = "setStatus"
           Respected == \A f \in Findings :
              finding[f].status = "duplicate" /\ finding'[f].status = "report_drafted" =>
                 \E p \in Procs : Mover(p, f)
<1>1. IInv /\ [Next]_vars => [Respected]_vars
  <2> SUFFICES ASSUME IInv, Next PROVE Respected
    OBVIOUS
  <2> SUFFICES ASSUME NEW f \in Findings, finding[f].status = "duplicate",
                      finding'[f].status = "report_drafted"
               PROVE  \E p \in Procs : Mover(p, f)
    OBVIOUS
  <2>1. PICK p \in Procs : Command(p) \/ Statement(p) \/ Stop(p)
    BY DEF Next
  <2>2. finding' # finding
    OBVIOUS
  <2>3. CreateFinding(p) \/ WritePathsBack(p) \/ MarkFinding(p) \/ MarkDrafted(p)
    <3>1. ~Command(p)
      <4> SUFFICES ASSUME Command(p) PROVE FALSE
        OBVIOUS
      <4>1. PICK program : Begin(p, program) /\ Sound(p, program)
        BY CommandBegins DEF IInv, WellBegun
      <4> QED
        BY <2>2, <4>1 DEF Begin, rows
    <3>2. ~Stop(p)
      BY <2>2 DEF Stop, rows
    <3> QED
      BY <2>1, <2>2, <3>1, <3>2 DEF Statement, StoreArtifact, RelinkArtifact, UpsertCandidate,
         PromoteCandidate, ReadRow, WriteEvidenceBack, WriteReadiness, ListCandidates,
         ReviewReport, KeepOwn, rows
  <2>4. finding \in [Findings -> FindingRows \cup {NoRow}]
    BY DEF IInv, TypeOK
  <2>5. ~CreateFinding(p)
    <3> SUFFICES ASSUME CreateFinding(p) PROVE FALSE
      OBVIOUS
    <3>1. todo[p] # <<>> /\ Now(p).op = "createFinding"
      BY DEF CreateFinding, At, Now
    <3>2. Now(p).f \notin stored
      BY <3>1, NowFits DEF IInv
    <3>3. f \in stored
      BY DEF stored, Stored, NoRow
    <3> QED
      BY <3>2, <3>3 DEF CreateFinding
  <2>6. ~WritePathsBack(p)
    <3> SUFFICES ASSUME WritePathsBack(p) PROVE FALSE
      OBVIOUS
    <3>1. PICK g, list : finding' = [finding EXCEPT ![g].paths = list]
      BY DEF WritePathsBack
    <3>2. finding'[f] = finding[f] \/ finding'[f] = [finding[f] EXCEPT !.paths = list]
      BY <2>4, <3>1
    <3>3. finding'[f].status = finding[f].status
      BY <2>4, <3>2 DEF FindingRows, NoRow
    <3> QED
      BY <3>3
  <2>7. /\ todo[p] # <<>> /\ Then(p, <<>>) /\ Now(p).f = f
        /\ Now(p).op = "setStatus" \/ Now(p).op = "draftStatus"
    <3>1. CASE MarkFinding(p)
      BY <2>4, <3>1 DEF MarkFinding, At, Now
    <3>2. CASE MarkDrafted(p)
      BY <2>4, <3>2 DEF MarkDrafted, At, Now
    <3> QED
      BY <2>3, <2>5, <2>6, <3>1, <3>2
  <2>8. todo'[p] # todo[p]
    <3>1. todo \in [Procs -> Seq(Statements)]
      BY DEF IInv, ProgramsFit
    <3>2. todo'[p] = <<>> \o Tail(todo[p])
      BY <2>7, <3>1 DEF Then
    <3>3. Len(<<>> \o Tail(todo[p])) # Len(todo[p])
      BY <2>7, <3>1
    <3> QED
      BY <3>2, <3>3
  <2>9. Now(p).op = "draftStatus" => Now(p).s = "forced" \/ <<p, f>> \in overtaken
    BY <2>7, NowFits DEF IInv, Decided
  <2> QED
    BY <2>7, <2>8, <2>9
<1> QED
  BY <1>1, Invariance, PTL DEF Spec, RejectionRespected
=============================================================================
