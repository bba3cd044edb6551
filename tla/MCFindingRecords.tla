-------------------------- MODULE MCFindingRecords --------------------------
(***************************************************************************)
(* Instances of FindingRecords for TLC.  They begin after a few commands:  *)
(* one detected two signals in one artifact e1, so that two candidates,    *)
(* each with its finding, share their only evidence; then the first        *)
(* finding may have been given an artifact e2 of its own (`evidence        *)
(* record`), its candidate may have been promoted, in a race with the one  *)
(* before so that the list of the finding has lost e2, and it may have     *)
(* been rejected (`findings status`) or drafted.                           *)
(***************************************************************************)
EXTENDS FindingRecords

CONSTANTS e1, e2, f1, f2, c1, c2

Detected(f) == [readiness |-> [status |-> "needs_manual_verification",
                               reportability |-> "needs_review"],
                evidence |-> {e1}, finding |-> f]

OwnAfter == [open |-> {}, duplicate |-> {"note"}, report_drafted |-> {"file", "report"}]

Seeded(given, lost, promoted, status) ==
    /\ finding = [f \in Findings |->
                     IF f = f1 THEN [status |-> status, paths |-> {e1} \cup (given \ lost)]
                     ELSE IF f = f2 THEN [status |-> "open", paths |-> {e1}] ELSE NoRow]
    /\ candidate = [c \in Candidates |->
                       IF c = c2 THEN Detected(f2)
                       ELSE IF promoted THEN [Detected(f1) EXCEPT !.readiness.status = "promoted"]
                       ELSE Detected(f1)]
    /\ artifact = [e \in Artifacts |-> IF e \in given \/ (e = e1 /\ promoted) THEN f1
                                       ELSE IF e = e1 THEN f2 ELSE "absent"]
    /\ own = [f \in Findings |-> IF f = f1 THEN OwnAfter[status] ELSE {}]
    /\ todo = [p \in Procs |-> <<>>]
    /\ commands = 0 /\ stops = 0
    /\ seen = [p \in Procs |-> {}]
    /\ origin = [f \in Findings |-> IF f \in {f1, f2} THEN e1 ELSE None]
    /\ attached = {<<f1, e>> : e \in given \cup (IF promoted THEN {e1} ELSE {})}
    /\ raced = {f1 : e \in lost} /\ overtaken = {} /\ byHand = {}

MCInit == \E given, lost \in {{}, {e2}}, promoted \in BOOLEAN, status \in FindingStatuses :
             /\ lost # {} => lost = given /\ promoted
             /\ Seeded(given, lost, promoted, status)

MCSpec == MCInit /\ [][Next]_vars

Symmetry == Permutations(Procs)
=============================================================================
