----------------------------- MODULE MCToolRun -----------------------------
(***************************************************************************)
(* Instances of ToolRun for TLC.  Either one run races the approvals and   *)
(* the replacement of its program, and may be stopped; or two runs of      *)
(* approved programs, both started, race each other.                       *)
(***************************************************************************)
EXTENDS ToolRun

CONSTANTS r1, r2, p, c1

ASSUME InstanceAssumption == p \in Programs /\ c1 \in Contents /\ MaxApprovals >= 2

Approved == {[kind |-> "tool", path |-> p, hash |-> c1, at |-> 1],
             [kind |-> "external", path |-> p, hash |-> c1, at |-> 2]}

Started == [Unstarted EXCEPT !.phase = "running", !.path = p, !.hash = c1, !.leader = "up",
                             !.timer = TRUE]

Over == [Unstarted EXCEPT !.phase = "done", !.outcome = "refused"]

MCInit ==
    /\ kind \in [Runs -> Kinds]
    /\ disk = [q \in Programs |-> c1]
    /\ reviewer = [x \in People |-> Nobody] /\ overlap = FALSE
    /\ file = [f \in Runs \cup {Nobody} |-> Nobody]
    /\ rows = {} /\ audit = {} /\ page = FALSE
    /\ \/ /\ edits = 0 /\ faults = 0 /\ approvals = {} /\ granted = {}
          /\ observed = {}
          /\ run = [r \in Runs |-> IF r = r1 THEN Unstarted ELSE Over]
          /\ kind[r2] = "tool"
       \/ /\ edits = MaxEdits /\ faults = MaxFaults
          /\ approvals = Approved /\ granted = Approved
          /\ observed = {o \in Observations : ScopedObservationAllowed(o)}
          /\ run = [r \in Runs |-> Started]
          /\ kind[r2] = "external" => kind[r1] = "external"

MCSpec == MCInit /\ [][Next]_vars /\ \A r \in Runs : WF_vars(Proceeds(r))
=============================================================================
