-------------------------- MODULE ActionLifecycle --------------------------
(***************************************************************************)
(* What the action queue promises a single operator: one life per action.  *)
(* A queued action is decided (approved, blocked or failed) and an         *)
(* approved one is settled (executed, blocked or failed), once and for     *)
(* all.  Every change of status is one indivisible step.                   *)
(***************************************************************************)
CONSTANT Actions

VARIABLE status

Terminal == {"executed", "blocked", "failed"}

Init == status = [a \in Actions |-> "absent"]

Move(a, from, to) == /\ status[a] \in from
                     /\ status' = [status EXCEPT ![a] = to]

Enter(a)   == \E s \in {"pending", "approved", "blocked", "failed"} :
                 Move(a, {"absent"}, s)
Approve(a) == Move(a, {"pending"}, "approved")
Execute(a) == Move(a, {"approved"}, "executed")
Refuse(a)  == \E s \in {"blocked", "failed"} : Move(a, {"pending", "approved"}, s)

Next == \E a \in Actions : Enter(a) \/ Approve(a) \/ Execute(a) \/ Refuse(a)

Spec == Init /\ [][Next]_status
=============================================================================
