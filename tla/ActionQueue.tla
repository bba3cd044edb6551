---------------------------- MODULE ActionQueue ----------------------------
(***************************************************************************)
(* The actions table of the workspace database and the ActionQueue methods *)
(* that change it (src/core/actions/action-queue.ts).                      *)
(*                                                                         *)
(* The database is shared by every `bounty` process of the workspace.      *)
(* markExecuted, approve, block and fail are a SELECT, a check in          *)
(* JavaScript and an UPDATE whose WHERE clause names only the id; SQLite   *)
(* runs the two statements as two transactions, so another process may     *)
(* write the row in between.  A call is therefore two steps: Read, then    *)
(* Return, Write or Throw.                                                 *)
(***************************************************************************)
EXTENDS Naturals

CONSTANTS Actions,  \* the rows the table may ever hold
          Procs,    \* the `bounty` processes of one workspace
          NoAction  \* the row a process that makes no call is at

ASSUME NoActionAssumption == NoAction \notin Actions

VARIABLES row,           \* row[a]: the status column, "absent" before INSERT
          needsApproval, \* needsApproval[a]: the requires_approval column
          call           \* call[p]: the status change p has read the row for

queueVars == <<row, needsApproval, call>>

\* The legacy stored status "planned" is read as "pending" (normalizeStatus).
Statuses == {"pending", "approved", "executed", "blocked", "failed"}
Terminal == {"executed", "blocked", "failed"}
Targets  == {"executed", "approved", "blocked", "failed"}

Calls  == [act : Actions, next : Targets, seen : Statuses]
NoCall == [act |-> NoAction, next |-> "none", seen |-> "none"]
Busy(p) == call[p] # NoCall

\* Mutants of isTransitionAllowed: failed is not terminal; block can be undone.
TransitionAllowedRetry(current, next) ==
    \/ current = next
    \/ current = "pending"  /\ next \in {"approved", "blocked", "failed"}
    \/ current \in {"approved", "failed"} /\ next \in {"executed", "blocked", "failed"}

TransitionAllowedUnblock(current, next) ==
    \/ current = next
    \/ current \in {"pending", "blocked"} /\ next \in {"approved", "blocked", "failed"}
    \/ current = "approved" /\ next \in {"executed", "blocked", "failed"}

(***************************************************************************)
(* isTransitionAllowed: what may follow what.                              *)
(***************************************************************************)
TransitionAllowed(current, next) ==
    \/ current = next
    \/ current = "pending"  /\ next \in {"approved", "blocked", "failed"}
    \/ current = "approved" /\ next \in {"executed", "blocked", "failed"}

-----------------------------------------------------------------------------
QueueInit == /\ row = [a \in Actions |-> "absent"]
             /\ needsApproval = [a \in Actions |-> FALSE]
             /\ call = [p \in Procs |-> NoCall]

(***************************************************************************)
(* enqueue: one INSERT.  Without an explicit status the row starts pending *)
(* when a person must approve it and approved when nobody has to.          *)
(***************************************************************************)
\* Mutant: the legacy status is stored again.
InitialStatusLegacy(requires) == IF requires THEN "planned" ELSE "approved"

InitialStatus(requires) == IF requires THEN "pending" ELSE "approved"

Insert(a, status, requires) ==
    /\ row[a] = "absent"
    /\ row' = [row EXCEPT ![a] = status]
    /\ needsApproval' = [needsApproval EXCEPT ![a] = requires]

Enqueue(a, requires) == Insert(a, InitialStatus(requires), requires)

\* The status argument is used by the planners only for what policy blocks.
EnqueueBlocked(a) == Insert(a, "blocked", FALSE)

(***************************************************************************)
(* markExecuted, approve, block, fail: requireAction reads the row.        *)
(***************************************************************************)
Read(p, a, next) ==
    /\ ~Busy(p)
    /\ row[a] # "absent"
    /\ call' = [call EXCEPT ![p] = [act |-> a, next |-> next, seen |-> row[a]]]

Done(p) == call' = [call EXCEPT ![p] = NoCall]

\* The row already has the status asked for: the call returns what it read.
Return(p) == /\ Busy(p)
             /\ call[p].seen = call[p].next
             /\ Done(p)
             /\ UNCHANGED row

\* UPDATE actions SET status = ? WHERE id = ?: whatever the row holds by now.
Write(p) == /\ Busy(p)
            /\ call[p].seen # call[p].next
            /\ TransitionAllowed(call[p].seen, call[p].next)
            /\ row' = [row EXCEPT ![call[p].act] = call[p].next]
            /\ Done(p)

\* assertTransition throws ACTION_INVALID_TRANSITION.
Throw(p) == /\ Busy(p)
            /\ ~TransitionAllowed(call[p].seen, call[p].next)
            /\ Done(p)
            /\ UNCHANGED row

\* The process dies between its SELECT and its UPDATE.
Abandon(p) == Busy(p) /\ Done(p) /\ UNCHANGED row
-----------------------------------------------------------------------------
QueueNext ==
    \/ \E a \in Actions : /\ \/ \E r \in BOOLEAN : Enqueue(a, r)
                             \/ EnqueueBlocked(a)
                          /\ UNCHANGED call
    \/ \E p \in Procs, a \in Actions, s \in Targets :
          Read(p, a, s) /\ UNCHANGED <<row, needsApproval>>
    \/ \E p \in Procs : /\ Return(p) \/ Write(p) \/ Throw(p) \/ Abandon(p)
                        /\ UNCHANGED needsApproval

QueueSpec == QueueInit /\ [][QueueNext]_queueVars
-----------------------------------------------------------------------------
(***************************************************************************)
(* Every row has a status, every call a row, a target and what it read.    *)
(***************************************************************************)
QueueTypeOK ==
    /\ row \in [Actions -> Statuses \cup {"absent"}]
    /\ needsApproval \in [Actions -> BOOLEAN]
    /\ call \in [Procs -> Calls \cup {NoCall}]

(***************************************************************************)
(* A row that left "pending" never becomes pending again, however the      *)
(* calls of the processes interleave: what assertTransition still          *)
(* guarantees when the row it checked is stale by the time of the UPDATE.  *)
(***************************************************************************)
NeverPendingAgain ==
    [][\A a \in Actions : row'[a] = "pending" => row[a] \in {"absent", "pending"}]_row

(***************************************************************************)
(* assertTransition: an executed, blocked or failed action keeps that      *)
(* status.  Only one process at a time makes this true of the table.       *)
(***************************************************************************)
TerminalIsFinal ==
    [][\A a \in Actions : row[a] \in Terminal => row'[a] = row[a]]_row

(***************************************************************************)
(* With one process the table implements the abstract lifecycle.           *)
(***************************************************************************)
Lifecycle == INSTANCE ActionLifecycle WITH status <- row
LifecycleSpec == Lifecycle!Spec
=============================================================================
