--------------------------- MODULE MCChildProcesses --------------------------
(***************************************************************************)
(* The programs the system starts, in one instance for TLC: the tools and  *)
(* external integrations, and the server of an MCP call or session.  They  *)
(* share no state: in a behaviour either the runs move or the call does.   *)
(***************************************************************************)
EXTENDS MCToolRun

CONSTANTS MaxSteps, MaxNoise, MayDie, Held

\* A session has a step.
ASSUME SessionAssumption == MaxSteps \in Nat \ {0} /\ MaxNoise \in Nat

VARIABLES call, phase, prepared, child, signalled, asked, pipe, noise, inbox, started, active,
          answers, timer, fallback, released, timedOut, failure, settled, broken, noted,
          records, lines, callFaults, outcome,
          part

Mcp == INSTANCE McpSession WITH faults <- callFaults

callVars == <<call, phase, prepared, child, signalled, asked, pipe, noise, inbox, started, active,
              answers, timer, fallback, released, timedOut, failure, settled, broken, noted,
              records, lines, callFaults, outcome>>

OneStep == [kind |-> "call", gates |-> <<"ok">>, approved |-> FALSE, job |-> FALSE]

PartsInit ==
    /\ part \in {"runs", "call"}
    /\ Mcp!Init /\ (part = "runs" => call = OneStep)
    /\ IF part = "runs" THEN MCInit
       ELSE Init /\ kind = [r \in Runs |-> "tool"] /\ disk = [q \in Programs |-> c1]

Running(action) == part = "runs" /\ action /\ UNCHANGED <<callVars, part>>
Calling(action) == part = "call" /\ action /\ UNCHANGED <<vars, part>>

PartsNext == Running(Next) \/ Calling(Mcp!Next)

allvars == <<vars, callVars, part>>

\* The fairness of each part: only one of them moves.
PartsSpec == /\ PartsInit /\ [][PartsNext]_allvars
             /\ WF_allvars(Calling(Mcp!Executor))
             /\ \A r \in Runs : WF_allvars(Running(Proceeds(r)))

-----------------------------------------------------------------------------

(* The approvals, the runs, the records and the state of the call keep     *)
(* their types.                                                            *)
TypesOK == IF part = "runs" THEN TypeOK ELSE Mcp!TypeOK

(* Nothing is started unchecked, and a server is asked its steps in order  *)
(* up to the first that fails, one at a time unless it answers too early.  *)
AskedInOrder == part = "call" => Mcp!AskedInOrder

(* What is reported of a call or run is what happened, and its evidence is *)
(* on record.                                                              *)
ReportsAreTrue == IF part = "runs" THEN ReportIsTrue /\ OwnEvidence ELSE Mcp!OutcomeIsRecorded

(* No program outlives the call or run it was started for, unless the      *)
(* process of that was stopped.                                            *)
NoChildLeft == IF part = "runs" THEN NoneOutlives ELSE Mcp!NoServerLeft

(* Whatever a server does, its call ends; a run ends as well, but for that *)
(* of a tool whose descendant keeps the pipe open.                         *)
CallsSettle == Mcp!CallEnds /\ RunsSettle
=============================================================================
