--------------------------- MODULE MCPolicyReview ---------------------------
(***************************************************************************)
(* The forms the planners of the program do plan, in each mode: a check of *)
(* one page, a browser visit, public research, an agent plan, a validation *)
(* of a hunt, a desktop screenshot over MCP, tools of the registry.  In    *)
(* the same instance, the requests that follow: a scope instead of rules,  *)
(* and the processes that fetch; either the actions move or the requests   *)
(* do.                                                                     *)
(***************************************************************************)
EXTENDS PolicyReview, ToolPlan, MCScopeCases

CONSTANTS PlannedModes, PlannedTools, Procs, URLs, Rules, MaxRedirects, Interval, MaxTime, MaxScripts, Lab

VARIABLES scope, now, limiter, visits, fetch, asked, part

Fetch == INSTANCE MCScopedFetch WITH rules <- scope

requestVars == <<scope, now, limiter, visits, fetch, asked>>

Described(mode, type, cap, risk, byDefault) ==
    [mode |-> mode, actionType |-> type, capability |-> cap, target |-> "public",
     risk |-> risk, stateChanging |-> FALSE, destructive |-> FALSE,
     byDefault |-> byDefault]

Form(planner, planned, recovered, modes) ==
    [planner |-> planner, planned |-> planned, recovered |-> recovered, modes |-> modes]

Known(planner, planned, modes) == Form(planner, planned, planned, modes)

FormsOf(m) ==
    { Known("gate", Described(m, "http.get", NoCapability, Low, FALSE), Modes),
      Known("gate", Described(m, "research.public", "research.public", Low, FALSE), Modes),
      Known("gate", Described(m, "agent.plan", NoCapability, Low, FALSE), Modes),
      Known("integration",
            Described(m, "browser.navigate", "browser.navigate", Low, FALSE),
            {"safe", "deep-safe"}),
      Known("integration",
            Described(m, "desktop.screenshot", "desktop.screenshot", Medium, TRUE),
            {"deep-safe"}),
      Form("playbook",
           Described(m, "http.validate", Exploit, Medium, TRUE),
           Bare(Described(m, "http.validate", Exploit, Medium, TRUE)), Modes) }

ToolForm(t, m) == LET planned == RunPlan(t, m, "public")
                  IN  Form("tool", planned, Bare(planned), AllowedModes(t))

ToolForms == {ToolForm(Registry[n], m) : n \in PlannedTools, m \in PlannedModes}

\* A form aimed at a local lab instead.
AtLab(f) == [f EXCEPT !.planned.target = "local", !.recovered.target = "local"]

MCForms == LET fs == (UNION {FormsOf(m) : m \in PlannedModes}) \cup ToolForms
           IN  fs \cup {AtLab(f) : f \in {g \in fs : g.planned.mode = "lab-offensive"}}

\* The tools that are built in lack no permission and have no barred capability.
ASSUME BuiltInsAreTrusted == \A n \in DOMAIN Registry : Trusted(Registry[n])

ASSUME RequestsAssumption == Fetch!Bounds /\ Open \in Rules

MCInit ==
    /\ part \in {"actions", "requests"}
    /\ Init /\ (part = "requests" => rules = CHOOSE r \in ProgramRules : TRUE)
    /\ IF part = "requests" THEN Fetch!MCInit ELSE Fetch!Init /\ scope = Open

MCNext ==
    \/ part = "actions" /\ Next /\ UNCHANGED <<requestVars, part>>
    \/ part = "requests" /\ Fetch!Next /\ UNCHANGED <<vars, part>>

MCSpec == MCInit /\ [][MCNext]_<<vars, requestVars, part>>

-----------------------------------------------------------------------------

(* Nothing outside the scope is asked, first or after a redirect, and a    *)
(* chain of redirects ends; fetches and requests keep their types.         *)
FetchesStay == part = "requests" => Fetch!TypeOK /\ Fetch!FetchesStay

(* A host gets no more requests that wait than the rules and the number of *)
(* processes allow.                                                        *)
Paced == part = "requests" => Fetch!Paced
=============================================================================
