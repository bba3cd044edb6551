------------------------------ MODULE ToolPlan ------------------------------
(***************************************************************************)
(* The registry of trusted tools and what the tool manager makes of it     *)
(* when a run of a tool is planned: who may run in which mode, and how the *)
(* run is described to the policy gate.  The capabilities of a tool are    *)
(* compared with the barred ones here; the gate is not told of them.       *)
(***************************************************************************)
EXTENDS PolicyGate

\* A tool with its one action; the browser's second one adds nothing, and the
\* two capabilities it leaves unblocked are barred anyway.
Tool(type, risk, capabilities, modes, asks) ==
    [actionType |-> type, risk |-> risk, capabilities |-> capabilities,
     modes |-> modes, asks |-> asks, network |-> TRUE, writes |-> TRUE,
     uses |-> [network |-> TRUE, writes |-> TRUE], destructive |-> FALSE,
     blocked |-> {"brute_force", "credential_stuffing", "destructive_testing",
                  "data_exfiltration", "waf_evasion"}]

\* A tool that is neither trusted with the network or files nor uses them.
Confined(t, network, writes) ==
    [t EXCEPT !.network = network, !.writes = writes,
              !.uses = [network |-> network, writes |-> writes]]

Probing == {"safe", "deep-safe"}
Widely  == Probing \cup {"lab-offensive"}

\* BUILT_IN_TOOLS: nobody loads another registry.  Tools that agree in what is
\* asked of them here share an entry.
Registry == [
    subfinder  |-> Tool("research.public", Low, {"public_recon"}, Probing, FALSE),
    d_research |-> Confined(Tool("research.public", Low, {"public_recon", "local_planning"},
                                 Probing \cup {"passive"}, FALSE), FALSE, TRUE),
    httpx      |-> Tool("http.probe", Low, {"http_probe", "dns_resolution"}, Probing, FALSE),
    katana     |-> Tool("crawler.fetch", Low, {"crawler.fetch"}, Probing, FALSE),
    crawl4ai   |-> Tool("crawler.fetch", Low, {"crawler.fetch", "crawl_graph"}, Widely, TRUE),
    nuclei     |-> Tool("http.scan", Medium, {"template_scan"}, Widely, TRUE),
    ffuf       |-> Tool("http.fuzz", Medium, {"content_discovery"}, Widely \ {"safe"}, TRUE),
    dalfox     |-> Tool("http.validate", High, {"xss_validation", "exploit_validation"},
                        Widely \ {"safe"}, TRUE),
    naabu      |-> Tool("tcp.scan", High, {"port_discovery"}, {"lab-offensive"}, TRUE),
    jq         |-> Confined(Tool("artifact.parse", Low, {"local_parsing"}, Modes, FALSE),
                            FALSE, FALSE),
    curl       |-> Confined(Tool("http.get", Low, {"http_probe"}, Widely, FALSE), TRUE, FALSE),
    playwright |-> Tool("browser.navigate", Low, {"browser_automation"}, Probing, FALSE),
    playwright_mcp |-> Tool("browser.navigate", Low, {"browser_automation", "mcp_live_execution"},
                            Widely, TRUE)]

\* Nothing in the registry itself speaks against a run.
Trusted(t) == /\ ~t.destructive
              /\ t.uses.network => t.network
              /\ t.uses.writes => t.writes
              /\ t.capabilities \cap (Barred \cup t.blocked) = {}

\* What validateRunPlan asks the gate.
RunPlan(t, mode, target) ==
    [mode |-> mode, actionType |-> t.actionType, capability |-> NoCapability,
     target |-> target, risk |-> t.risk, stateChanging |-> FALSE,
     destructive |-> t.destructive, byDefault |-> t.asks]

AllowedModes(t) == IF Trusted(t) THEN t.modes ELSE {}
=============================================================================
