----------------------------- MODULE PolicyGate -----------------------------
(***************************************************************************)
(* PolicyGate.evaluate: what the rules of a program say of one action.     *)
(* The rules are tried in an order and the first that applies decides.     *)
(* Names of action types and of capabilities are abstracted to the sets    *)
(* the rules ask about.                                                    *)
(***************************************************************************)
EXTENDS Naturals

CONSTANTS
    ActionTypes,   \* names of action types
    Capabilities,  \* names of capabilities, NoCapability for none
    NoCapability,
    Passive,       \* PASSIVE_ACTIONS: metadata and research
    Barred,        \* BLOCKED_CAPABILITIES
    Exploit,       \* the capability "exploit_validation"
    Scanning,      \* the names that begin with http., browser. or crawler.
    Crawling       \* those that begin with browser. or crawler.

ASSUME NamesAssumption == /\ NoCapability \notin Barred \cup Scanning
                          /\ Exploit \notin Barred \cup Scanning \cup {NoCapability}
                          /\ Crawling \subseteq Scanning
                          /\ Passive \subseteq ActionTypes

Modes   == {"passive", "safe", "deep-safe", "lab-offensive"}
Targets == {"none", "local", "public"}

\* A risk level, by its rank; 0 is a level the caller leaves out.
Unset  == 0
Low    == 1
Medium == 2
High   == 3

PolicyActions ==
    [mode : Modes, actionType : ActionTypes, capability : Capabilities,
     target : Targets, risk : Unset .. High, stateChanging : BOOLEAN,
     destructive : BOOLEAN, byDefault : BOOLEAN]

ProgramRules ==
    [scanning : BOOLEAN, \* automated_scanning is not "none"
     crawling : BOOLEAN, deepSafe : BOOLEAN,
     lab : BOOLEAN,      \* lab_mode
     labFile : BOOLEAN,  \* lab_authorization_file is there
     approval : BOOLEAN] \* require_human_approval_for_risky_actions

Named(a, names) == a.actionType \in names \/ a.capability \in names

Risky(a) == a.risk >= Medium \/ a.stateChanging \/ a.byDefault

\* What lab-offensive mode asks for: the switch, the file, a local target.
OutOfLab(r, a) ==
    /\ a.mode = "lab-offensive"
    /\ ~r.lab \/ ~r.labFile \/ a.target = "public"

\* The blocks that nothing overrides.
Forbidden(r, a) ==
    \/ a.destructive
    \/ a.capability \in Barred
    \/ a.mode = "deep-safe" /\ ~r.deepSafe
    \/ ~r.scanning /\ Named(a, Scanning)
    \/ ~r.crawling /\ Named(a, Crawling)
    \/ OutOfLab(r, a)

\* Asked before the modes are: outside the lab a human decides.
Exploits(a) == a.mode # "lab-offensive" /\ a.capability = Exploit

OutOfMode(a) ==
    \/ a.mode = "passive" /\ a.actionType \notin Passive
    \/ a.mode = "safe" /\ a.stateChanging

\* Mutant: where the program asks less, more is asked, and the reverse.
ReviewByMode(r, a) ==
    \/ a.mode = "safe" /\ a.risk >= Medium
    \/ a.mode = "deep-safe" /\ a.risk = High
    \/ ~r.approval /\ Risky(a)
    \/ a.byDefault

NeedsReview(r, a) ==
    \/ a.mode = "safe" /\ a.risk >= Medium
    \/ a.mode = "deep-safe" /\ a.risk = High
    \/ r.approval /\ Risky(a)
    \/ a.byDefault

Evaluate(r, a) ==
    IF Forbidden(r, a) THEN "block"
    ELSE IF Exploits(a) THEN "require_approval"
    ELSE IF OutOfMode(a) THEN "block"
    ELSE IF NeedsReview(r, a) THEN "require_approval"
    ELSE "allow"

---------------------------------------------------------------------------

Severity == [allow |-> 0, require_approval |-> 1, block |-> 2]

\* r is at least as strict as q: it permits no more and asks no less.
Tightens(q, r) == /\ r.scanning => q.scanning
                  /\ r.crawling => q.crawling
                  /\ r.deepSafe => q.deepSafe
                  /\ r.lab      => q.lab
                  /\ r.labFile  => q.labFile
                  /\ q.approval => r.approval

\* b is a, described as at least as dangerous.
Worsens(a, b) == /\ b.mode = a.mode
                 /\ b.actionType = a.actionType
                 /\ b.capability = a.capability
                 /\ a.target = "public" => b.target = "public"
                 /\ a.risk =< b.risk
                 /\ a.stateChanging => b.stateChanging
                 /\ a.destructive   => b.destructive
                 /\ a.byDefault     => b.byDefault
=============================================================================
