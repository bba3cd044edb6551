\* Every form in every mode under every set of rules, edited at any moment;
\* every scope with one process that fetches, and two at one host.
CONSTANTS
    ActionTypes = {"research.public", "http.get", "http.validate", "browser.navigate", "agent.plan", "desktop.screenshot", "http.scan", "tcp.scan", "crawler.fetch"}
    Capabilities = {"none", "exploit_validation", "research.public", "browser.navigate", "desktop.screenshot"}
    NoCapability = "none"
    Passive = {"research.public"}
    Barred = {"brute_force", "credential_stuffing", "destructive_testing", "password_spraying", "spam", "payment_abuse", "waf_evasion", "data_exfiltration", "malware_execution", "mass_scanning", "real_user_account_takeover"}
    Exploit = "exploit_validation"
    Scanning = {"http.get", "http.validate", "http.scan", "crawler.fetch", "browser.navigate"}
    Crawling = {"browser.navigate", "crawler.fetch"}
    PlannedModes = {"passive", "deep-safe", "lab-offensive"}
    PlannedTools = {"subfinder", "nuclei", "dalfox", "naabu", "crawl4ai"}
    Forms <- MCForms
    NoForm = NoForm
    Labels = {"com", "x", "api"}
    Segments = {"", "app", "App", "v"}
    None = none
    Lower <- LowerOf
    Procs = {p1, p2}
    URLs <- SomeURLs
    Rules <- SomeRules
    MaxRedirects = 2
    Interval = 2
    MaxTime = 4
    MaxScripts = 1
    Lab = TRUE
SPECIFICATION MCSpec
INVARIANTS TypeOK FetchesStay Paced
PROPERTIES RulesOfTheDay RefusedAfterEdit TighteningIsFelt
CHECK_DEADLOCK FALSE
