---------------------------- MODULE ProviderStore ----------------------------
(***************************************************************************)
(* The providers a terminal or command may talk to: the configuration of   *)
(* each in one file and its credential in another, both read, changed and  *)
(* written whole by every connect and disconnect of any process.  A        *)
(* connect brings a base URL, known by its number, and may bring a key or  *)
(* the name of a variable that holds one, known by the same number; what   *)
(* it does not bring it takes over from the entries it finds.              *)
(***************************************************************************)
EXTENDS Naturals, FiniteSets

CONSTANTS Procs, Ids, Nobody, MaxCommands, MaxStops,
          Catalogued,     \* the providers whose base URL and key variable are known
          Enabling, Disabling  \* what a connect brings, without and with --disabled

VARIABLES
    config, auth,   \* what a file holds: whether it is whole, and an entry for each id
    pc,             \* where a process is
    job,            \* its command: which one, on whom, its number and options
    gotConfig, gotAuth,  \* the files it read
    made, stops,
    disturbed,      \* whether another command ran during this one
    settled         \* what the last command on an id, run alone, left of it

vars == <<config, auth, pc, job, gotConfig, gotAuth, made, stops, disturbed, settled>>

\* A provider has a base URL (0: it has no entry) and may be disabled; its timeout goes
\* the way of that flag.  Its credential is none (a local provider), a key or a variable,
\* and came with a connect (0: none did, or the variable is the catalogue's).
Configs == [base : 0 .. MaxCommands, enabled : BOOLEAN]
Auths == [type : {"absent", "none", "api_key", "env"}, by : 0 .. MaxCommands]
NoConfig == [base |-> 0, enabled |-> TRUE]
NoAuth == [type |-> "absent", by |-> 0]
NoConfigs == [i \in Ids |-> NoConfig]
NoAuths == [i \in Ids |-> NoAuth]

\* The options of a connect: it brings "local", "key", "env" or "plain", none of the three
\* (--local, --api-key, --api-key-env), and may be --disabled.
Connects(credentials, disabled) ==
    [kind : {"connect"}, id : Ids, number : 1 .. MaxCommands, brings : credentials, disabled : {disabled}]
Disconnects ==
    [kind : {"disconnect"}, id : Ids, number : 1 .. MaxCommands, brings : {"plain"}, disabled : {FALSE}]
Commands == Connects(Enabling, FALSE) \cup Connects(Disabling, TRUE) \cup Disconnects
NoJob == [kind |-> "none", id |-> Nobody, number |-> 0, brings |-> "plain", disabled |-> FALSE]

TypeOK ==
    /\ config \in [whole : BOOLEAN, entries : [Ids -> Configs]]
    /\ auth \in [whole : BOOLEAN, entries : [Ids -> Auths]]
    /\ pc \in [Procs -> {"idle", "readAuth", "config", "fillConfig", "auth", "fillAuth", "stopped"}]
    /\ job \in [Procs -> Commands \cup {NoJob}]
    /\ \A p \in Procs : job[p] = NoJob <=> pc[p] \in {"idle", "stopped"}
    /\ gotConfig \in [Procs -> [Ids -> Configs]] /\ gotAuth \in [Procs -> [Ids -> Auths]]
    /\ made \in 0 .. MaxCommands /\ stops \in 0 .. MaxStops
    /\ disturbed \in [Procs -> BOOLEAN]
    /\ settled \in [Ids -> [config : Configs, auth : Auths] \cup {Nobody}]

Init ==
    /\ config = [whole |-> TRUE, entries |-> NoConfigs]
    /\ auth = [whole |-> TRUE, entries |-> NoAuths]
    /\ pc = [p \in Procs |-> "idle"] /\ job = [p \in Procs |-> NoJob]
    /\ gotConfig = [p \in Procs |-> NoConfigs] /\ gotAuth = [p \in Procs |-> NoAuths]
    /\ made = 0 /\ stops = 0
    /\ disturbed = [p \in Procs |-> FALSE]
    /\ settled = [i \in Ids |-> [config |-> NoConfig, auth |-> NoAuth]]

Busy == {p \in Procs : pc[p] \notin {"idle", "stopped"}}

\* A command is over; what it left is known if it ran alone.
Over(p, left) ==
    /\ pc' = [pc EXCEPT ![p] = "idle"]
    /\ job' = [job EXCEPT ![p] = NoJob]
    /\ gotConfig' = [gotConfig EXCEPT ![p] = NoConfigs]
    /\ gotAuth' = [gotAuth EXCEPT ![p] = NoAuths]
    /\ settled' = [settled EXCEPT ![job[p].id] = left]
    /\ disturbed' = [disturbed EXCEPT ![p] = FALSE]

Go(p, next) == pc' = [pc EXCEPT ![p] = next]

(***************************************************************************)
(* connect and disconnect: read the one file, the other, write the one,    *)
(* the other.                                                              *)
(***************************************************************************)
ReadStore(p) ==
    /\ pc[p] = "idle" /\ made < MaxCommands /\ config.whole
    /\ made' = made + 1
    /\ \E c \in Commands :
           /\ c.number = made' /\ job' = [job EXCEPT ![p] = c]
           /\ settled' = [settled EXCEPT ![c.id] = Nobody]
    /\ gotConfig' = [gotConfig EXCEPT ![p] = config.entries]
    /\ disturbed' = [q \in Procs |-> IF q = p THEN Busy # {} ELSE disturbed[q] \/ q \in Busy]
    /\ Go(p, "readAuth")
    /\ UNCHANGED <<config, auth, gotAuth, stops>>

\* Both refuse what they cannot do: a disconnect of what neither file knows, a connect
\* that names no credential for a provider without a variable of its own, one without a
\* base URL or with one that does not parse (may is TRUE when it can be such a one).
Refused(p, may) ==
    LET i == job[p].id IN
    IF job[p].kind = "disconnect"
    THEN gotConfig[p][i] = NoConfig /\ auth.entries[i] = NoAuth
    ELSE may \/ (job[p].brings = "plain" /\ i \notin Catalogued)

\* A file that does not parse ends either command.
ReadAuthStore(p) ==
    /\ pc[p] = "readAuth"
    /\ \E may \in BOOLEAN :
         IF ~auth.whole \/ Refused(p, may)
         THEN Over(p, Nobody)
         ELSE /\ gotAuth' = [gotAuth EXCEPT ![p] = auth.entries]
              /\ Go(p, "config")
              /\ UNCHANGED <<job, gotConfig, disturbed, settled>>
    /\ UNCHANGED <<config, auth, made, stops>>

\* The entries a command leaves.  The base URL is replaced; a provider that was disabled
\* stays so.  A key is never taken over, the name of a variable is, when the connect
\* brings neither.
ConfigEntry(p) ==
    IF job[p].kind = "disconnect" THEN NoConfig
    ELSE [base |-> job[p].number, enabled |-> ~job[p].disabled /\ gotConfig[p][job[p].id].enabled]
Variable(previous) == [type |-> "env", by |-> IF previous.type = "env" THEN previous.by ELSE 0]
AuthEntry(p) ==
    CASE job[p].kind = "disconnect" -> NoAuth
      [] job[p].brings = "local" -> [type |-> "none", by |-> 0]
      [] job[p].brings = "key" -> [type |-> "api_key", by |-> job[p].number]
      [] job[p].brings = "env" -> [type |-> "env", by |-> job[p].number]
      [] OTHER -> Variable(gotAuth[p][job[p].id])

\* The new content of the two files.
AuthKept(p) == IF job[p].kind = "connect" THEN [gotAuth[p] EXCEPT ![job[p].id] = AuthEntry(p)]
                                          ELSE gotAuth[p]
ConfigAfter(p) == [gotConfig[p] EXCEPT ![job[p].id] = ConfigEntry(p)]
AuthAfter(p) == [gotAuth[p] EXCEPT ![job[p].id] = AuthEntry(p)]

WriteStore(p) ==
    \/ /\ pc[p] = "config" /\ config' = [whole |-> FALSE, entries |-> NoConfigs] /\ Go(p, "fillConfig")
       /\ UNCHANGED <<auth, job, gotConfig, gotAuth, made, stops, disturbed, settled>>
    \/ /\ pc[p] = "fillConfig" /\ config' = [whole |-> TRUE, entries |-> ConfigAfter(p)] /\ Go(p, "auth")
       /\ UNCHANGED <<auth, job, gotConfig, gotAuth, made, stops, disturbed, settled>>

WriteAuthStore(p) ==
    \/ /\ pc[p] = "auth" /\ auth' = [whole |-> FALSE, entries |-> NoAuths] /\ Go(p, "fillAuth")
       /\ UNCHANGED <<config, job, gotConfig, gotAuth, made, stops, disturbed, settled>>
    \/ /\ pc[p] = "fillAuth"
       /\ auth' = [whole |-> TRUE, entries |-> AuthAfter(p)]
       /\ Over(p, IF disturbed[p] THEN Nobody
                  ELSE [config |-> ConfigEntry(p), auth |-> AuthAfter(p)[job[p].id]])
       /\ UNCHANGED <<config, made, stops>>

Stop(p) ==
    /\ p \in Busy /\ stops < MaxStops
    /\ stops' = stops + 1
    /\ pc' = [pc EXCEPT ![p] = "stopped"]
    /\ job' = [job EXCEPT ![p] = NoJob]
    /\ gotConfig' = [gotConfig EXCEPT ![p] = NoConfigs]
    /\ gotAuth' = [gotAuth EXCEPT ![p] = NoAuths]
    /\ disturbed' = [disturbed EXCEPT ![p] = FALSE]
    /\ UNCHANGED <<config, auth, made, settled>>

Next == \E p \in Procs :
    ReadStore(p) \/ ReadAuthStore(p) \/ WriteStore(p) \/ WriteAuthStore(p) \/ Stop(p)

Spec == Init /\ [][Next]_vars

(***************************************************************************)
(* What holds.                                                             *)
(***************************************************************************)

\* A provider has both entries or neither, and its key came with its base URL: a key is
\* never joined to the base URL of another connect, and none is left of a provider that
\* is gone.  (The name of a variable is taken over with a new base URL, so the key in
\* that variable goes where it was not named for.)
Joined(c, a) == /\ c = NoConfig <=> a = NoAuth
                /\ a.type = "api_key" => a.by = c.base

\* What a connect or disconnect that ran alone left of a provider is joined as it should
\* be and stays, whatever is done to other providers afterwards, at once or cut short.
\* (Two commands at once, or one cut short, leave their own providers in doubt.)
SettledStays ==
    \A i \in Ids : settled[i] # Nobody =>
        /\ Joined(settled[i].config, settled[i].auth)
        /\ config.whole => config.entries[i] = settled[i].config
        /\ auth.whole => auth.entries[i] = settled[i].auth
=============================================================================
