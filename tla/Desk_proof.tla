----------------------------- MODULE Desk_proof -----------------------------
(***************************************************************************)
(* What holds of the sessions, screens, provider files, release directory  *)
(* and releases a person keeps at hand, for all terminals, processes,      *)
(* sessions, providers and bounds.                                         *)
(***************************************************************************)
EXTENDS MCDesk, FiniteSets, SequenceTheorems, TLAPS

---------------------------------------------------------------------------
(***************************************************************************)
(* The provider files.                                                     *)
(***************************************************************************)
Working == Store!Busy

ConfigFiles == [whole : BOOLEAN, entries : [Ids -> Store!Configs]]
AuthFiles == [whole : BOOLEAN, entries : [Ids -> Store!Auths]]

\* A command no other ran beside is the only one, and what it wrote of the
\* configuration is there when it writes the credentials.
Undisturbed ==
    \A p \in Working : ~disturbed[p] =>
        /\ Working = {p}
        /\ pc[p] \in {"auth", "fillAuth"} /\ config.whole =>
               config.entries[job[p].id] = Store!ConfigEntry(p)

\* What is settled of a provider is in the files and in what every command has
\* read of them, and no command on that provider is under way.
Settled ==
    \A i \in Ids : settled[i] # Nobody =>
        /\ Store!Joined(settled[i].config, settled[i].auth)
        /\ config.whole => config.entries[i] = settled[i].config
        /\ auth.whole => auth.entries[i] = settled[i].auth
        /\ \A p \in Working : /\ job[p].id # i
                              /\ gotConfig[p][i] = settled[i].config
                              /\ pc[p] # "readAuth" => gotAuth[p][i] = settled[i].auth

StoreInv == Store!TypeOK /\ Undisturbed /\ Settled

---------------------------------------------------------------------------
(***************************************************************************)
(* The release directory.                                                  *)
(***************************************************************************)
Builds == {"idle", "prepare", "pack", "skill", "sbom", "manifest", "sums"}

BundleTyped ==
    /\ Bundle!TypeOK
    /\ DOMAIN build = Builders
    /\ \A b \in Builders : DOMAIN build[b] = {"pc", "force", "sbom", "arts", "alone"}
    /\ DOMAIN last = {"arts", "manifest", "alone"}

\* A digest recorded is that of a tarball, a skill or an SBOM.
OfPrimary(arts) == \A e \in arts : e[1] \in Bundle!Primary

\* A checksum file in the directory is that of the build which ended last.
Pinned == /\ \A b \in Builders : OfPrimary(build[b].arts)
          /\ OfPrimary(last.arts)
          /\ "sums" \in DOMAIN dir =>
                 dir["sums"].entries \subseteq last.arts \cup {<<"manifest", last.manifest>>}

\* What a build that ran alone so far has in the directory, all of it recorded.
Holds(names, arts) == /\ DOMAIN dir = names /\ "skill" \in names
                      /\ arts = Bundle!Recorded(dir, names \ {"manifest"})
                      /\ Bundle!VerifySkillBundle(dir["skill"])
Progress(b) ==
    /\ build[b].pc = "pack" => dir = Bundle!Empty
    /\ build[b].pc = "skill" => DOMAIN dir = {"tarball"}
    /\ build[b].pc = "sbom" => Holds({"tarball", "skill"}, build[b].arts)
    /\ build[b].pc = "manifest" => \/ Holds({"tarball", "skill"}, build[b].arts)
                                   \/ Holds({"tarball", "skill", "sbom"}, build[b].arts)
    /\ build[b].pc = "sums" =>
           /\ \/ Holds({"tarball", "skill", "manifest"}, build[b].arts)
              \/ Holds({"tarball", "skill", "sbom", "manifest"}, build[b].arts)
           /\ dir["manifest"].ok /\ dir["manifest"].arts = build[b].arts

BuiltAlone ==
    /\ \A b \in Builders : build[b].pc # "idle" /\ build[b].alone =>
           /\ \A a \in Builders \ {b} : build[a].pc = "idle"
           /\ faults = 0 => Progress(b)
    /\ last.alone => Bundle!Quiet
    /\ last.alone /\ faults = 0 => Bundle!Verifies(dir)

BundleInv == BundleTyped /\ Pinned /\ BuiltAlone

---------------------------------------------------------------------------
(***************************************************************************)
(* The release at GitHub.                                                  *)
(***************************************************************************)
Runs == [of : 0 .. MaxCommits + 1, state : {"none", "queued", "in_progress", "success", "failure"}]

PublishTyped ==
    /\ Publish!TypeOK
    /\ sound \in BOOLEAN /\ dirty \in BOOLEAN
    /\ remote \in [Publish!Branches -> [at : 0 .. MaxCommits, foreign : BOOLEAN]]
    /\ run \in [Publish!Workflows -> [Publish!Branches -> Runs]]

\* The Release workflow runs for the tag at the origin.  The script has made the local
\* tag before it pushes it, and the one at the origin is that unless the origin refused
\* it, which only the script of PowerShell survives, or the local one was moved since.
Scripted ==
    /\ rtag # 0 => \A b \in Publish!Branches : run["Release"][b].of = rtag
    /\ sc \in {"score", "pushtag", "public", "gate"} => tag # 0
    /\ sc \in {"public", "gate"} => rtag = tag \/ moved \/ refused
    /\ refused => script = "powershell" \/ sc = "stopped"

PublishInv == PublishTyped /\ Scripted

---------------------------------------------------------------------------
(***************************************************************************)
(* The screens.                                                            *)
(***************************************************************************)
\* Where a pick is taken unseen there is such an option, unless the filtered sessions got
\* fewer under the selection, and the provider whose key is asked for is the one announced.
Lessened == screen = "sessions" /\ query /\ shrunk
PickFound == /\ screen \in {"sessions", "themes", "action"} => pick = 0 \/ pick < found \/ Lessened
             /\ screen \in {"themes", "action"} => found = MaxFound
KeyAnnounced == keyStage = "api-key" => pending = announced

ScreensInv == Keys!TypeOK /\ PickFound /\ KeyAnnounced /\ Keys!KeysFindTheirTarget

---------------------------------------------------------------------------
(***************************************************************************)
(* The sessions.                                                           *)
(***************************************************************************)
Stacks == {stack \in Seq(Seq(Talk!Message)) : Len(stack) =< Undoable}
Records == [state : {"none", "torn", "whole"}, messages : Seq(Talk!Message), context : SUBSET Files]
Changes == {"messages"} \X Seq(Talk!Message) \cup {"context"} \X SUBSET Files

SessionsTyped ==
    /\ file \in [Sessions -> Records]
    /\ up \in [Terminals -> {"off", "on", "left", "dead"}]
    /\ session \in [Terminals -> Sessions \cup {None}]
    /\ shown \in [Terminals -> Seq(Talk!Message)] /\ sent \in [Terminals -> Seq(Talk!Message)]
    /\ undo \in [Terminals -> Stacks] /\ redo \in [Terminals -> Stacks]
    /\ context \in [Terminals -> SUBSET Files]
    /\ asked \in [Terminals -> 0 .. MaxKeys]
    /\ stage \in [Terminals -> {"idle", "change", "read", "cut"}]
    /\ patch \in [Terminals -> Changes] /\ got \in [Terminals -> Records]
    /\ keys \in 0 .. MaxKeys /\ crashes \in 0 .. MaxCrashes
    /\ visitors \in [Sessions -> SUBSET Terminals] /\ resumed \in [Terminals -> BOOLEAN]

\* A terminal that is on, or is still changing a file, has a session, which knows it,
\* and one that waits for no answer has nothing sent.
Opens(t) == /\ up[t] = "on" => session[t] # None /\ t \in visitors[session[t]]
            /\ stage[t] # "idle" => session[t] # None
            /\ up[t] = "off" => asked[t] = 0
            /\ asked[t] = 0 => sent[t] = <<>>

\* What a terminal has read, shows, can undo and is about to store belongs to its
\* session, and the question it waits for is the last thing it sent.
AllRead(stack, s) == \A i \in DOMAIN stack : Talk!Reads(stack[i], s)
Own(t) ==
    up[t] = "on" =>
        /\ Talk!Reads(shown[t], session[t]) /\ Talk!Reads(sent[t], session[t])
        /\ AllRead(undo[t], session[t]) /\ AllRead(redo[t], session[t])
        /\ stage[t] \in {"read", "cut"} => Talk!Reads(got[t].messages, session[t])
        /\ stage[t] # "idle" /\ patch[t][1] = "messages" => Talk!Reads(patch[t][2], session[t])
        /\ asked[t] # 0 /\ sent[t] # <<>> =>
               sent[t][Len(sent[t])] = [of |-> session[t], kind |-> "question", ask |-> asked[t]]

\* The record a change goes into, and what the change makes of it.
Base(t) == IF stage[t] \in {"idle", "change"} THEN file[session[t]] ELSE got[t]
Changing(t, field) == stage[t] # "idle" /\ patch[t][1] = field
NextMessages(t) == IF Changing(t, "messages") THEN patch[t][2] ELSE Base(t).messages
NextContext(t) == IF Changing(t, "context") THEN patch[t][2] ELSE Base(t).context

\* What the only visitor of a session shows is stored, or on its way.
Stored(t) ==
    /\ up[t] = "on" /\ visitors[session[t]] = {t}
    /\ (stage[t] \in {"idle", "change"} => file[session[t]].state # "torn")
    => /\ NextMessages(t) = shown[t]
       /\ ~resumed[t] => NextContext(t) = context[t]

SessionsInv ==
    /\ SessionsTyped
    /\ \A s \in Sessions : Talk!Reads(file[s].messages, s)
    /\ \A t \in Terminals : Opens(t) /\ Own(t) /\ Stored(t)

DeskInv == /\ StoreInv /\ BundleInv /\ PublishInv /\ ScreensInv /\ SessionsInv
           /\ part \in Parts
---------------------------------------------------------------------------
(***************************************************************************)
(* The provider files, step by step.                                       *)
(***************************************************************************)
\* The types of what is written, and of the command of a process at work.
LEMMA StoreTypes ==
    ASSUME StoreInv
    PROVE  /\ config \in ConfigFiles /\ auth \in AuthFiles
           /\ gotConfig \in [Procs -> [Ids -> Store!Configs]]
           /\ gotAuth \in [Procs -> [Ids -> Store!Auths]]
           /\ Store!NoConfig \in Store!Configs /\ Store!NoAuth \in Store!Auths
           /\ Store!NoConfigs \in [Ids -> Store!Configs] /\ Store!NoAuths \in [Ids -> Store!Auths]
  BY BoundsAssumption DEF StoreInv, Store!TypeOK, ConfigFiles, AuthFiles, Store!NoConfig, Store!NoAuth,
         Store!NoConfigs, Store!NoAuths, Store!Configs, Store!Auths

LEMMA WorkingJob ==
    ASSUME StoreInv, NEW p \in Working
    PROVE  /\ p \in Procs /\ job[p] \in Store!Commands /\ job[p].id \in Ids
           /\ job[p].number \in 1 .. MaxCommands /\ job[p].kind \in {"connect", "disconnect"}
<1>1. p \in Procs /\ pc[p] \notin {"idle", "stopped"}
  BY DEF Working, Store!Busy
<1>2. job[p] \in Store!Commands
  BY <1>1 DEF StoreInv, Store!TypeOK
<1> QED
  BY <1>1, <1>2 DEF Store!Commands, Store!Connects, Store!Disconnects

\* No command is that of a process at rest.
LEMMA CommandIsOne == \A c \in Store!Commands : c # Store!NoJob
<1>1. \A c \in Store!Commands : c.kind \in {"connect", "disconnect"}
  BY DEF Store!Commands, Store!Connects, Store!Disconnects
<1>2. Store!NoJob.kind = "none"
  BY DEF Store!NoJob
<1> QED
  BY <1>1, <1>2

\* A command begins: it reads the configuration, and its provider is in doubt.
LEMMA ReadStoreStep == ASSUME StoreInv, NEW p \in Procs, Store!ReadStore(p) PROVE StoreInv'
<1> USE DEF Store!ReadStore, Store!Go
<1>1. PICK c \in Store!Commands : /\ job' = [job EXCEPT ![p] = c]
                                  /\ settled' = [settled EXCEPT ![c.id] = Nobody]
  OBVIOUS
<1>2. p \notin Working /\ Working' = Working \cup {p}
  BY DEF Working, Store!Busy, StoreInv, Store!TypeOK
<1>3. made' \in 0 .. MaxCommands
  BY BoundsAssumption DEF StoreInv, Store!TypeOK
<1>4. c.id \in Ids
  BY DEF Store!Commands, Store!Connects, Store!Disconnects
<1>5. Store!TypeOK'
  <2>1. job' \in [Procs -> Store!Commands \cup {Store!NoJob}]
    BY <1>1 DEF StoreInv, Store!TypeOK
  <2>2. gotConfig' \in [Procs -> [Ids -> Store!Configs]]
    BY DEF StoreInv, Store!TypeOK
  <2>3. settled' \in [Ids -> [config : Store!Configs, auth : Store!Auths] \cup {Nobody}]
    BY <1>1, <1>4 DEF StoreInv, Store!TypeOK
  <2>4. disturbed' \in [Procs -> BOOLEAN]
    BY DEF StoreInv, Store!TypeOK, Store!Busy
  <2>5. pc' \in [Procs -> {"idle", "readAuth", "config", "fillConfig", "auth", "fillAuth", "stopped"}]
    BY DEF StoreInv, Store!TypeOK
  <2>6. \A q \in Procs : job'[q] = Store!NoJob <=> pc'[q] \in {"idle", "stopped"}
    BY <1>1, CommandIsOne DEF StoreInv, Store!TypeOK
  <2> QED
    BY <1>3, <2>1, <2>2, <2>3, <2>4, <2>5, <2>6 DEF StoreInv, Store!TypeOK
<1>6. Undisturbed'
  <2>1. ASSUME NEW q \in Working', ~disturbed'[q] PROVE q = p /\ Working = {}
    BY <1>2, <2>1 DEF Working, Store!Busy, StoreInv, Store!TypeOK
  <2>2. pc'[p] = "readAuth"
    BY DEF StoreInv, Store!TypeOK
  <2> QED
    BY <1>2, <2>1, <2>2 DEF Undisturbed
<1>7. Settled'
  <2> SUFFICES ASSUME NEW j \in Ids, settled'[j] # Nobody
               PROVE  /\ Store!Joined(settled'[j].config, settled'[j].auth)
                      /\ config'.whole => config'.entries[j] = settled'[j].config
                      /\ auth'.whole => auth'.entries[j] = settled'[j].auth
                      /\ \A q \in Working' : /\ job'[q].id # j
                                             /\ gotConfig'[q][j] = settled'[j].config
                                             /\ pc'[q] # "readAuth" => gotAuth'[q][j] = settled'[j].auth
    BY DEF Settled, Store!Joined
  <2>1. j # c.id /\ settled'[j] = settled[j] /\ settled[j] # Nobody
    BY <1>1, <1>4 DEF StoreInv, Store!TypeOK
  <2>2. /\ Store!Joined(settled[j].config, settled[j].auth)
        /\ config.whole => config.entries[j] = settled[j].config
        /\ auth.whole => auth.entries[j] = settled[j].auth
        /\ \A q \in Working : /\ job[q].id # j
                              /\ gotConfig[q][j] = settled[j].config
                              /\ pc[q] # "readAuth" => gotAuth[q][j] = settled[j].auth
    BY <2>1 DEF StoreInv, Settled
  <2>3. ASSUME NEW q \in Working
        PROVE  /\ job'[q].id # j /\ gotConfig'[q][j] = settled[j].config
               /\ pc'[q] # "readAuth" => gotAuth'[q][j] = settled[j].auth
    <3>1. q \in Procs /\ q # p
      BY <1>2 DEF Working, Store!Busy
    <3>2. job'[q] = job[q] /\ gotConfig'[q] = gotConfig[q] /\ gotAuth'[q] = gotAuth[q] /\ pc'[q] = pc[q]
      BY <1>1, <3>1 DEF StoreInv, Store!TypeOK
    <3> QED
      BY <2>2, <3>2
  <2>4. job'[p].id # j /\ gotConfig'[p][j] = settled[j].config /\ pc'[p] = "readAuth"
    BY <1>1, <2>1, <2>2 DEF StoreInv, Store!TypeOK
  <2> QED
    BY <1>2, <2>1, <2>2, <2>3, <2>4
<1> QED
  BY <1>5, <1>6, <1>7 DEF StoreInv

\* A command is over. What it leaves of its provider is in both files when that is known.
LEMMA OverStep ==
    ASSUME StoreInv, NEW p \in Working, NEW left, Store!Over(p, left),
           UNCHANGED <<config, made, stops>>, auth' \in AuthFiles,
           \A i \in Ids : settled[i] # Nobody /\ auth'.whole => auth'.entries[i] = settled[i].auth,
           left # Nobody => /\ left \in [config : Store!Configs, auth : Store!Auths]
                            /\ Working = {p} /\ Store!Joined(left.config, left.auth)
                            /\ config.whole => config.entries[job[p].id] = left.config
                            /\ auth'.whole => auth'.entries[job[p].id] = left.auth
    PROVE  StoreInv'
<1> USE DEF Store!Over
<1>1. p \in Procs /\ job[p].id \in Ids /\ Working' = Working \ {p}
  BY WorkingJob DEF Working, Store!Busy, StoreInv, Store!TypeOK
<1>2. \A q \in Working' : /\ q \in Working /\ q # p /\ job'[q] = job[q] /\ pc'[q] = pc[q]
                          /\ gotConfig'[q] = gotConfig[q] /\ gotAuth'[q] = gotAuth[q]
                          /\ disturbed'[q] = disturbed[q]
  BY <1>1 DEF Working, Store!Busy, StoreInv, Store!TypeOK
<1>3. Store!TypeOK'
  <2>1. job' \in [Procs -> Store!Commands \cup {Store!NoJob}]
    BY DEF StoreInv, Store!TypeOK
  <2>2. gotConfig' \in [Procs -> [Ids -> Store!Configs]] /\ gotAuth' \in [Procs -> [Ids -> Store!Auths]]
    BY StoreTypes
  <2>3. settled' \in [Ids -> [config : Store!Configs, auth : Store!Auths] \cup {Nobody}]
    BY <1>1 DEF StoreInv, Store!TypeOK
  <2>4. disturbed' \in [Procs -> BOOLEAN]
    BY DEF StoreInv, Store!TypeOK
  <2>5. /\ pc' \in [Procs -> {"idle", "readAuth", "config", "fillConfig", "auth", "fillAuth", "stopped"}]
        /\ \A q \in Procs : job'[q] = Store!NoJob <=> pc'[q] \in {"idle", "stopped"}
    BY DEF StoreInv, Store!TypeOK
  <2> QED
    BY <2>1, <2>2, <2>3, <2>4, <2>5 DEF StoreInv, Store!TypeOK, AuthFiles
<1>4. Undisturbed'
  <2>1. ASSUME NEW q \in Working', ~disturbed'[q]
        PROVE  /\ Working' = {q}
               /\ pc'[q] \in {"auth", "fillAuth"} /\ config'.whole =>
                      config'.entries[job'[q].id] = Store!ConfigEntry(q)'
    <3>1. Working = {q}
      BY <1>2, <2>1 DEF StoreInv, Undisturbed
    <3> QED
      BY <1>2, <3>1
  <2> QED
    BY <2>1 DEF Undisturbed
<1>5. Settled'
  <2> SUFFICES ASSUME NEW i \in Ids, settled'[i] # Nobody
               PROVE  /\ Store!Joined(settled'[i].config, settled'[i].auth)
                      /\ config'.whole => config'.entries[i] = settled'[i].config
                      /\ auth'.whole => auth'.entries[i] = settled'[i].auth
                      /\ \A q \in Working' : /\ job'[q].id # i
                                             /\ gotConfig'[q][i] = settled'[i].config
                                             /\ pc'[q] # "readAuth" => gotAuth'[q][i] = settled'[i].auth
    BY DEF Settled, Store!Joined
  <2>1. CASE i = job[p].id
    <3>1. settled'[i] = left
      BY <2>1 DEF StoreInv, Store!TypeOK
    <3>2. Working' = {}
      BY <1>1, <3>1
    <3> QED
      BY <2>1, <3>1, <3>2
  <2>2. CASE i # job[p].id
    <3>1. settled'[i] = settled[i]
      BY <1>1, <2>2 DEF StoreInv, Store!TypeOK
    <3>2. /\ Store!Joined(settled[i].config, settled[i].auth)
          /\ config.whole => config.entries[i] = settled[i].config
          /\ \A q \in Working : /\ job[q].id # i
                                /\ gotConfig[q][i] = settled[i].config
                                /\ pc[q] # "readAuth" => gotAuth[q][i] = settled[i].auth
      BY <3>1 DEF StoreInv, Settled
    <3>3. auth'.whole => auth'.entries[i] = settled'[i].auth
      BY <3>1
    <3>4. config'.whole => config'.entries[i] = settled'[i].config
      BY <3>1, <3>2
    <3>5. ASSUME NEW q \in Working'
          PROVE  /\ job'[q].id # i /\ gotConfig'[q][i] = settled'[i].config
                 /\ pc'[q] # "readAuth" => gotAuth'[q][i] = settled'[i].auth
      <4>1. /\ q \in Working /\ job'[q] = job[q] /\ pc'[q] = pc[q]
            /\ gotConfig'[q] = gotConfig[q] /\ gotAuth'[q] = gotAuth[q]
        BY <1>2
      <4>2. /\ job[q].id # i /\ gotConfig[q][i] = settled[i].config
            /\ pc[q] # "readAuth" => gotAuth[q][i] = settled[i].auth
        BY <3>2, <4>1
      <4> HIDE DEF Store!Over
      <4> QED
        BY <3>1, <4>1, <4>2
    <3> HIDE DEF Store!Over
    <3> QED
      BY <3>1, <3>2, <3>3, <3>4, <3>5
  <2> QED
    BY <2>1, <2>2
<1> QED
  BY <1>3, <1>4, <1>5 DEF StoreInv

\* A command goes from one of its files to the next and writes at most one of them.
LEMMA PassStep ==
    ASSUME StoreInv, NEW p \in Working, NEW next \in {"config", "fillConfig", "auth", "fillAuth"},
           Store!Go(p, next), UNCHANGED <<job, gotConfig, made, stops, disturbed, settled>>,
           config' \in ConfigFiles, auth' \in AuthFiles,
           gotAuth' \in [Procs -> [Ids -> Store!Auths]],
           \A q \in Working \ {p} : gotAuth'[q] = gotAuth[q],
           \A i \in Ids : settled[i] # Nobody =>
               /\ config'.whole => config'.entries[i] = settled[i].config
               /\ auth'.whole => auth'.entries[i] = settled[i].auth
               /\ gotAuth'[p][i] = settled[i].auth,
           next \in {"auth", "fillAuth"} /\ ~disturbed[p] /\ config'.whole =>
               config'.entries[job[p].id] = Store!ConfigEntry(p)
    PROVE  StoreInv'
<1> USE DEF Store!Go
<1>1. p \in Procs /\ Working' = Working
  BY DEF Working, Store!Busy, StoreInv, Store!TypeOK
<1>2. \A q \in Working : q # p => pc'[q] = pc[q]
  BY <1>1 DEF Working, Store!Busy, StoreInv, Store!TypeOK
<1>3. pc'[p] = next
  BY <1>1 DEF StoreInv, Store!TypeOK
<1>4. Store!TypeOK'
  <2>1. /\ pc' \in [Procs -> {"idle", "readAuth", "config", "fillConfig", "auth", "fillAuth", "stopped"}]
        /\ \A q \in Procs : job'[q] = Store!NoJob <=> pc'[q] \in {"idle", "stopped"}
    BY DEF StoreInv, Store!TypeOK, Working, Store!Busy
  <2> QED
    BY <1>1, <2>1 DEF StoreInv, Store!TypeOK, ConfigFiles, AuthFiles
<1>5. Undisturbed'
  <2>1. ASSUME NEW q \in Working, ~disturbed[q]
        PROVE  Working = {q}
    BY <2>1 DEF StoreInv, Undisturbed
  <2>2. Store!ConfigEntry(p)' = Store!ConfigEntry(p)
    BY DEF Store!ConfigEntry
  <2> QED
    BY <1>1, <1>3, <2>1, <2>2 DEF Undisturbed
<1>6. Settled'
  <2> SUFFICES ASSUME NEW i \in Ids, settled[i] # Nobody
               PROVE  /\ Store!Joined(settled[i].config, settled[i].auth)
                      /\ \A q \in Working : /\ job[q].id # i
                                            /\ gotConfig[q][i] = settled[i].config
                                            /\ pc'[q] # "readAuth" => gotAuth'[q][i] = settled[i].auth
    BY <1>1 DEF Settled, Store!Joined
  <2>1. /\ Store!Joined(settled[i].config, settled[i].auth)
        /\ \A q \in Working : /\ job[q].id # i
                              /\ gotConfig[q][i] = settled[i].config
                              /\ pc[q] # "readAuth" => gotAuth[q][i] = settled[i].auth
    BY DEF StoreInv, Settled
  <2> QED
    BY <1>2, <2>1
<1> QED
  BY <1>4, <1>5, <1>6 DEF StoreInv

\* The entries a command leaves are of their types and joined as they should be.
LEMMA LeftJoined ==
    ASSUME StoreInv, NEW p \in Working
    PROVE  /\ Store!ConfigEntry(p) \in Store!Configs /\ Store!AuthEntry(p) \in Store!Auths
           /\ Store!Joined(Store!ConfigEntry(p), Store!AuthEntry(p))
<1>1. /\ p \in Procs /\ job[p].id \in Ids /\ job[p].number \in 1 .. MaxCommands
      /\ job[p].number \in 0 .. MaxCommands /\ job[p].number # 0 /\ 0 \in 0 .. MaxCommands
      /\ job[p].kind \in {"connect", "disconnect"}
  BY WorkingJob, BoundsAssumption
<1>2. gotAuth[p][job[p].id] \in Store!Auths
  BY <1>1, StoreTypes
<1>3. Store!Variable(gotAuth[p][job[p].id]) \in Store!Auths
      /\ Store!Variable(gotAuth[p][job[p].id]).type = "env"
  BY <1>1, <1>2 DEF Store!Variable, Store!Auths
<1>4. CASE job[p].kind = "disconnect"
  <2>1. Store!ConfigEntry(p) = Store!NoConfig /\ Store!AuthEntry(p) = Store!NoAuth
    <3>1. job[p] \in Store!Commands
      BY WorkingJob
    <3>2. job[p].brings = "plain"
      BY <1>4, <3>1 DEF Store!Commands, Store!Connects, Store!Disconnects
    <3> QED
      BY <1>4, <3>2 DEF Store!ConfigEntry, Store!AuthEntry
  <2>2. Store!NoAuth.type # "api_key"
    BY DEF Store!NoAuth
  <2> QED
    BY <2>1, <2>2, StoreTypes DEF Store!Joined
<1>5. CASE job[p].kind = "connect"
  <2>1. /\ Store!ConfigEntry(p) \in Store!Configs /\ Store!ConfigEntry(p) # Store!NoConfig
        /\ Store!ConfigEntry(p).base = job[p].number
    <3>1. \A x \in BOOLEAN : [base |-> job[p].number, enabled |-> x] \in Store!Configs
                            /\ [base |-> job[p].number, enabled |-> x] # Store!NoConfig
      BY <1>1 DEF Store!Configs, Store!NoConfig
    <3> DEFINE x == ~job[p].disabled /\ gotConfig[p][job[p].id].enabled
    <3>2. x \in BOOLEAN
      OBVIOUS
    <3>3. Store!ConfigEntry(p) = [base |-> job[p].number, enabled |-> x]
      BY <1>5 DEF Store!ConfigEntry
    <3> HIDE DEF x
    <3>4. [base |-> job[p].number, enabled |-> x].base = job[p].number
      OBVIOUS
    <3> QED
      BY <3>1, <3>2, <3>3, <3>4
  <2>2. CASE job[p].brings \in {"local", "key", "env"}
    <3>1. /\ Store!AuthEntry(p) \in Store!Auths /\ Store!AuthEntry(p) # Store!NoAuth
          /\ Store!AuthEntry(p).type = "api_key" => Store!AuthEntry(p).by = job[p].number
      BY <1>1, <1>5, <2>2 DEF Store!AuthEntry, Store!Auths, Store!NoAuth
    <3> QED
      BY <2>1, <3>1 DEF Store!Joined
  <2>3. CASE job[p].brings \notin {"local", "key", "env"}
    <3>1. Store!AuthEntry(p) = Store!Variable(gotAuth[p][job[p].id])
      BY <1>5, <2>3 DEF Store!AuthEntry
    <3>2. Store!AuthEntry(p) # Store!NoAuth
      BY <1>3, <3>1 DEF Store!NoAuth
    <3> QED
      BY <1>3, <2>1, <3>1, <3>2 DEF Store!Joined
  <2> QED
    BY <2>2, <2>3
<1> QED
  BY <1>1, <1>4, <1>5

\* The credentials are read too, or the command is refused.
LEMMA ReadAuthStep == ASSUME StoreInv, NEW p \in Procs, Store!ReadAuthStore(p) PROVE StoreInv'
<1> USE DEF Store!ReadAuthStore
<1>1. p \in Working
  BY DEF Working, Store!Busy
<1>2. CASE Store!Over(p, Nobody)
  <2>1. \A i \in Ids : settled[i] # Nobody /\ auth'.whole => auth'.entries[i] = settled[i].auth
    BY DEF StoreInv, Settled
  <2>2. auth' \in AuthFiles /\ UNCHANGED <<config, made, stops>>
    BY StoreTypes
  <2> QED
    BY <1>1, <1>2, <2>1, <2>2, OverStep
<1>3. CASE /\ auth.whole
           /\ gotAuth' = [gotAuth EXCEPT ![p] = auth.entries]
           /\ Store!Go(p, "config")
           /\ UNCHANGED <<job, gotConfig, disturbed, settled>>
  <2>1. gotAuth' \in [Procs -> [Ids -> Store!Auths]] /\ gotAuth'[p] = auth.entries
    BY <1>3, StoreTypes DEF AuthFiles
  <2>2. \A q \in Working \ {p} : gotAuth'[q] = gotAuth[q]
    BY <1>3, StoreTypes DEF Working, Store!Busy
  <2>3. \A i \in Ids : settled[i] # Nobody =>
           /\ config'.whole => config'.entries[i] = settled[i].config
           /\ auth'.whole => auth'.entries[i] = settled[i].auth
           /\ gotAuth'[p][i] = settled[i].auth
    BY <1>3, <2>1 DEF StoreInv, Settled
  <2>4. config' \in ConfigFiles /\ auth' \in AuthFiles
    BY StoreTypes
  <2> QED
    BY <1>1, <1>3, <2>1, <2>2, <2>3, <2>4, PassStep
<1> QED
  BY <1>2, <1>3

\* The configuration is cut to nothing, then written.
LEMMA WriteStoreStep == ASSUME StoreInv, NEW p \in Procs, Store!WriteStore(p) PROVE StoreInv'
<1> USE DEF Store!WriteStore
<1>1. p \in Working
  BY DEF Working, Store!Busy
<1>2. config \in ConfigFiles /\ auth \in AuthFiles /\ gotAuth \in [Procs -> [Ids -> Store!Auths]]
      /\ gotConfig[p] \in [Ids -> Store!Configs]
  BY StoreTypes
<1>3. \A i \in Ids : settled[i] # Nobody =>
         /\ auth.whole => auth.entries[i] = settled[i].auth
         /\ job[p].id # i /\ gotConfig[p][i] = settled[i].config
         /\ pc[p] # "readAuth" => gotAuth[p][i] = settled[i].auth
  BY <1>1 DEF StoreInv, Settled
<1>4. CASE pc[p] = "config"
  <2>1. config' = [whole |-> FALSE, entries |-> Store!NoConfigs] /\ Store!Go(p, "fillConfig")
    BY <1>4
  <2>2. config' \in ConfigFiles /\ ~config'.whole
    BY <2>1, StoreTypes DEF ConfigFiles
  <2>3. \A i \in Ids : settled[i] # Nobody =>
            /\ config'.whole => config'.entries[i] = settled[i].config
            /\ auth'.whole => auth'.entries[i] = settled[i].auth
            /\ gotAuth'[p][i] = settled[i].auth
    BY <1>3, <1>4, <2>2
  <2>4. UNCHANGED <<auth, gotAuth, job, gotConfig, made, stops, disturbed, settled>>
    BY <1>4
  <2> QED
    BY <1>1, <1>2, <2>1, <2>2, <2>3, <2>4, PassStep
<1>5. CASE pc[p] = "fillConfig"
  <2>1. config' = [whole |-> TRUE, entries |-> Store!ConfigAfter(p)] /\ Store!Go(p, "auth")
    BY <1>5
  <2>2. /\ Store!ConfigAfter(p) \in [Ids -> Store!Configs]
        /\ Store!ConfigAfter(p)[job[p].id] = Store!ConfigEntry(p)
        /\ \A i \in Ids : i # job[p].id => Store!ConfigAfter(p)[i] = gotConfig[p][i]
    BY <1>1, <1>2, LeftJoined, WorkingJob DEF Store!ConfigAfter
  <2>3. config' \in ConfigFiles
    BY <2>1, <2>2 DEF ConfigFiles
  <2>4. \A i \in Ids : settled[i] # Nobody =>
            /\ config'.whole => config'.entries[i] = settled[i].config
            /\ auth'.whole => auth'.entries[i] = settled[i].auth
            /\ gotAuth'[p][i] = settled[i].auth
    BY <1>3, <1>5, <2>1, <2>2
  <2>5. UNCHANGED <<auth, gotAuth, job, gotConfig, made, stops, disturbed, settled>>
    BY <1>5
  <2>6. config'.entries[job[p].id] = Store!ConfigEntry(p)
    BY <2>1, <2>2
  <2> QED
    BY <1>1, <1>2, <2>1, <2>3, <2>4, <2>5, <2>6, PassStep
<1> QED
  BY <1>4, <1>5

\* So are the credentials, and the command is over.
LEMMA WriteAuthStep == ASSUME StoreInv, NEW p \in Procs, Store!WriteAuthStore(p) PROVE StoreInv'
<1> USE DEF Store!WriteAuthStore
<1>1. p \in Working
  BY DEF Working, Store!Busy
<1>2. config \in ConfigFiles /\ gotAuth \in [Procs -> [Ids -> Store!Auths]]
      /\ gotAuth[p] \in [Ids -> Store!Auths]
  BY StoreTypes
<1>3. \A i \in Ids : settled[i] # Nobody =>
         /\ config.whole => config.entries[i] = settled[i].config
         /\ job[p].id # i
         /\ pc[p] # "readAuth" => gotAuth[p][i] = settled[i].auth
  BY <1>1 DEF StoreInv, Settled
<1>4. ~disturbed[p] =>
         /\ Working = {p}
         /\ pc[p] \in {"auth", "fillAuth"} /\ config.whole =>
                config.entries[job[p].id] = Store!ConfigEntry(p)
  BY <1>1 DEF StoreInv, Undisturbed
<1>5. CASE pc[p] = "auth"
  <2>1. auth' = [whole |-> FALSE, entries |-> Store!NoAuths] /\ Store!Go(p, "fillAuth")
    BY <1>5
  <2>2. auth' \in AuthFiles /\ ~auth'.whole
    BY <2>1, StoreTypes DEF AuthFiles
  <2>3. \A i \in Ids : settled[i] # Nobody =>
            /\ config'.whole => config'.entries[i] = settled[i].config
            /\ auth'.whole => auth'.entries[i] = settled[i].auth
            /\ gotAuth'[p][i] = settled[i].auth
    BY <1>3, <1>5, <2>2
  <2>4. UNCHANGED <<config, gotAuth, job, gotConfig, made, stops, disturbed, settled>>
    BY <1>5
  <2>5. ~disturbed[p] /\ config'.whole => config'.entries[job[p].id] = Store!ConfigEntry(p)
    BY <1>4, <1>5, <2>4
  <2> QED
    BY <1>1, <1>2, <2>1, <2>2, <2>3, <2>4, <2>5, PassStep
<1>6. CASE pc[p] = "fillAuth"
  <2> DEFINE left == IF disturbed[p] THEN Nobody
                     ELSE [config |-> Store!ConfigEntry(p), auth |-> Store!AuthAfter(p)[job[p].id]]
  <2>1. auth' = [whole |-> TRUE, entries |-> Store!AuthAfter(p)] /\ Store!Over(p, left)
    BY <1>6
  <2>2. /\ Store!AuthAfter(p) \in [Ids -> Store!Auths]
        /\ Store!AuthAfter(p)[job[p].id] = Store!AuthEntry(p)
        /\ \A i \in Ids : i # job[p].id => Store!AuthAfter(p)[i] = gotAuth[p][i]
    BY <1>1, <1>2, LeftJoined, WorkingJob DEF Store!AuthAfter
  <2>3. auth' \in AuthFiles
    BY <2>1, <2>2 DEF AuthFiles
  <2>4. left # Nobody => left = [config |-> Store!ConfigEntry(p), auth |-> Store!AuthEntry(p)]
                         /\ ~disturbed[p]
    BY <2>2
  <2>5. left # Nobody => /\ left \in [config : Store!Configs, auth : Store!Auths]
                         /\ Working = {p} /\ Store!Joined(left.config, left.auth)
                         /\ config.whole => config.entries[job[p].id] = left.config
                         /\ auth'.whole => auth'.entries[job[p].id] = left.auth
    <3> HIDE DEF left
    <3> QED
      BY <1>1, <1>4, <1>6, <2>1, <2>2, <2>4, LeftJoined
  <2>6. \A i \in Ids : settled[i] # Nobody /\ auth'.whole => auth'.entries[i] = settled[i].auth
    BY <1>3, <1>6, <2>1, <2>2
  <2> HIDE DEF left
  <2> QED
    BY <1>1, <1>6, <2>1, <2>3, <2>5, <2>6, OverStep
<1> QED
  BY <1>5, <1>6

\* A process that is stopped writes nothing more.
LEMMA StopStep == ASSUME StoreInv, NEW p \in Procs, Store!Stop(p) PROVE StoreInv'
<1> USE DEF Store!Stop
<1>1. Working' = Working \ {p} /\ p \in Working
  BY DEF Working, Store!Busy, StoreInv, Store!TypeOK
<1>2. \A q \in Working' : /\ q \in Working /\ job'[q] = job[q] /\ pc'[q] = pc[q]
                          /\ gotConfig'[q] = gotConfig[q] /\ gotAuth'[q] = gotAuth[q]
                          /\ disturbed'[q] = disturbed[q]
  BY <1>1 DEF Working, Store!Busy, StoreInv, Store!TypeOK
<1>3. Store!TypeOK'
  <2>1. job' \in [Procs -> Store!Commands \cup {Store!NoJob}]
    BY DEF StoreInv, Store!TypeOK
  <2>2. /\ pc' \in [Procs -> {"idle", "readAuth", "config", "fillConfig", "auth", "fillAuth", "stopped"}]
        /\ \A q \in Procs : job'[q] = Store!NoJob <=> pc'[q] \in {"idle", "stopped"}
    BY DEF StoreInv, Store!TypeOK
  <2>3. gotConfig' \in [Procs -> [Ids -> Store!Configs]] /\ gotAuth' \in [Procs -> [Ids -> Store!Auths]]
    BY StoreTypes
  <2>4. stops' \in 0 .. MaxStops /\ disturbed' \in [Procs -> BOOLEAN]
    BY BoundsAssumption DEF StoreInv, Store!TypeOK
  <2> QED
    BY <2>1, <2>2, <2>3, <2>4 DEF StoreInv, Store!TypeOK
<1>4. Undisturbed'
  <2>1. ASSUME NEW q \in Working', ~disturbed'[q]
        PROVE  FALSE
    BY <1>1, <1>2, <2>1 DEF StoreInv, Undisturbed
  <2> QED
    BY <2>1 DEF Undisturbed
<1>5. Settled'
  <2> SUFFICES ASSUME NEW i \in Ids, settled[i] # Nobody
               PROVE  /\ Store!Joined(settled[i].config, settled[i].auth)
                      /\ config.whole => config.entries[i] = settled[i].config
                      /\ auth.whole => auth.entries[i] = settled[i].auth
                      /\ \A q \in Working' :
                             /\ job'[q].id # i /\ gotConfig'[q][i] = settled[i].config
                             /\ pc'[q] # "readAuth" => gotAuth'[q][i] = settled[i].auth
    BY DEF Settled, Store!Joined
  <2>1. /\ Store!Joined(settled[i].config, settled[i].auth)
        /\ config.whole => config.entries[i] = settled[i].config
        /\ auth.whole => auth.entries[i] = settled[i].auth
        /\ \A q \in Working : /\ job[q].id # i
                              /\ gotConfig[q][i] = settled[i].config
                              /\ pc[q] # "readAuth" => gotAuth[q][i] = settled[i].auth
    BY DEF StoreInv, Settled
  <2>2. ASSUME NEW q \in Working'
        PROVE  /\ job'[q].id # i /\ gotConfig'[q][i] = settled[i].config
               /\ pc'[q] # "readAuth" => gotAuth'[q][i] = settled[i].auth
    <3>1. /\ q \in Working /\ job'[q] = job[q] /\ pc'[q] = pc[q]
          /\ gotConfig'[q] = gotConfig[q] /\ gotAuth'[q] = gotAuth[q]
      BY <1>2
    <3>2. /\ job[q].id # i /\ gotConfig[q][i] = settled[i].config
          /\ pc[q] # "readAuth" => gotAuth[q][i] = settled[i].auth
      BY <2>1, <3>1
    <3> HIDE DEF Store!Stop
    <3> QED
      BY <3>1, <3>2
  <2> HIDE DEF Store!Stop
  <2> QED
    BY <2>1, <2>2
<1> QED
  BY <1>3, <1>4, <1>5 DEF StoreInv

\* The two files hold nothing at first.
LEMMA StoreStart == ASSUME Store!Init PROVE StoreInv
<1>1. /\ Store!NoConfig \in Store!Configs /\ Store!NoAuth \in Store!Auths
      /\ Store!NoConfigs \in [Ids -> Store!Configs] /\ Store!NoAuths \in [Ids -> Store!Auths]
  BY BoundsAssumption DEF Store!NoConfig, Store!NoAuth, Store!NoConfigs, Store!NoAuths, Store!Configs,
         Store!Auths
<1>2. Working = {}
  BY DEF Store!Init, Working, Store!Busy
<1>3. Store!TypeOK
  BY <1>1, BoundsAssumption DEF Store!Init, Store!TypeOK
<1>4. Store!Joined(Store!NoConfig, Store!NoAuth)
  BY DEF Store!Joined, Store!NoAuth
<1>5. Undisturbed /\ Settled
  BY <1>2, <1>4 DEF Store!Init, Undisturbed, Settled, Store!NoConfigs, Store!NoAuths
<1> QED
  BY <1>3, <1>5 DEF StoreInv

LEMMA StoreStep == ASSUME StoreInv, [Store!Next]_(Store!vars) PROVE StoreInv'
<1>1. CASE UNCHANGED Store!vars
  BY <1>1 DEF Store!vars, StoreInv, Store!TypeOK, Undisturbed, Settled, Working, Store!Joined,
              Store!Busy, Store!ConfigEntry
<1>2. CASE Store!Next
  BY <1>2, ReadStoreStep, ReadAuthStep, WriteStoreStep, WriteAuthStep, StopStep DEF Store!Next
<1> QED
  BY <1>1, <1>2

---------------------------------------------------------------------------
(***************************************************************************)
(* The release directory, step by step.                                    *)
(***************************************************************************)
Parcel == {"pc", "force", "sbom", "arts", "alone"}
FileNames == Bundle!Primary \cup {"manifest", "sums", "other"}

\* What is recorded is recorded under its name.
LEMMA RecordedNames ==
    ASSUME NEW d, NEW names
    PROVE  /\ Bundle!Names(Bundle!Recorded(d, names)) = names
           /\ names \subseteq Bundle!Primary => OfPrimary(Bundle!Recorded(d, names))
<1> DEFINE R == Bundle!Recorded(d, names)
<1>1. \A f \in names : <<f, d[f]>> \in R /\ <<f, d[f]>>[1] = f
  BY DEF Bundle!Recorded
<1>2. \A e \in R : \E f \in names : e = <<f, d[f]>>
  BY DEF Bundle!Recorded
<1>3. \A e \in R : e[1] \in names
  BY <1>1, <1>2
<1> HIDE DEF R
<1>4. Bundle!Names(R) = names
  BY <1>1, <1>3 DEF Bundle!Names
<1>5. names \subseteq Bundle!Primary => OfPrimary(R)
  BY <1>3 DEF OfPrimary
<1> QED
  BY <1>4, <1>5 DEF R

\* The digests recorded are those of primary files, and the names say so.
LEMMA PrimaryNames ==
    ASSUME NEW arts PROVE OfPrimary(arts) <=> Bundle!Names(arts) \subseteq Bundle!Primary
  BY DEF OfPrimary, Bundle!Names

\* A build goes on: to its next step, with the checksums as they were.
LEMMA BuildGoesOn ==
    ASSUME BundleInv, NEW b \in Builders, build[b].pc # "idle",
           DOMAIN build' = Builders, \A a \in Builders \ {b} : build'[a] = build[a],
           DOMAIN build'[b] = Parcel, build'[b].pc \in Builds, build'[b].alone = build[b].alone,
           OfPrimary(build'[b].arts),
           UNCHANGED <<tree, last, builds, edits, faults>>,
           DOMAIN dir' \subseteq FileNames,
           "sums" \in DOMAIN dir' => "sums" \in DOMAIN dir /\ dir'["sums"] = dir["sums"],
           build[b].alone /\ faults = 0 => Progress(b)'
    PROVE  BundleInv'
<1>1. BundleTyped'
  <2>1. \A a \in Builders : /\ DOMAIN build'[a] = Parcel
                            /\ build'[a].pc \in Builds /\ OfPrimary(build'[a].arts)
    BY DEF BundleInv, BundleTyped, Bundle!TypeOK, Pinned, Parcel, Builds
  <2> QED
    BY <2>1, PrimaryNames DEF BundleInv, BundleTyped, Bundle!TypeOK, Parcel, FileNames, Builds
<1>2. Pinned'
  BY DEF BundleInv, Pinned
<1>3. BuiltAlone'
  <2>1. ~last.alone
    BY DEF BundleInv, BuiltAlone, Bundle!Quiet
  <2>2. ASSUME NEW a \in Builders, build'[a].pc # "idle", build'[a].alone
        PROVE  a = b /\ \A c \in Builders \ {b} : build[c].pc = "idle"
    BY <2>2 DEF BundleInv, BuiltAlone
  <2> QED
    BY <2>1, <2>2 DEF BuiltAlone
<1> QED
  BY <1>1, <1>2, <1>3 DEF BundleInv

\* A build ends before its checksums are written.
LEMMA BuildEnds ==
    ASSUME BundleInv, NEW b \in Builders, build[b].pc # "idle", Bundle!Fails(b),
           UNCHANGED <<tree, last, builds, edits>>, faults' \in 0 .. MaxFaults,
           DOMAIN dir' \subseteq FileNames,
           "sums" \in DOMAIN dir' => "sums" \in DOMAIN dir /\ dir'["sums"] = dir["sums"]
    PROVE  BundleInv'
<1>1. /\ DOMAIN build' = Builders /\ build'[b] = Bundle!Idle
      /\ \A a \in Builders \ {b} : build'[a] = build[a]
  BY DEF Bundle!Fails, BundleInv, BundleTyped
<1>2. /\ DOMAIN Bundle!Idle = Parcel /\ Bundle!Idle.pc = "idle" /\ Bundle!Idle.arts = {}
  BY DEF Bundle!Idle, Parcel
<1>3. BundleTyped'
  <2>1. \A a \in Builders : /\ DOMAIN build'[a] = Parcel
                            /\ build'[a].pc \in Builds /\ OfPrimary(build'[a].arts)
    BY <1>1, <1>2 DEF BundleInv, BundleTyped, Bundle!TypeOK, Pinned, OfPrimary, Parcel, Builds
  <2> QED
    BY <1>1, <2>1, PrimaryNames
       DEF BundleInv, BundleTyped, Bundle!TypeOK, Parcel, FileNames, Builds
<1>4. Pinned'
  BY <1>1, <1>2 DEF BundleInv, Pinned, OfPrimary
<1>5. BuiltAlone'
  <2>1. ~last.alone
    BY DEF BundleInv, BuiltAlone, Bundle!Quiet
  <2>2. ASSUME NEW a \in Builders, build'[a].pc # "idle", build'[a].alone
        PROVE  FALSE
    BY <1>1, <1>2, <2>2 DEF BundleInv, BuiltAlone
  <2> QED
    BY <2>1, <2>2 DEF BuiltAlone
<1> QED
  BY <1>3, <1>4, <1>5 DEF BundleInv

\* A build begins. Nobody is alone any more but a build that finds nobody.
LEMMA BeginStep ==
    ASSUME BundleInv, NEW b \in Builders, NEW force \in BOOLEAN, NEW sbom \in BOOLEAN,
           Bundle!Begin(b, force, sbom)
    PROVE  BundleInv'
<1> USE DEF Bundle!Begin
<1>1. /\ DOMAIN build' = Builders
      /\ build'[b] = [pc |-> "prepare", force |-> force, sbom |-> sbom, arts |-> {},
                      alone |-> {a \in Builders : build[a].pc # "idle"} = {}]
      /\ \A a \in Builders \ {b} : build'[a] = [build[a] EXCEPT !.alone = build[a].pc = "idle"]
  OBVIOUS
<1>2. \A a \in Builders \ {b} : /\ DOMAIN build'[a] = Parcel
                                /\ build'[a].pc = build[a].pc /\ build'[a].arts = build[a].arts
                                /\ build'[a].alone = (build[a].pc = "idle")
  BY <1>1 DEF BundleInv, BundleTyped, Parcel
<1>3. /\ DOMAIN build'[b] = Parcel /\ build'[b].pc = "prepare" /\ build'[b].arts = {}
      /\ build'[b].alone => \A a \in Builders : build[a].pc = "idle"
  BY <1>1 DEF Parcel
<1>4. /\ DOMAIN last' = {"arts", "manifest", "alone"} /\ ~last'.alone
      /\ last'.arts = last.arts /\ last'.manifest = last.manifest
  BY DEF BundleInv, BundleTyped
<1>5. BundleTyped'
  <2>1. \A a \in Builders : /\ DOMAIN build'[a] = Parcel
                            /\ build'[a].pc \in Builds /\ OfPrimary(build'[a].arts)
    <3>1. \A a \in Builders : build[a].pc \in Builds /\ OfPrimary(build[a].arts)
      BY DEF BundleInv, BundleTyped, Bundle!TypeOK, Pinned, Builds
    <3>2. OfPrimary({}) /\ "prepare" \in Builds
      BY DEF OfPrimary, Builds
    <3> HIDE DEF Bundle!Begin
    <3> QED
      BY <1>2, <1>3, <3>1, <3>2
  <2>2. builds' \in 0 .. MaxBuilds
    BY BoundsAssumption DEF BundleInv, BundleTyped, Bundle!TypeOK
  <2> QED
    BY <1>1, <1>4, <2>1, <2>2, PrimaryNames
       DEF BundleInv, BundleTyped, Bundle!TypeOK, Parcel, Builds
<1>6. Pinned'
  BY <1>2, <1>3, <1>4 DEF BundleInv, Pinned, OfPrimary
<1>7. BuiltAlone'
  <2>1. ASSUME NEW a \in Builders, build'[a].pc # "idle", build'[a].alone
        PROVE  /\ \A c \in Builders \ {a} : build'[c].pc = "idle"
               /\ Progress(a)'
    <3>1. a = b
      BY <1>2, <2>1
    <3>2. \A c \in Builders \ {a} : build'[c].pc = "idle"
      BY <1>2, <1>3, <2>1, <3>1
    <3>3. Progress(a)'
      BY <1>3, <3>1 DEF Progress
    <3> QED
      BY <3>2, <3>3
  <2> QED
    BY <1>4, <2>1 DEF BuiltAlone
<1> QED
  BY <1>5, <1>6, <1>7 DEF BundleInv

\* The output directory is emptied, or the build is refused.
LEMMA PrepareStep == ASSUME BundleInv, NEW b \in Builders, Bundle!Prepare(b) PROVE BundleInv'
<1> USE DEF Bundle!Prepare, Bundle!Rest
<1>1. CASE Bundle!Fails(b) /\ UNCHANGED dir
  BY <1>1, BuildEnds DEF BundleInv, BundleTyped, Bundle!TypeOK, FileNames
<1>2. CASE Bundle!Step(b, "pack") /\ dir' = Bundle!Empty
  <2>1. /\ DOMAIN build' = Builders /\ \A a \in Builders \ {b} : build'[a] = build[a]
        /\ DOMAIN build'[b] = Parcel /\ build'[b].pc = "pack"
        /\ build'[b].alone = build[b].alone /\ build'[b].arts = build[b].arts
    BY <1>2 DEF Bundle!Step, BundleInv, BundleTyped, Parcel
  <2>2. DOMAIN dir' = {}
    BY <1>2 DEF Bundle!Empty
  <2>3. Bundle!Empty' = Bundle!Empty
    BY DEF Bundle!Empty
  <2>4. Progress(b)'
    BY <1>2, <2>1, <2>3 DEF Progress
  <2>5. OfPrimary(build'[b].arts) /\ build'[b].pc \in Builds
    BY <2>1 DEF BundleInv, Pinned, Builds
  <2> QED
    BY <2>1, <2>2, <2>4, <2>5, BuildGoesOn
<1> QED
  BY <1>1, <1>2

\* The tarball is packed.
LEMMA PackStep == ASSUME BundleInv, NEW b \in Builders, Bundle!Pack(b) PROVE BundleInv'
<1> USE DEF Bundle!Pack, Bundle!Rest
<1>1. /\ DOMAIN build' = Builders /\ \A a \in Builders \ {b} : build'[a] = build[a]
      /\ DOMAIN build'[b] = Parcel /\ build'[b].pc = "skill"
      /\ build'[b].alone = build[b].alone /\ build'[b].arts = build[b].arts
  BY DEF Bundle!Step, BundleInv, BundleTyped, Parcel
<1>2. /\ DOMAIN dir' = DOMAIN dir \cup {"tarball"}
      /\ \A g \in DOMAIN dir \ {"tarball"} : dir'[g] = dir[g]
  <2>1. PICK c : dir' = Bundle!Put(dir, "tarball", c)
    OBVIOUS
  <2> QED
    BY <2>1 DEF Bundle!Put
<1>3. build[b].alone /\ faults = 0 => Progress(b)'
  <2>1. build[b].alone /\ faults = 0 => DOMAIN dir = {}
    BY DEF BundleInv, BuiltAlone, Progress, Bundle!Empty
  <2> QED
    BY <1>1, <1>2, <2>1 DEF Progress
<1>4. OfPrimary(build'[b].arts) /\ build'[b].pc \in Builds
  BY <1>1 DEF BundleInv, Pinned, Builds
<1>5. DOMAIN dir' \subseteq FileNames
  BY <1>2 DEF BundleInv, BundleTyped, Bundle!TypeOK, FileNames, Bundle!Primary
<1> QED
  BY <1>1, <1>2, <1>3, <1>4, <1>5, BuildGoesOn

\* The skill is bundled and verified, and the two files are recorded.
LEMMA SkillStep == ASSUME BundleInv, NEW b \in Builders, Bundle!Skill(b) PROVE BundleInv'
<1> USE DEF Bundle!Skill, Bundle!Rest
<1> DEFINE content == [of |-> tree, whole |-> TRUE]
           next == Bundle!Put(dir, "skill", content)
<1>1. /\ DOMAIN next = DOMAIN dir \cup {"skill"} /\ next["skill"] = content
      /\ \A g \in DOMAIN dir \ {"skill"} : next[g] = dir[g]
  BY DEF Bundle!Put
<1>2. DOMAIN next \subseteq FileNames
  BY <1>1 DEF BundleInv, BundleTyped, Bundle!TypeOK, FileNames, Bundle!Primary
<1>3. CASE ~tree.skill /\ Bundle!Fails(b) /\ UNCHANGED dir
  BY <1>3, BuildEnds DEF BundleInv, BundleTyped, Bundle!TypeOK, FileNames
<1>4. CASE tree.skill /\ dir' = next /\ Bundle!Fails(b)
  <2>1. "sums" \in DOMAIN dir' => "sums" \in DOMAIN dir /\ dir'["sums"] = dir["sums"]
    BY <1>1, <1>4
  <2>2. DOMAIN dir' \subseteq FileNames /\ faults' \in 0 .. MaxFaults
    BY <1>2, <1>4 DEF BundleInv, BundleTyped, Bundle!TypeOK
  <2> QED
    BY <1>4, <2>1, <2>2, BuildEnds
<1>5. CASE /\ tree.skill /\ dir' = next /\ "tarball" \in DOMAIN next
           /\ build' = [build EXCEPT ![b].pc = IF build[b].sbom THEN "sbom" ELSE "manifest",
                                     ![b].arts = Bundle!Recorded(next, {"tarball", "skill"})]
  <2>1. /\ DOMAIN build' = Builders /\ \A a \in Builders \ {b} : build'[a] = build[a]
        /\ DOMAIN build'[b] = Parcel /\ build'[b].pc \in {"sbom", "manifest"}
        /\ build'[b].alone = build[b].alone
        /\ build'[b].arts = Bundle!Recorded(next, {"tarball", "skill"})
    BY <1>5 DEF BundleInv, BundleTyped, Parcel
  <2>2. OfPrimary(build'[b].arts)
    BY <2>1, RecordedNames DEF Bundle!Primary
  <2>3. "sums" \in DOMAIN dir' => "sums" \in DOMAIN dir /\ dir'["sums"] = dir["sums"]
    BY <1>1, <1>5
  <2>4. build[b].alone /\ faults = 0 => Progress(b)'
    <3> SUFFICES ASSUME build[b].alone, faults = 0 PROVE Progress(b)'
      OBVIOUS
    <3>1. DOMAIN dir = {"tarball"}
      BY DEF BundleInv, BuiltAlone, Progress
    <3>2. DOMAIN dir' = {"tarball", "skill"} /\ dir'["skill"] = content
      BY <1>1, <1>5, <3>1
    <3>3. build'[b].arts = Bundle!Recorded(dir', {"tarball", "skill"} \ {"manifest"})
      <4>1. {"tarball", "skill"} \ {"manifest"} = {"tarball", "skill"}
        OBVIOUS
      <4> QED
        BY <1>5, <2>1, <4>1
    <3>4. content.whole /\ content.of.skill
      BY <1>5
    <3>5. Holds({"tarball", "skill"}, build[b].arts)'
      BY <3>2, <3>3, <3>4 DEF Holds, Bundle!VerifySkillBundle, Bundle!Recorded
    <3> QED
      BY <2>1, <3>5 DEF Progress
  <2>5. DOMAIN dir' \subseteq FileNames
    BY <1>2, <1>5
  <2> HIDE DEF next
  <2>6. build'[b].pc \in Builds /\ build[b].pc # "idle"
    BY <2>1 DEF Builds
  <2> QED
    BY <1>5, <2>1, <2>2, <2>3, <2>4, <2>5, <2>6, BuildGoesOn
<1>6. "tarball" \notin DOMAIN next \/ "tarball" \in DOMAIN next
  OBVIOUS
<1> QED
  BY <1>3, <1>4, <1>5, <1>6

\* What is recorded of files that are the same, and of two groups of files.
LEMMA RecordedSame ==
    ASSUME NEW d, NEW e, NEW names, \A g \in names : e[g] = d[g]
    PROVE  Bundle!Recorded(e, names) = Bundle!Recorded(d, names)
  BY DEF Bundle!Recorded
LEMMA RecordedBoth ==
    ASSUME NEW d, NEW m, NEW n
    PROVE  Bundle!Recorded(d, m) \cup Bundle!Recorded(d, n) = Bundle!Recorded(d, m \cup n)
  BY DEF Bundle!Recorded

\* The SBOM is written and recorded.
LEMMA SbomStep == ASSUME BundleInv, NEW b \in Builders, Bundle!Sbom(b) PROVE BundleInv'
<1> USE DEF Bundle!Sbom, Bundle!Rest
<1> DEFINE content == [of |-> tree, whole |-> TRUE]
           next == Bundle!Put(dir, "sbom", content)
<1>1. /\ DOMAIN next = DOMAIN dir \cup {"sbom"} /\ next["sbom"] = content
      /\ \A g \in DOMAIN dir \ {"sbom"} : next[g] = dir[g]
  BY DEF Bundle!Put
<1>2. DOMAIN next \subseteq FileNames
  BY <1>1 DEF BundleInv, BundleTyped, Bundle!TypeOK, FileNames, Bundle!Primary
<1>3. /\ DOMAIN build' = Builders /\ \A a \in Builders \ {b} : build'[a] = build[a]
      /\ DOMAIN build'[b] = Parcel /\ build'[b].pc = "manifest"
      /\ build'[b].alone = build[b].alone
      /\ build'[b].arts = build[b].arts \cup Bundle!Recorded(next, {"sbom"})
  BY DEF BundleInv, BundleTyped, Parcel
<1>4. OfPrimary(build'[b].arts)
  <2>1. OfPrimary(Bundle!Recorded(next, {"sbom"})) /\ OfPrimary(build[b].arts)
    BY RecordedNames DEF Bundle!Primary, BundleInv, Pinned
  <2> QED
    BY <1>3, <2>1 DEF OfPrimary
<1>5. build[b].alone /\ faults = 0 => Progress(b)'
  <2> SUFFICES ASSUME build[b].alone, faults = 0 PROVE Progress(b)'
    OBVIOUS
  <2>1. Holds({"tarball", "skill"}, build[b].arts)
    BY DEF BundleInv, BuiltAlone, Progress
  <2>2. DOMAIN dir = {"tarball", "skill"}
    BY <2>1 DEF Holds
  <2>3. build'[b].arts = Bundle!Recorded(next, {"tarball", "skill", "sbom"})
    <3>1. {"tarball", "skill"} \ {"manifest"} = {"tarball", "skill"}
      OBVIOUS
    <3>2. build[b].arts = Bundle!Recorded(dir, {"tarball", "skill"})
      BY <2>1, <3>1 DEF Holds
    <3>3. {"tarball", "skill"} \cup {"sbom"} = {"tarball", "skill", "sbom"}
      OBVIOUS
    <3>4. \A g \in {"tarball", "skill"} : next[g] = dir[g]
      BY <1>1, <2>2
    <3> HIDE DEF next
    <3>5. Bundle!Recorded(next, {"tarball", "skill"}) = Bundle!Recorded(dir, {"tarball", "skill"})
      <4> HIDE DEF Bundle!Sbom, Bundle!Rest
      <4> QED
        BY <3>4, RecordedSame, Zenon
    <3>6. Bundle!Recorded(next, {"tarball", "skill"}) \cup Bundle!Recorded(next, {"sbom"})
             = Bundle!Recorded(next, {"tarball", "skill"} \cup {"sbom"})
      BY RecordedBoth
    <3>7. build'[b].arts = build[b].arts \cup Bundle!Recorded(next, {"sbom"})
      BY <1>3
    <3> HIDE DEF Bundle!Sbom, Bundle!Rest
    <3> QED
      BY <3>2, <3>3, <3>5, <3>6, <3>7
  <2>4. DOMAIN dir' = {"tarball", "skill", "sbom"} /\ dir'["skill"] = dir["skill"]
    BY <1>1, <2>2
  <2>5. {"tarball", "skill", "sbom"} \ {"manifest"} = {"tarball", "skill", "sbom"}
    OBVIOUS
  <2>6. Holds({"tarball", "skill", "sbom"}, build[b].arts)'
    <3>1. build'[b].arts = Bundle!Recorded(dir', {"tarball", "skill", "sbom"} \ {"manifest"})
      BY <2>3, <2>5
    <3>2. Bundle!VerifySkillBundle(dir'["skill"])
      BY <2>1, <2>4 DEF Holds
    <3> QED
      BY <2>4, <3>1, <3>2 DEF Holds, Bundle!VerifySkillBundle, Bundle!Recorded
  <2> QED
    BY <1>3, <2>6 DEF Progress
<1>6. build'[b].pc \in Builds
  BY <1>3 DEF Builds
<1>7. "sums" \in DOMAIN dir' => "sums" \in DOMAIN dir /\ dir'["sums"] = dir["sums"]
  BY <1>1
<1> QED
  BY <1>1, <1>2, <1>3, <1>4, <1>5, <1>6, <1>7, BuildGoesOn

\* The manifest lists what was recorded.
LEMMA ManifestStep == ASSUME BundleInv, NEW b \in Builders, Bundle!Manifest(b) PROVE BundleInv'
<1> USE DEF Bundle!Manifest, Bundle!Rest
<1> DEFINE content == [by |-> b, ok |-> TRUE, arts |-> build[b].arts]
           next == Bundle!Put(dir, "manifest", content)
<1>1. /\ DOMAIN next = DOMAIN dir \cup {"manifest"} /\ next["manifest"] = content
      /\ \A g \in DOMAIN dir \ {"manifest"} : next[g] = dir[g]
  BY DEF Bundle!Put
<1>2. DOMAIN next \subseteq FileNames
  BY <1>1 DEF BundleInv, BundleTyped, Bundle!TypeOK, FileNames, Bundle!Primary
<1>3. /\ DOMAIN build' = Builders /\ \A a \in Builders \ {b} : build'[a] = build[a]
      /\ DOMAIN build'[b] = Parcel /\ build'[b].pc = "sums"
      /\ build'[b].alone = build[b].alone /\ build'[b].arts = build[b].arts
  BY DEF Bundle!Step, BundleInv, BundleTyped, Parcel
<1>4. build[b].alone /\ faults = 0 => Progress(b)'
  <2> SUFFICES ASSUME build[b].alone, faults = 0 PROVE Progress(b)'
    OBVIOUS
  <2>1. \A names : "manifest" \notin names /\ Holds(names, build[b].arts) =>
                       Holds(names \cup {"manifest"}, build[b].arts)'
    <3> SUFFICES ASSUME NEW names, "manifest" \notin names, Holds(names, build[b].arts)
                 PROVE  Holds(names \cup {"manifest"}, build[b].arts)'
      OBVIOUS
    <3>1. /\ DOMAIN dir = names /\ "skill" \in names
          /\ build[b].arts = Bundle!Recorded(dir, names)
          /\ Bundle!VerifySkillBundle(dir["skill"])
      <4>1. names \ {"manifest"} = names
        OBVIOUS
      <4> QED
        BY <4>1 DEF Holds
    <3>2. DOMAIN dir' = names \cup {"manifest"} /\ dir'["skill"] = dir["skill"]
      BY <1>1, <3>1
    <3>3. Bundle!Recorded(dir', names) = Bundle!Recorded(dir, names)
      <4>1. \A g \in names : dir'[g] = dir[g]
        BY <1>1, <3>1
      <4> HIDE DEF Bundle!Manifest, Bundle!Rest
      <4> QED
        BY <4>1, RecordedSame, Zenon
    <3>4. (names \cup {"manifest"}) \ {"manifest"} = names
      OBVIOUS
    <3> QED
      BY <1>3, <3>1, <3>2, <3>3, <3>4 DEF Holds, Bundle!VerifySkillBundle, Bundle!Recorded
  <2>2. \/ Holds({"tarball", "skill"}, build[b].arts)
        \/ Holds({"tarball", "skill", "sbom"}, build[b].arts)
    BY DEF BundleInv, BuiltAlone, Progress
  <2>3. /\ {"tarball", "skill"} \cup {"manifest"} = {"tarball", "skill", "manifest"}
        /\ {"tarball", "skill", "sbom"} \cup {"manifest"} = {"tarball", "skill", "sbom", "manifest"}
    OBVIOUS
  <2>4. \/ Holds({"tarball", "skill", "manifest"}, build[b].arts)'
        \/ Holds({"tarball", "skill", "sbom", "manifest"}, build[b].arts)'
    BY <2>1, <2>2, <2>3
  <2>5. dir'["manifest"].ok /\ dir'["manifest"].arts = build'[b].arts
    BY <1>1, <1>3
  <2> QED
    BY <1>3, <2>4, <2>5 DEF Progress
<1>5. build'[b].pc \in Builds /\ OfPrimary(build'[b].arts)
  BY <1>3 DEF Builds, BundleInv, Pinned
<1>6. "sums" \in DOMAIN dir' => "sums" \in DOMAIN dir /\ dir'["sums"] = dir["sums"]
  BY <1>1
<1> QED
  BY <1>1, <1>2, <1>3, <1>4, <1>5, <1>6, BuildGoesOn

\* What verify-bundle expects of a directory: what its manifest lists, and the manifest.
LEMMA ExpectedOf ==
    ASSUME NEW d, NEW arts, d["manifest"].arts = arts, "manifest" \in DOMAIN d,
           d["manifest"].ok, "sums" \in DOMAIN d,
           NEW names, names \subseteq Bundle!Primary, "skill" \in names,
           DOMAIN d = names \cup {"manifest", "sums"},
           arts = Bundle!Recorded(d, names),
           d["sums"].entries = arts \cup {<<"manifest", d["manifest"]>>},
           Bundle!VerifySkillBundle(d["skill"])
    PROVE  Bundle!Verifies(d)
<1>1. Bundle!Expected(d) = arts \cup {<<"manifest", d["manifest"]>>}
  BY DEF Bundle!Expected, Bundle!Recorded
<1>2. Bundle!Expected(d) \subseteq Bundle!Recorded(d, DOMAIN d)
  BY <1>1 DEF Bundle!Recorded
<1>3. Bundle!Matches(d)
  BY <1>1, <1>2 DEF Bundle!Matches
<1>4. names \cup {"manifest"} \subseteq Bundle!Names(Bundle!Expected(d))
  <2>1. names = Bundle!Names(arts)
    BY RecordedNames
  <2>2. "manifest" \in Bundle!Names({<<"manifest", d["manifest"]>>})
    BY DEF Bundle!Names
  <2> QED
    BY <1>1, <2>1, <2>2 DEF Bundle!Names
<1>5. DOMAIN d \subseteq Bundle!Names(Bundle!Expected(d)) \cup {"sums"}
  BY <1>4
<1> QED
  BY <1>3, <1>5 DEF Bundle!Verifies

\* The checksums are written, unless the manifest is gone.
LEMMA SumsStep == ASSUME BundleInv, NEW b \in Builders, Bundle!Sums(b) PROVE BundleInv'
<1> USE DEF Bundle!Sums
<1> DEFINE content == [entries |-> Bundle!SumsOf(b)]
           next == Bundle!Put(dir, "sums", content)
<1>1. CASE Bundle!Fails(b) /\ UNCHANGED <<dir, last, tree, builds, edits, faults>>
  BY <1>1, BuildEnds DEF BundleInv, BundleTyped, Bundle!TypeOK, FileNames
<1>2. CASE /\ "manifest" \in DOMAIN dir /\ Bundle!Fails(b)
           /\ dir' = next
           /\ last' = [arts |-> build[b].arts, manifest |-> dir["manifest"], alone |-> build[b].alone]
           /\ UNCHANGED <<tree, builds, edits, faults>>
  <2>1. /\ DOMAIN build' = Builders /\ build'[b] = Bundle!Idle
        /\ \A a \in Builders \ {b} : build'[a] = build[a]
    BY <1>2 DEF Bundle!Fails, BundleInv, BundleTyped
  <2>2. /\ DOMAIN Bundle!Idle = Parcel /\ Bundle!Idle.pc = "idle" /\ Bundle!Idle.arts = {}
    BY DEF Bundle!Idle, Parcel
  <2>3. /\ DOMAIN dir' = DOMAIN dir \cup {"sums"} /\ dir'["sums"] = content
        /\ \A g \in DOMAIN dir \ {"sums"} : dir'[g] = dir[g]
    BY <1>2 DEF Bundle!Put
  <2>4. content.entries = build[b].arts \cup {<<"manifest", dir["manifest"]>>}
    BY DEF Bundle!SumsOf, Bundle!Recorded
  <2> HIDE DEF content, next
  <2>5. OfPrimary(build[b].arts)
    BY DEF BundleInv, Pinned
  <2>6. BundleTyped'
    <3>1. \A a \in Builders : /\ DOMAIN build'[a] = Parcel
                              /\ build'[a].pc \in Builds /\ OfPrimary(build'[a].arts)
      BY <2>1, <2>2 DEF BundleInv, BundleTyped, Bundle!TypeOK, Pinned, OfPrimary, Parcel, Builds
    <3>2. DOMAIN last' = {"arts", "manifest", "alone"}
      BY <1>2
    <3> QED
      BY <1>2, <2>1, <2>3, <3>1, <3>2, PrimaryNames
         DEF BundleInv, BundleTyped, Bundle!TypeOK, Parcel, Builds
  <2>7. Pinned'
    <3>1. last'.arts = build[b].arts /\ last'.manifest = dir["manifest"]
      BY <1>2
    <3> QED
      BY <2>1, <2>2, <2>3, <2>4, <2>5, <3>1 DEF BundleInv, Pinned, OfPrimary
  <2>8. BuiltAlone'
    <3>1. last'.alone = build[b].alone
      BY <1>2
    <3>2. build[b].alone => \A a \in Builders \ {b} : build[a].pc = "idle"
      BY DEF BundleInv, BuiltAlone
    <3>3. ASSUME NEW a \in Builders, build'[a].pc # "idle", build'[a].alone
          PROVE  FALSE
      BY <2>1, <2>2, <3>3 DEF BundleInv, BuiltAlone
    <3>4. last'.alone => Bundle!Quiet'
      BY <2>1, <2>2, <3>1, <3>2 DEF Bundle!Quiet
    <3>5. build[b].alone /\ faults = 0 => Bundle!Verifies(dir')
      <4> SUFFICES ASSUME build[b].alone, faults = 0 PROVE Bundle!Verifies(dir')
        OBVIOUS
      <4>1. PICK names \in {{"tarball", "skill", "manifest"}, {"tarball", "skill", "sbom", "manifest"}} :
                Holds(names, build[b].arts)
        BY DEF BundleInv, BuiltAlone, Progress
      <4>2. dir["manifest"].ok /\ dir["manifest"].arts = build[b].arts
        BY DEF BundleInv, BuiltAlone, Progress
      <4>3. names \ {"manifest"} \subseteq Bundle!Primary /\ "skill" \in names \ {"manifest"}
        BY DEF Bundle!Primary
      <4>4. DOMAIN dir' = (names \ {"manifest"}) \cup {"manifest", "sums"}
        BY <2>3, <4>1 DEF Holds
      <4>5. build[b].arts = Bundle!Recorded(dir', names \ {"manifest"})
        <5>1. \A g \in names \ {"manifest"} : dir'[g] = dir[g]
          BY <2>3, <4>1 DEF Holds
        <5>2. Bundle!Recorded(dir', names \ {"manifest"}) = Bundle!Recorded(dir, names \ {"manifest"})
          BY <5>1, RecordedSame
        <5> QED
          BY <4>1, <5>2 DEF Holds
      <4>6. dir'["manifest"] = dir["manifest"] /\ dir'["skill"] = dir["skill"]
        BY <1>2, <2>3, <4>1 DEF Holds
      <4>7. Bundle!VerifySkillBundle(dir'["skill"])
        BY <4>1, <4>6 DEF Holds
      <4>8. dir'["sums"].entries = build[b].arts \cup {<<"manifest", dir'["manifest"]>>}
        BY <2>3, <2>4, <4>6
      <4>9. "manifest" \in DOMAIN dir' /\ "sums" \in DOMAIN dir'
        BY <4>4
      <4> QED
        BY <4>2, <4>3, <4>4, <4>5, <4>6, <4>7, <4>8, <4>9, ExpectedOf
    <3>6. Bundle!Verifies(dir)' <=> Bundle!Verifies(dir')
      BY DEF Bundle!Verifies, Bundle!Matches, Bundle!Expected, Bundle!Recorded, Bundle!Names,
             Bundle!VerifySkillBundle
    <3> QED
      BY <1>2, <3>1, <3>3, <3>4, <3>5, <3>6 DEF BuiltAlone
  <2> QED
    BY <2>6, <2>7, <2>8 DEF BundleInv
<1> QED
  BY <1>1, <1>2

\* The checkout is edited.
LEMMA EditStep == ASSUME BundleInv, Bundle!Edit PROVE BundleInv'
<1> USE DEF Bundle!Edit
<1>1. edits' \in 0 .. MaxEdits /\ tree \in Bundle!Trees
  BY BoundsAssumption DEF BundleInv, BundleTyped, Bundle!TypeOK
<1>2. tree' \in Bundle!Trees
  <2>1. CASE \E x \in Texts \ {tree.text} : tree' = [tree EXCEPT !.text = x]
    BY <1>1, <2>1 DEF Bundle!Trees
  <2>2. CASE tree' = [tree EXCEPT !.files = ~@]
    BY <1>1, <2>2 DEF Bundle!Trees
  <2>3. CASE tree' = [tree EXCEPT !.skill = ~@]
    BY <1>1, <2>3 DEF Bundle!Trees
  <2> QED
    BY <2>1, <2>2, <2>3
<1>3. BundleTyped'
  BY <1>1, <1>2 DEF BundleInv, BundleTyped, Bundle!TypeOK
<1>4. Pinned'
  BY DEF BundleInv, Pinned
<1>5. BuiltAlone'
  <2>1. /\ Bundle!Verifies(dir)' <=> Bundle!Verifies(dir)
        /\ \A b \in Builders : Progress(b)' <=> Progress(b)
    BY DEF Bundle!Verifies, Bundle!Matches, Bundle!Expected, Bundle!Recorded, Bundle!Names,
           Bundle!VerifySkillBundle, Progress, Holds, Bundle!Empty
  <2> QED
    BY <2>1 DEF BundleInv, BuiltAlone, Bundle!Quiet
<1> QED
  BY <1>3, <1>4, <1>5 DEF BundleInv

\* A build dies, and leaves what it has written.
LEMMA CrashStep == ASSUME BundleInv, NEW b \in Builders, Bundle!Crash(b) PROVE BundleInv'
<1>1. faults' \in 0 .. MaxFaults
  BY BoundsAssumption DEF Bundle!Crash, BundleInv, BundleTyped, Bundle!TypeOK
<1> QED
  BY <1>1, BuildEnds DEF Bundle!Crash, BundleInv, BundleTyped, Bundle!TypeOK, FileNames

\* One file of the directory is replaced, removed or added: none gets new checksums.
LEMMA TamperStep == ASSUME BundleInv, Bundle!Tamper PROVE BundleInv'
<1>1. UNCHANGED <<tree, build, last, builds, edits>> /\ faults' \in 0 .. MaxFaults /\ faults' # 0
  BY BoundsAssumption DEF Bundle!Tamper, BundleInv, BundleTyped, Bundle!TypeOK
<1>2. /\ DOMAIN dir' \subseteq FileNames
      /\ "sums" \in DOMAIN dir' => \/ dir'["sums"].entries = {}
                                   \/ "sums" \in DOMAIN dir /\ dir'["sums"] = dir["sums"]
  <2>1. DOMAIN dir \subseteq FileNames
    BY DEF BundleInv, BundleTyped, Bundle!TypeOK, FileNames
  <2>2. CASE \E f \in DOMAIN dir : dir' = Bundle!Remove(dir, f)
    BY <2>1, <2>2 DEF Bundle!Remove
  <2>3. ASSUME NEW f \in DOMAIN dir \cup {"other"}, NEW c \in Bundle!Replaced(f),
               dir' = Bundle!Put(dir, f, c)
        PROVE  <1>2!1 /\ <1>2!2
    <3>1. DOMAIN dir' = DOMAIN dir \cup {f} /\ \A g \in DOMAIN dir \ {f} : dir'[g] = dir[g]
      BY <2>3 DEF Bundle!Put
    <3>2. CASE f = "sums"
      <4>1. c.entries = {}
        BY <3>2 DEF Bundle!Replaced, Bundle!Primary
      <4> QED
        BY <2>1, <2>3, <3>1, <3>2, <4>1 DEF Bundle!Put, FileNames
    <3>3. CASE f # "sums"
      BY <2>1, <3>1, <3>3 DEF FileNames
    <3> QED
      BY <3>2, <3>3
  <2> QED
    BY <2>2, <2>3 DEF Bundle!Tamper
<1>3. BundleTyped'
  BY <1>1, <1>2 DEF BundleInv, BundleTyped, Bundle!TypeOK, FileNames
<1>4. Pinned'
  BY <1>1, <1>2 DEF BundleInv, Pinned
<1>5. BuiltAlone'
  BY <1>1 DEF BundleInv, BuiltAlone, Bundle!Quiet
<1> QED
  BY <1>3, <1>4, <1>5 DEF BundleInv

\* The checkout passes the checks, and nothing was built.
LEMMA BundleStart == ASSUME Bundle!Init PROVE BundleInv
<1>1. /\ DOMAIN Bundle!Idle = Parcel /\ Bundle!Idle.pc = "idle" /\ Bundle!Idle.arts = {}
      /\ DOMAIN Bundle!Empty = {}
  BY DEF Bundle!Idle, Parcel, Bundle!Empty
<1>2. Bundle!Names({}) = {}
  BY DEF Bundle!Names
<1>3. BundleTyped
  <2>1. \A b \in Builders : build[b] = Bundle!Idle
    BY DEF Bundle!Init
  <2>2. /\ tree \in Bundle!Trees /\ DOMAIN dir = {} /\ DOMAIN build = Builders
        /\ DOMAIN last = {"arts", "manifest", "alone"}
    BY <1>1 DEF Bundle!Init
  <2>3. builds \in 0 .. MaxBuilds /\ edits \in 0 .. MaxEdits /\ faults \in 0 .. MaxFaults
    BY BoundsAssumption DEF Bundle!Init
  <2> QED
    BY <1>1, <1>2, <2>1, <2>2, <2>3 DEF BundleTyped, Bundle!TypeOK, Parcel
<1>4. Pinned /\ BuiltAlone
  BY <1>1 DEF Bundle!Init, Pinned, BuiltAlone, OfPrimary
<1> QED
  BY <1>3, <1>4 DEF BundleInv

LEMMA BundleStep == ASSUME BundleInv, [Bundle!Next]_(Bundle!vars) PROVE BundleInv'
<1>1. CASE UNCHANGED Bundle!vars
  <2>1. /\ Bundle!Verifies(dir)' <=> Bundle!Verifies(dir)
        /\ \A b \in Builders : Progress(b)' <=> Progress(b)
    BY <1>1 DEF Bundle!vars, Bundle!Verifies, Bundle!Matches, Bundle!Expected, Bundle!Recorded,
                Bundle!Names, Bundle!VerifySkillBundle, Progress, Holds, Bundle!Empty
  <2>2. BuiltAlone'
    BY <1>1, <2>1 DEF BundleInv, BuiltAlone, Bundle!Quiet, Bundle!vars
  <2> QED
    BY <1>1, <2>2 DEF Bundle!vars, BundleInv, BundleTyped, Bundle!TypeOK, Pinned
<1>2. CASE Bundle!Next
  BY <1>2, BeginStep, PrepareStep, PackStep, SkillStep, SbomStep, ManifestStep, SumsStep,
     CrashStep, EditStep, TamperStep DEF Bundle!Next
<1> QED
  BY <1>1, <1>2

\* What verify-bundle accepts was recorded by the build that ended last, and what a
\* build that ran alone has just left is accepted.
LEMMA BundleTells == ASSUME BundleInv PROVE Bundle!VerifyTells
<1>1. ASSUME Bundle!Verifies(dir)
      PROVE  /\ dir["manifest"] = last.manifest
             /\ {<<f, dir[f]>> : f \in DOMAIN dir \cap Bundle!Primary} \subseteq last.arts
  <2>1. Bundle!Expected(dir) \subseteq last.arts \cup {<<"manifest", last.manifest>>}
    BY <1>1 DEF Bundle!Verifies, Bundle!Matches, BundleInv, Pinned
  <2>2. \A e \in last.arts : e[1] # "manifest"
    BY DEF BundleInv, Pinned, OfPrimary, Bundle!Primary
  <2>3. <<"manifest", dir["manifest"]>> \in Bundle!Expected(dir)
    BY DEF Bundle!Expected, Bundle!Recorded
  <2>4. dir["manifest"] = last.manifest
    BY <2>1, <2>2, <2>3
  <2>5. ASSUME NEW f \in DOMAIN dir \cap Bundle!Primary
        PROVE  <<f, dir[f]>> \in last.arts
    <3>1. f \in Bundle!Names(Bundle!Expected(dir)) /\ f # "manifest"
      BY <1>1 DEF Bundle!Verifies, Bundle!Primary
    <3>2. PICK e \in Bundle!Expected(dir) : e[1] = f
      BY <3>1 DEF Bundle!Names
    <3>3. e \in Bundle!Recorded(dir, DOMAIN dir)
      BY <1>1, <3>2 DEF Bundle!Verifies, Bundle!Matches
    <3>4. e = <<f, dir[f]>>
      BY <3>2, <3>3 DEF Bundle!Recorded
    <3> QED
      BY <2>1, <3>1, <3>2, <3>4
  <2> QED
    BY <2>4, <2>5
<1>2. Bundle!Quiet /\ faults = 0 /\ last.alone => Bundle!Verifies(dir)
  BY DEF BundleInv, BuiltAlone
<1> QED
  BY <1>1, <1>2 DEF Bundle!VerifyTells

---------------------------------------------------------------------------
(***************************************************************************)
(* A release, step by step.                                                *)
(***************************************************************************)
Stages == {"verify", "auth", "origin", "tag", "score", "pushtag", "public", "gate",
           "published", "stopped"}

\* The commits there are.
LEMMA CommitFacts ==
    ASSUME PublishInv
    PROVE  /\ MaxCommits \in Nat /\ MaxCommits + 1 \in 0 .. MaxCommits + 1
           /\ 0 \in 0 .. MaxCommits /\ 0 \in 0 .. MaxCommits + 1
           /\ head \in 1 .. MaxCommits /\ head \in 0 .. MaxCommits /\ head \in 0 .. MaxCommits + 1
           /\ head # 0 /\ tag \in 0 .. MaxCommits /\ tag \in 0 .. MaxCommits + 1
           /\ tag # MaxCommits + 1
           /\ rtag \in 0 .. MaxCommits + 1
  BY BoundsAssumption DEF PublishInv, PublishTyped, Publish!TypeOK

\* A push moves a branch and starts the workflows of the branch, not the release.
LEMMA PushFacts ==
    ASSUME PublishInv, NEW b \in Publish!Branches, Publish!Push(b)
    PROVE  /\ remote' \in [Publish!Branches -> [at : 0 .. MaxCommits, foreign : BOOLEAN]]
           /\ remote'[b].at = head
           /\ \A c \in Publish!Branches : c # b => remote'[c] = remote[c]
           /\ run' \in [Publish!Workflows -> [Publish!Branches -> Runs]]
           /\ run'["Release"] = run["Release"]
<1>1. remote \in [Publish!Branches -> [at : 0 .. MaxCommits, foreign : BOOLEAN]]
  BY DEF PublishInv, PublishTyped
<1>2. run \in [Publish!Workflows -> [Publish!Branches -> Runs]]
  BY DEF PublishInv, PublishTyped
<1>3. remote' \in [Publish!Branches -> [at : 0 .. MaxCommits, foreign : BOOLEAN]] /\ remote'[b].at = head
      /\ \A c \in Publish!Branches : c # b => remote'[c] = remote[c]
  BY <1>1, CommitFacts DEF Publish!Push
<1>4. [of |-> head, state |-> "queued"] \in Runs
  BY CommitFacts DEF Runs
<1>5. run' \in [Publish!Workflows -> [Publish!Branches -> Runs]]
  BY <1>2, <1>4 DEF Publish!Push, Publish!Started
<1>6. run'["Release"] = run["Release"]
  BY DEF Publish!Push, Publish!Started, Publish!Workflows, Publish!BranchScoped
<1> QED
  BY <1>3, <1>5, <1>6

\* A tag that is pushed is what the Release workflow runs for.
LEMMA ReleasedFacts ==
    ASSUME PublishInv, NEW c \in 0 .. MaxCommits + 1, Publish!Released(c)
    PROVE  /\ run' \in [Publish!Workflows -> [Publish!Branches -> Runs]]
           /\ \A b \in Publish!Branches : run'["Release"][b].of = c
<1>1. run \in [Publish!Workflows -> [Publish!Branches -> Runs]] /\ "Release" \in Publish!Workflows
  BY DEF PublishInv, PublishTyped, Publish!Workflows
<1>2. [of |-> c, state |-> "queued"] \in Runs
  BY DEF Runs
<1> QED
  BY <1>1, <1>2 DEF Publish!Released

\* The steps of the script.
LEMMA ScriptStep == ASSUME PublishInv, Publish!Script PROVE PublishInv'
<1> USE DEF Publish!Goto, Publish!Remains, Publish!local
<1>1. sc' \in Stages
  BY DEF Publish!Script, Publish!Verify, Publish!Auth, Publish!PushBranch, Publish!Tag,
         Publish!Score, Publish!PushTag, Publish!PushPublic, Publish!AskGate, Stages
<1>2. CASE Publish!Verify \/ Publish!Auth \/ Publish!Score
  <2>1. UNCHANGED <<head, dirty, sound, tag, origin, gh, remote, rtag, run, script, branch,
                    refused, moved>>
    BY <1>2 DEF Publish!Verify, Publish!Auth, Publish!Score
  <2>2. PublishTyped'
    BY <1>1, <2>1 DEF PublishInv, PublishTyped, Publish!TypeOK, Stages
  <2>3. \/ sc = "verify" /\ sc' \in {"auth", "stopped"}
        \/ sc = "auth" /\ sc' \in {"origin", "stopped"}
        \/ sc = "score" /\ sc' \in {"pushtag", "stopped"}
    BY <1>2 DEF Publish!Verify, Publish!Auth, Publish!Score
  <2>4. Scripted'
    BY <2>1, <2>3 DEF PublishInv, Scripted
  <2> QED
    BY <2>2, <2>4 DEF PublishInv
<1>3. CASE Publish!PushBranch
  <2> USE DEF Publish!PushBranch
  <2>1. /\ sc = "origin" /\ sc' \in {"tag", "stopped"}
        /\ UNCHANGED <<head, dirty, sound, tag, gh, rtag, script, branch, refused, moved>>
    BY <1>3
  <2>2. branch \in Publish!Branches
    BY DEF PublishInv, PublishTyped, Publish!TypeOK
  <2>3. Publish!Push(branch) \/ UNCHANGED <<remote, run>>
    BY <1>3
  <2>4. /\ remote' \in [Publish!Branches -> [at : 0 .. MaxCommits, foreign : BOOLEAN]]
        /\ run' \in [Publish!Workflows -> [Publish!Branches -> Runs]]
        /\ run'["Release"] = run["Release"]
    BY <2>2, <2>3, PushFacts DEF PublishInv, PublishTyped
  <2>5. PublishTyped'
    BY <1>1, <2>1, <2>4 DEF PublishInv, PublishTyped, Publish!TypeOK, Stages
  <2>6. Scripted'
    BY <2>1, <2>4 DEF PublishInv, Scripted
  <2> QED
    BY <2>5, <2>6 DEF PublishInv
<1>4. CASE Publish!Tag
  <2>1. /\ UNCHANGED <<head, dirty, sound, origin, gh, remote, rtag, run, script, branch,
                       refused, moved>>
        /\ sc = "tag" /\ sc' = "score" /\ tag' = head
    BY <1>4 DEF Publish!Tag
  <2>2. PublishTyped'
    BY <1>1, <2>1, CommitFacts DEF PublishInv, PublishTyped, Publish!TypeOK, Stages
  <2>3. Scripted'
    BY <2>1, CommitFacts DEF PublishInv, Scripted
  <2> QED
    BY <2>2, <2>3 DEF PublishInv
<1>5. CASE Publish!PushTag
  <2>1. /\ sc = "pushtag" /\ sc' \in {"gate", "public", "stopped"} /\ tag # 0
        /\ refused' = ~Publish!TagAccepted
        /\ UNCHANGED <<head, dirty, sound, tag, origin, gh, remote, script, branch, moved>>
    BY <1>5 DEF Publish!PushTag, PublishInv, Scripted
  <2>2. script \in {"shell", "powershell"}
    BY DEF PublishInv, PublishTyped, Publish!TypeOK
  <2>3. ~Publish!TagAccepted => script = "powershell" \/ sc' = "stopped"
    BY <1>5, <2>2 DEF Publish!PushTag
  <2>4. /\ run' \in [Publish!Workflows -> [Publish!Branches -> Runs]]
        /\ rtag' \in 0 .. MaxCommits + 1
        /\ rtag' # 0 => \A b \in Publish!Branches : run'["Release"][b].of = rtag'
        /\ Publish!TagAccepted => rtag' = tag
    <3>1. CASE Publish!TagAccepted /\ rtag # tag
      <4>1. rtag' = tag /\ Publish!Released(tag)
        BY <1>5, <3>1 DEF Publish!PushTag
      <4> QED
        BY <4>1, CommitFacts, ReleasedFacts
    <3>2. CASE ~(Publish!TagAccepted /\ rtag # tag)
      <4>1. rtag' = rtag /\ run' = run /\ (Publish!TagAccepted => rtag = tag)
        BY <1>5, <3>2 DEF Publish!PushTag
      <4> QED
        BY <4>1, CommitFacts DEF PublishInv, PublishTyped, Scripted
    <3> QED
      BY <3>1, <3>2
  <2>5. PublishTyped'
    BY <1>1, <2>1, <2>4 DEF PublishInv, PublishTyped, Publish!TypeOK, Stages
  <2>6. Scripted'
    BY <2>1, <2>3, <2>4 DEF Scripted
  <2> QED
    BY <2>5, <2>6 DEF PublishInv
<1>6. CASE Publish!PushPublic
  <2>1. /\ sc = "public" /\ sc' \in {"gate", "stopped"}
        /\ UNCHANGED <<head, dirty, sound, tag, origin, gh, rtag, script, branch, refused, moved>>
        /\ Publish!Push(Publish!Public) \/ UNCHANGED <<remote, run>>
    BY <1>6 DEF Publish!PushPublic
  <2>2. Publish!Public \in Publish!Branches
    BY DEF Publish!Branches
  <2>3. /\ remote' \in [Publish!Branches -> [at : 0 .. MaxCommits, foreign : BOOLEAN]]
        /\ run' \in [Publish!Workflows -> [Publish!Branches -> Runs]]
        /\ run'["Release"] = run["Release"]
    BY <2>1, <2>2, PushFacts DEF PublishInv, PublishTyped
  <2>4. PublishTyped'
    BY <1>1, <2>1, <2>3 DEF PublishInv, PublishTyped, Publish!TypeOK, Stages
  <2>5. Scripted'
    BY <2>1, <2>3 DEF PublishInv, Scripted
  <2> QED
    BY <2>4, <2>5 DEF PublishInv
<1>7. CASE Publish!AskGate
  <2>1. /\ UNCHANGED <<head, dirty, sound, tag, origin, gh, remote, rtag, run, script, branch,
                       refused, moved>>
        /\ sc = "gate" /\ sc' \in {"gate", "published"}
    BY <1>7 DEF Publish!AskGate
  <2>2. PublishTyped'
    BY <1>1, <2>1 DEF PublishInv, PublishTyped, Publish!TypeOK, Stages
  <2>3. Scripted'
    BY <2>1 DEF PublishInv, Scripted
  <2> QED
    BY <2>2, <2>3 DEF PublishInv
<1> QED
  BY <1>2, <1>3, <1>4, <1>5, <1>6, <1>7 DEF Publish!Script

\* The second terminal and the other clones move branches, and no tag that is there.
LEMMA MeddleStep == ASSUME PublishInv, Publish!Meddle PROVE PublishInv'
<1>1. UNCHANGED <<tag, origin, gh, script, branch, sc, refused, moved>>
  BY DEF Publish!Meddle
<1>2. /\ remote \in [Publish!Branches -> [at : 0 .. MaxCommits, foreign : BOOLEAN]]
      /\ run \in [Publish!Workflows -> [Publish!Branches -> Runs]]
      /\ head \in 1 .. MaxCommits /\ dirty \in BOOLEAN /\ sound \in BOOLEAN
      /\ rtag \in 0 .. MaxCommits + 1
  BY DEF PublishInv, PublishTyped, Publish!TypeOK
<1>3. ASSUME /\ head' \in 1 .. MaxCommits /\ dirty' \in BOOLEAN /\ sound' \in BOOLEAN
             /\ remote' \in [Publish!Branches -> [at : 0 .. MaxCommits, foreign : BOOLEAN]]
             /\ run' \in [Publish!Workflows -> [Publish!Branches -> Runs]]
             /\ rtag' \in 0 .. MaxCommits + 1
             /\ \/ rtag' = rtag /\ run'["Release"] = run["Release"]
                \/ rtag = 0 /\ \A b \in Publish!Branches : run'["Release"][b].of = rtag'
      PROVE  PublishInv'
  <2>1. PublishTyped'
    BY <1>1, <1>3 DEF PublishInv, PublishTyped, Publish!TypeOK
  <2>2. Scripted'
    BY <1>1, <1>3 DEF PublishInv, Scripted
  <2> QED
    BY <2>1, <2>2 DEF PublishInv
<1>4. CASE dirty' = TRUE /\ sound' \in BOOLEAN /\ UNCHANGED <<head, remote, rtag, run>>
  BY <1>2, <1>3, <1>4
<1>5. CASE /\ dirty /\ head < MaxCommits
           /\ dirty' = FALSE /\ head' = head + 1
           /\ UNCHANGED <<sound, remote, rtag, run>>
  <2>1. head' \in 1 .. MaxCommits
    BY <1>2, <1>5, BoundsAssumption
  <2> QED
    BY <1>2, <1>3, <1>5, <2>1
<1>6. CASE Publish!Push(Publish!Public) /\ UNCHANGED <<head, dirty, sound, rtag>>
  <2>1. Publish!Public \in Publish!Branches
    BY DEF Publish!Branches
  <2>2. /\ remote' \in [Publish!Branches -> [at : 0 .. MaxCommits, foreign : BOOLEAN]]
        /\ run' \in [Publish!Workflows -> [Publish!Branches -> Runs]]
        /\ run'["Release"] = run["Release"]
    BY <1>6, <2>1, PushFacts
  <2> QED
    BY <1>2, <1>3, <1>6, <2>2
<1>7. ASSUME NEW b \in Publish!Branches,
             remote' = [remote EXCEPT ![b].foreign = TRUE],
             run' = [run EXCEPT !["CI"][b] = [of |-> MaxCommits + 1, state |-> "queued"]],
             UNCHANGED <<head, dirty, sound, rtag>>
      PROVE  PublishInv'
  <2>1. remote' \in [Publish!Branches -> [at : 0 .. MaxCommits, foreign : BOOLEAN]]
    BY <1>2, <1>7
  <2>2. [of |-> MaxCommits + 1, state |-> "queued"] \in Runs
    BY CommitFacts DEF Runs
  <2>3. run' \in [Publish!Workflows -> [Publish!Branches -> Runs]]
    BY <1>2, <1>7, <2>2
  <2>4. run'["Release"] = run["Release"]
    BY <1>2, <1>7 DEF Publish!Workflows
  <2> QED
    BY <1>2, <1>3, <1>7, <2>1, <2>3, <2>4
<1>8. CASE /\ rtag = 0
           /\ rtag' \in {MaxCommits + 1} \cup IF Publish!Reachable THEN {tag} \ {0} ELSE {}
           /\ Publish!Released(rtag')
           /\ UNCHANGED <<head, dirty, sound, remote>>
  <2>1. rtag' \in 0 .. MaxCommits + 1
    BY <1>8, CommitFacts
  <2>2. /\ run' \in [Publish!Workflows -> [Publish!Branches -> Runs]]
        /\ \A b \in Publish!Branches : run'["Release"][b].of = rtag'
    BY <1>8, <2>1, ReleasedFacts
  <2> QED
    BY <1>2, <1>3, <1>8, <2>1, <2>2
<1> QED
  BY <1>4, <1>5, <1>6, <1>7, <1>8 DEF Publish!Meddle

\* A local tag that is moved leaves the one at the origin alone.
LEMMA RetagStep == ASSUME PublishInv, Publish!Retag PROVE PublishInv'
<1>1. /\ UNCHANGED <<head, dirty, sound, origin, gh, remote, rtag, run, script, branch, sc, refused>>
      /\ tag' = head /\ moved' = (moved \/ sc \in {"public", "gate"})
  BY DEF Publish!Retag
<1>2. PublishTyped'
  BY <1>1, CommitFacts DEF PublishInv, PublishTyped, Publish!TypeOK
<1>3. Scripted'
  BY <1>1, CommitFacts DEF PublishInv, Scripted
<1> QED
  BY <1>2, <1>3 DEF PublishInv

\* GitHub goes on with a run, which stays that of its commit.
LEMMA WorkStep ==
    ASSUME PublishInv, NEW w \in Publish!Workflows, NEW b \in Publish!Branches, Publish!Work(w, b)
    PROVE  PublishInv'
<1>1. PICK s \in {"in_progress", "success", "failure"} :
          run' = [run EXCEPT ![w] = [x \in Publish!Branches |->
                    IF x = b \/ w \notin Publish!BranchScoped THEN [run[w][x] EXCEPT !.state = s]
                    ELSE run[w][x]]]
  BY DEF Publish!Work
<1>2. run \in [Publish!Workflows -> [Publish!Branches -> Runs]]
  BY DEF PublishInv, PublishTyped
<1>3. \A x \in Publish!Branches : /\ [run[w][x] EXCEPT !.state = s] \in Runs
                                  /\ [run[w][x] EXCEPT !.state = s].of = run[w][x].of
  BY <1>2 DEF Runs
<1>4. run' \in [Publish!Workflows -> [Publish!Branches -> Runs]]
  BY <1>1, <1>2, <1>3
<1>5. \A v \in Publish!Workflows : \A x \in Publish!Branches : run'[v][x].of = run[v][x].of
  BY <1>1, <1>2, <1>3
<1>6. UNCHANGED <<head, dirty, sound, tag, origin, gh, remote, rtag, script, branch, sc, refused,
                  moved, meddling>>
  BY DEF Publish!Work, Publish!local, Publish!Remains
<1>7. PublishTyped'
  BY <1>4, <1>6 DEF PublishInv, PublishTyped, Publish!TypeOK
<1>8. Scripted'
  BY <1>5, <1>6 DEF PublishInv, Scripted, Publish!Workflows
<1> QED
  BY <1>7, <1>8 DEF PublishInv

LEMMA PublishStart == ASSUME Publish!Init PROVE PublishInv
<1>1. Publish!NoRun \in Runs /\ Publish!NoRun.of = 0
  BY BoundsAssumption DEF Publish!NoRun, Runs
<1>2. PublishTyped
  <2>1. [at |-> 0, foreign |-> FALSE] \in [at : 0 .. MaxCommits, foreign : BOOLEAN]
    BY BoundsAssumption
  <2>2. remote \in [Publish!Branches -> [at : 0 .. MaxCommits, foreign : BOOLEAN]]
    BY <2>1 DEF Publish!Init
  <2>3. run \in [Publish!Workflows -> [Publish!Branches -> Runs]]
    BY <1>1 DEF Publish!Init
  <2>4. Publish!TypeOK
    <3>1. /\ 1 \in 1 .. MaxCommits /\ 0 \in 0 .. MaxCommits /\ 1 \in 0 .. MaxCommits
          /\ 0 \in 0 .. (MaxCommits + 1)
      BY BoundsAssumption
    <3>2. \A b \in Publish!Branches : remote[b].at = 0
      BY DEF Publish!Init
    <3> QED
      BY <3>1, <3>2 DEF Publish!Init, Publish!TypeOK
  <2> QED
    BY <2>2, <2>3, <2>4 DEF Publish!Init, PublishTyped
<1>3. Scripted
  BY DEF Publish!Init, Scripted
<1> QED
  BY <1>2, <1>3 DEF PublishInv

LEMMA PublishStep == ASSUME PublishInv, [Publish!Next]_(Publish!vars) PROVE PublishInv'
<1>1. CASE UNCHANGED Publish!vars
  BY <1>1 DEF Publish!vars, PublishInv, PublishTyped, Publish!TypeOK, Scripted
<1>2. CASE Publish!Next
  BY <1>2, ScriptStep, MeddleStep, RetagStep, WorkStep DEF Publish!Next
<1> QED
  BY <1>1, <1>2

\* The checks of the gate, each of which passed.
LEMMA GatePassed ==
    ASSUME PublishInv, sc = "gate", Publish!Gate(Publish!Public)
    PROVE  /\ ~dirty /\ sound /\ tag = head
           /\ run["Release"][Publish!Public] = [of |-> rtag, state |-> "success"]
           /\ rtag = head \/ moved \/ (refused /\ script = "powershell")
<1> USE DEF Publish!Gate, Publish!Ultimate
<1> DEFINE Seen == Publish!LocalChecks(Publish!Public)
           Asked == Publish!PublishStatus(Publish!Public, TRUE)
<1>1. \A c \in Seen : c.name # "release:check" => c.status = "pass"
  <2>1. Publish!GithubWarnings(Publish!Public, TRUE) = {}
    OBVIOUS
  <2>2. \A c \in Seen : c.status # "pass" => c.name \in Publish!Issues(Publish!Bootstrap(Publish!Public))
    BY DEF Publish!Issues, Publish!Bootstrap
  <2> QED
    BY <2>1, <2>2 DEF Publish!GithubWarnings
<1>2. ~dirty
  <2>1. Publish!Check("git:working-tree", ~dirty, "fail") \in Seen
    BY DEF Publish!LocalChecks
  <2> QED
    BY <1>1, <2>1 DEF Publish!Check
<1>3. tag = head
  <2>1. Publish!Check("git:local-tag", tag = head, "warn") \in Seen
    BY DEF Publish!LocalChecks
  <2> QED
    BY <1>1, <2>1 DEF Publish!Check
<1>4. rtag # 0
  <2>1. Publish!Check("git:remote-tag", Publish!Reachable /\ rtag # 0, "warn") \in Asked
    BY DEF Publish!PublishStatus, Publish!OnlineChecks
  <2>2. \A c \in Asked : c.status # "pass" => c.name \in Publish!Issues(Asked)
    BY DEF Publish!Issues
  <2>3. Publish!Issues(Asked) \subseteq {"release:check"}
    BY DEF Publish!GithubWarnings
  <2> QED
    BY <2>1, <2>2, <2>3 DEF Publish!Check
<1>5. sound
  <2>1. Publish!Check("files", sound, "fail") \in Publish!ReleaseCheck
    BY DEF Publish!ReleaseCheck
  <2>2. Publish!Blockers = {}
    OBVIOUS
  <2> QED
    BY <2>1, <2>2 DEF Publish!Check, Publish!Blockers, Publish!Issues, Publish!Fails
<1>6. \A c \in Asked : c.status # "fail"
  BY DEF Publish!Fails
<1>7. run["Release"][Publish!Public].state = "success"
  <2>1. gh
    <3>1. ~gh => Publish!Check("github:actions-gh", FALSE, "fail") \in Asked
      BY DEF Publish!PublishStatus, Publish!ActionsChecks
    <3> QED
      BY <1>6, <3>1 DEF Publish!Check
  <2>2. Publish!Check("Release", run["Release"][Publish!Public].state = "success", "fail") \in Asked
    BY <2>1 DEF Publish!PublishStatus, Publish!ActionsChecks, Publish!Workflows,
           Publish!BranchScoped
  <2> QED
    BY <1>6, <2>2 DEF Publish!Check
<1>8. /\ rtag = tag \/ moved \/ refused
      /\ refused => script = "powershell"
      /\ run["Release"][Publish!Public].of = rtag
  BY <1>4 DEF PublishInv, Scripted, Publish!Branches
<1>9. run["Release"][Publish!Public] \in Runs
  BY DEF PublishInv, PublishTyped, Publish!Workflows, Publish!Branches
<1>10. run["Release"][Publish!Public] = [of |-> rtag, state |-> "success"]
  BY <1>7, <1>8, <1>9 DEF Runs
<1> QED
  BY <1>2, <1>3, <1>5, <1>8, <1>10

\* No step publishes but one of the gate, and none moves a tag that is there.
LEMMA StepIsWhole ==
    ASSUME PublishInv, [Publish!Next]_(Publish!vars)
    PROVE  Publish!PublishesWhole /\ Publish!KeepsTag
<1>1. CASE UNCHANGED Publish!vars
  BY <1>1 DEF Publish!vars, Publish!PublishesWhole, Publish!KeepsTag
<1>2. CASE Publish!AskGate
  BY <1>2, GatePassed DEF Publish!AskGate, Publish!local, Publish!PublishesWhole, Publish!KeepsTag
<1>3. CASE Publish!PushTag
  BY <1>3 DEF Publish!PushTag, Publish!Goto, Publish!TagAccepted, Publish!PublishesWhole,
         Publish!KeepsTag
<1>4. CASE Publish!Verify \/ Publish!Auth \/ Publish!PushBranch \/ Publish!Tag \/ Publish!Score
           \/ Publish!PushPublic
  BY <1>4 DEF Publish!Verify, Publish!Auth, Publish!PushBranch, Publish!Tag, Publish!Score,
              Publish!PushPublic, Publish!Remains, Publish!Goto, Publish!PublishesWhole, Publish!KeepsTag
<1>5. CASE Publish!Meddle \/ Publish!Retag
  BY <1>5 DEF Publish!Meddle, Publish!Retag, Publish!PublishesWhole, Publish!KeepsTag
<1>6. CASE \E w \in Publish!Workflows, b \in Publish!Branches : Publish!Work(w, b)
  BY <1>6 DEF Publish!Work, Publish!PublishesWhole, Publish!KeepsTag
<1> QED
  BY <1>1, <1>2, <1>3, <1>4, <1>5, <1>6 DEF Publish!Next, Publish!Script

---------------------------------------------------------------------------
(***************************************************************************)
(* The screens, key by key.                                                *)
(***************************************************************************)
Unseen == {"sessions", "themes", "action"}

\* Where the keys leave a terminal: on a screen it shows, with an option picked that is
\* there, or the first.
Where == /\ screen \in Keys!Screens /\ previous \in Keys!Screens \ {"palette"}
         /\ pick \in 0 .. MaxFound - 1 /\ found \in 0 .. MaxFound
         /\ query \in BOOLEAN /\ shrunk \in BOOLEAN
         /\ PickFound

\* What a screen may show is at most what there is.
LEMMA ShownFound ==
    ASSUME NEW s \in Keys!Screens, NEW n \in Keys!Shows(s)
    PROVE  n \in 0 .. MaxFound /\ (s \in {"themes", "action"} => n = MaxFound)
  BY BoundsAssumption DEF Keys!Shows, Keys!Lists, Keys!Panels, Keys!Screens

\* The selection does not matter, or it is the first.
LEMMA Placed ==
    ASSUME Where, NEW next \in Keys!Screens, Keys!SetScreen(next),
           previous' \in Keys!Screens \ {"palette"},
           query' \in BOOLEAN, pick' = 0 \/ (pick' = pick /\ next \notin Unseen)
    PROVE  Where'
<1>1. 0 \in 0 .. MaxFound - 1
  BY BoundsAssumption
<1>2. screen' = next /\ found' \in 0 .. MaxFound /\ (next \in {"themes", "action"} => found' = MaxFound)
  BY ShownFound DEF Keys!SetScreen
<1>4. shrunk' \in BOOLEAN
  BY DEF Keys!SetScreen
<1>3. pick' \in 0 .. MaxFound - 1
  BY <1>1 DEF Where
<1> QED
  BY <1>2, <1>3, <1>4 DEF Where, PickFound, Unseen

\* The ways to move between screens.
LEMMA Opened == ASSUME Where, NEW next \in Keys!Screens, Keys!OpenScreen(next) PROVE Where'
<1>1. "chat" \in Keys!Screens \ {"palette"}
  BY DEF Keys!Screens
<1> QED
  BY <1>1, Placed DEF Keys!OpenScreen, Where
LEMMA ShowedFirst == ASSUME Where, NEW next \in Keys!Screens, Keys!ShowFirst(next) PROVE Where'
  BY Placed DEF Keys!ShowFirst, Where
LEMMA Showed == ASSUME Where, NEW next \in Keys!Screens \ Unseen, Keys!Show(next) PROVE Where'
  BY Placed DEF Keys!Show, Where
LEMMA Stayed == ASSUME Where, Keys!Stay PROVE Where'
  BY DEF Where, PickFound, Lessened, Keys!Stay

\* The sessions are filtered anew.
LEMMA Refiltered == ASSUME Where, screen = "sessions", query, Keys!Refilter PROVE Where'
<1>1. /\ screen' = "sessions" /\ query' = query /\ pick' = pick /\ found' \in 0 .. MaxFound
      /\ shrunk' = (shrunk \/ found' < found) /\ previous' = previous
  BY DEF Keys!Refilter
<1>2. pick = 0 \/ pick < found \/ shrunk
  BY DEF Where, PickFound, Lessened
<1>3. pick \in Nat /\ found \in Nat /\ found' \in Nat
  BY <1>1, BoundsAssumption DEF Where
<1>4. pick = 0 \/ pick < found' \/ shrunk'
  <2>1. CASE found' < found
    BY <1>1, <2>1
  <2>2. CASE shrunk
    BY <1>1, <2>2
  <2>3. CASE ~(found' < found) /\ ~shrunk
    <3>1. found =< found'
      BY <1>3, <2>3
    <3> QED
      BY <1>1, <1>2, <1>3, <2>3, <3>1
  <2> QED
    BY <2>1, <2>2, <2>3
<1>5. shrunk' \in BOOLEAN
  BY <1>1
<1> QED
  BY <1>1, <1>4, <1>5 DEF Where, PickFound, Lessened
LEMMA Switched == ASSUME Where, Keys!SwitchMode PROVE Where'
  BY Stayed, Refiltered DEF Keys!SwitchMode

\* The screens that are shown by name.
LEMMA ScreenNames ==
    /\ {"connect", "models", "palette", "context", "action", "panel", "sessions", "themes"}
          \subseteq Keys!Screens
    /\ {"chat", "panel", "connect"} \subseteq Keys!Screens \ Unseen
  BY DEF Keys!Screens, Keys!Panels, Keys!Lists, Unseen

LEMMA ModelsOpened == ASSUME Where, Keys!OpenModels PROVE Where'
  BY Opened, ScreenNames DEF Keys!OpenModels

\* An arrow stays within the list.
LEMMA ArrowStays == ASSUME Where, Keys!Arrow PROVE Where'
<1>1. \A n \in Nat \ {0} : \A k \in Nat : (k + 1) % n \in 0 .. n - 1 /\ (k + n - 1) % n \in 0 .. n - 1
  OBVIOUS
<1>2. found \in Nat \ {0} /\ pick \in Nat /\ found =< MaxFound
  BY BoundsAssumption DEF Where, Keys!Arrow
<1>3. pick' \in 0 .. found - 1
  BY <1>1, <1>2 DEF Keys!Arrow
<1>4. pick' \in 0 .. MaxFound - 1 /\ pick' < found
  BY <1>2, <1>3, BoundsAssumption
<1> QED
  BY <1>4 DEF Where, PickFound, Keys!Arrow

\* A query starts the list over.
LEMMA QueryStarts == ASSUME Where, Keys!Query(screen) PROVE Where'
<1>1. Keys!SetScreen(screen) /\ pick' = 0 /\ previous' = previous /\ query' \in BOOLEAN
  BY DEF Keys!Query, Keys!SetScreen, Where
<1> QED
  BY <1>1, Placed DEF Where

\* The rest of the types, and what the keys of the connect screen keep.
Rest == /\ draft \in Keys!Drafts
        /\ armed \in BOOLEAN /\ leaving \in BOOLEAN /\ busy \in BOOLEAN
        /\ keyStage \in {"provider", "api-key"} /\ pending \in Providers
        /\ announced \in Providers \cup {Nobody} /\ provider \in Providers \cup {Nobody}
        /\ fate \in {"runs", "left"}
        /\ KeyAnnounced

LEMMA ScreensParts == fate \in {"runs", "left"} => (ScreensInv <=> Where /\ Rest)
  BY DEF ScreensInv, Keys!TypeOK, Where, Rest, Keys!KeysFindTheirTarget

\* A slash command.
LEMMA SlashStays ==
    ASSUME Where, Keys!Slash, draft \in Keys!Drafts, fate \in {"runs", "left"},
           provider \in Providers \cup {Nobody}
    PROVE  /\ Where' /\ draft' \in Keys!Drafts /\ fate' \in {"runs", "left"}
           /\ provider' \in Providers \cup {Nobody}
<1>1. Where'
  <2>1. Keys!Stay => Where'
    BY Stayed
  <2>2. Keys!OpenModels => Where'
    BY ModelsOpened
  <2>3. \A s \in {"chat", "panel"} : Keys!Show(s) => Where'
    BY Showed, ScreenNames
  <2>4. \A s \in Keys!Screens : Keys!ShowFirst(s) => Where'
    BY ShowedFirst
  <2>5. ASSUME Keys!SetScreen("sessions"), pick' = 0, query' = FALSE, UNCHANGED previous
        PROVE  Where'
    BY <2>5, Placed, ScreenNames DEF Where
  <2> QED
    BY <2>1, <2>2, <2>3, <2>4, <2>5 DEF Keys!Slash
<1> QED
  BY <1>1 DEF Keys!Slash, Keys!Drafts

LEMMA LeaderStep == ASSUME Where, Rest, Keys!Leader PROVE Where' /\ Rest'
<1> USE DEF Keys!Leader
<1>1. UNCHANGED <<leaving, keyStage, pending, announced, busy>> /\ armed' = FALSE
  OBVIOUS
<1>2. CASE Keys!Slash
  BY <1>1, <1>2, SlashStays DEF Rest, KeyAnnounced
<1>3. CASE /\ \E s \in {"panel", "sessions", "themes"} : Keys!OpenScreen(s)
           /\ UNCHANGED <<draft, provider, fate>>
  BY <1>1, <1>3, Opened, ScreenNames DEF Rest, KeyAnnounced
<1>4. CASE (Keys!Stay \/ Keys!SwitchMode) /\ UNCHANGED <<draft, provider, fate>>
  BY <1>1, <1>4, Stayed, Switched DEF Rest, KeyAnnounced
<1> QED
  BY <1>2, <1>3, <1>4

\* The global keys.
LEMMA GlobalStep == ASSUME Where, Rest, Keys!CtrlC \/ Keys!Global PROVE Where' /\ Rest'
<1>1. CASE Keys!CtrlC
  <2>1. Where'
    BY <1>1, Stayed DEF Keys!CtrlC
  <2> QED
    BY <1>1, <2>1 DEF Keys!CtrlC, Rest, KeyAnnounced, Keys!Drafts
<1>2. CASE Keys!Global
  <2>1. \/ Keys!Stay \/ Keys!SwitchMode \/ Keys!OpenScreen("palette") \/ Keys!OpenScreen("context")
        \/ Keys!OpenScreen("action")
    BY <1>2 DEF Keys!Global, Keys!Palette
  <2>2. Where'
    BY <2>1, Stayed, Switched, Opened, ScreenNames
  <2>3. /\ draft' \in Keys!Drafts /\ armed' \in BOOLEAN /\ fate' \in {"runs", "left"}
        /\ leaving' = FALSE
    BY <1>2 DEF Keys!Global, Keys!Palette, Rest, Keys!Drafts
  <2> QED
    BY <1>2, <2>2, <2>3 DEF Keys!Global, Rest, KeyAnnounced
<1> QED
  BY <1>1, <1>2

\* The connect screen. A key goes to the provider that was announced.
LEMMA ConnectStep ==
    ASSUME Where, Rest, Keys!ConnectList \/ Keys!ConnectKey PROVE Where' /\ Rest'
<1>1. /\ screen = "connect" /\ UNCHANGED <<armed, busy, draft>> /\ leaving' = FALSE
  BY DEF Keys!ConnectList, Keys!ConnectKey, Keys!Here
<1>2. ASSUME NEW c \in Providers, Keys!ConnectProvider(c), c \in Local \/ c = announced
      PROVE  Where' /\ fate' \in {"runs", "left"} /\ provider' \in Providers \cup {Nobody}
             /\ keyStage' \in {"provider", keyStage}
    <2>1. Where'
      BY <1>2, Showed, Stayed, ScreenNames DEF Keys!ConnectProvider
    <2> QED
      BY <1>2, <2>1 DEF Keys!ConnectProvider, Rest
<1>3. CASE Keys!ConnectList
  <2> USE DEF Keys!ConnectList
  <2>1. keyStage = "provider"
    BY <1>3
  <2>2. CASE /\ Keys!Query("connect")
             /\ UNCHANGED <<pending, announced, provider, keyStage, fate>>
    BY <1>1, <2>2, QueryStarts DEF Rest, KeyAnnounced
  <2>3. CASE /\ Keys!Arrow /\ pending' \in Providers
             /\ UNCHANGED <<announced, provider, keyStage, fate>>
    BY <1>1, <2>1, <2>3, ArrowStays DEF Rest, KeyAnnounced
  <2>4. CASE /\ Keys!Show("chat")
             /\ UNCHANGED <<pending, announced, provider, keyStage, fate>>
    BY <1>1, <2>4, Showed, ScreenNames DEF Rest, KeyAnnounced
  <2>5. ASSUME NEW c \in Providers, c \in Local, pending' = c, Keys!ConnectProvider(c),
               UNCHANGED announced
        PROVE  Where' /\ Rest'
    BY <1>1, <1>2, <2>1, <2>5 DEF Rest, KeyAnnounced
  <2>6. ASSUME NEW c \in Providers, pending' = c, keyStage' = "api-key", announced' = c,
               Keys!Stay, UNCHANGED <<provider, fate>>
        PROVE  Where' /\ Rest'
    BY <1>1, <2>6, Stayed DEF Rest, KeyAnnounced
  <2> QED
    BY <1>3, <2>2, <2>3, <2>4, <2>5, <2>6
<1>4. CASE Keys!ConnectKey
  <2>1. keyStage = "api-key" /\ UNCHANGED <<pending, announced>>
    BY <1>4 DEF Keys!ConnectKey
  <2>2. pending = announced /\ pending \in Providers
    BY <2>1 DEF Rest, KeyAnnounced
  <2>3. CASE keyStage' = "provider" /\ Keys!Stay /\ UNCHANGED <<provider, fate>>
    BY <1>1, <2>1, <2>3, Stayed DEF Rest, KeyAnnounced
  <2>4. CASE Keys!ConnectProvider(pending)
    BY <1>1, <1>2, <2>1, <2>2, <2>4 DEF Rest, KeyAnnounced
  <2> QED
    BY <1>4, <2>3, <2>4 DEF Keys!ConnectKey
<1> QED
  BY <1>3, <1>4

\* Enter finds the option, or the sessions got fewer under the selection.
LEMMA PickedThere ==
    ASSUME Where, screen \in Unseen, found > 0, Keys!PickBlindly("chat")
    PROVE  \/ Where' /\ UNCHANGED fate
           \/ Where' /\ Lessened' /\ fate' = "threw" /\ screen = "sessions"
<1>1. CASE Keys!Picked
  <2>1. Keys!Show("chat") /\ UNCHANGED fate
    BY <1>1 DEF Keys!PickBlindly
  <2> QED
    BY <2>1, Showed, ScreenNames
<1>2. CASE ~Keys!Picked
  <2>1. fate' = "threw" /\ Keys!Stay
    BY <1>2 DEF Keys!PickBlindly
  <2>2. Lessened
    BY <1>2, BoundsAssumption DEF Where, PickFound, Unseen, Keys!Picked
  <2> QED
    BY <2>1, <2>2, Stayed DEF Keys!Stay, Lessened
<1> QED
  BY <1>1, <1>2

\* The lists with a query.
LEMMA ListStep ==
    ASSUME Where, Rest, Keys!ModelInput \/ Keys!SessionInput \/ Keys!ContextInput
    PROVE  (Where' /\ Rest') \/ ScreensInv'
<1>1. /\ UNCHANGED <<armed, busy, keyStage, pending, announced>> /\ leaving' = FALSE
  BY DEF Keys!ModelInput, Keys!SessionInput, Keys!ContextInput, Keys!Here
<1>2. Keys!Query(screen) \/ Keys!Arrow \/ Keys!Show("chat") \/ Keys!OpenScreen("palette") => Where'
  BY QueryStarts, ArrowStays, Showed, Opened, ScreenNames
<1>3. CASE Keys!ModelInput
  <2>1. Where'
    BY <1>2, <1>3 DEF Keys!ModelInput, Keys!Here, Keys!Palette
  <2> QED
    BY <1>1, <1>3, <2>1 DEF Keys!ModelInput, Keys!Palette, Keys!Arrow, Rest, KeyAnnounced,
           Keys!Drafts
<1>4. CASE Keys!SessionInput
  <2>1. CASE /\ found > 0 /\ Keys!PickBlindly("chat")
             /\ provider' \in Providers \cup {Nobody} /\ UNCHANGED draft
    <3>1. screen \in Unseen
      BY <1>4 DEF Keys!SessionInput, Keys!Here, Unseen
    <3>2. CASE Where' /\ UNCHANGED fate
      BY <1>1, <2>1, <3>2 DEF Rest, KeyAnnounced
    <3>3. CASE Where' /\ Lessened' /\ fate' = "threw"
      BY <1>1, <2>1, <3>3 DEF Rest, Where, Lessened, KeyAnnounced, ScreensInv, Keys!TypeOK,
             Keys!KeysFindTheirTarget
    <3> QED
      BY <2>1, <3>1, <3>2, <3>3, PickedThere
  <2>2. CASE /\ Keys!Query("sessions") \/ Keys!Arrow \/ Keys!Show("chat") \/ Keys!Palette
             /\ draft' \in {draft, "slash"} /\ UNCHANGED <<provider, fate>>
    <3>1. Where'
      BY <1>2, <1>4, <2>2 DEF Keys!SessionInput, Keys!Here, Keys!Palette
    <3> QED
      BY <1>1, <2>2, <3>1 DEF Rest, KeyAnnounced, Keys!Drafts
  <2> QED
    BY <1>4, <2>1, <2>2 DEF Keys!SessionInput, Keys!Arrow, Keys!Palette
<1>5. CASE Keys!ContextInput
  <2>1. Where'
    BY <1>2, <1>5 DEF Keys!ContextInput, Keys!Here
  <2> QED
    BY <1>1, <1>5, <2>1 DEF Keys!ContextInput, Keys!Arrow, Rest, KeyAnnounced, Keys!Drafts
<1> QED
  BY <1>3, <1>4, <1>5

\* The command palette.
LEMMA PaletteStep == ASSUME Where, Rest, Keys!PaletteInput PROVE Where' /\ Rest'
<1>1. /\ UNCHANGED <<armed, busy, keyStage, pending, announced>> /\ leaving' = FALSE
      /\ screen = "palette"
  BY DEF Keys!PaletteInput, Keys!Here
<1>2. CASE Keys!ReturnToPrevious /\ UNCHANGED <<provider, fate>>
  <2>1. Where'
    BY <1>2, ShowedFirst, ScreenNames DEF Keys!ReturnToPrevious, Where
  <2> QED
    BY <1>1, <1>2, <2>1 DEF Keys!ReturnToPrevious, Rest, KeyAnnounced, Keys!Drafts
<1>3. CASE /\ pick' = 0 /\ found' \in 0 .. MaxFound /\ draft' = "slash"
           /\ shrunk' = FALSE /\ UNCHANGED <<screen, previous, query, provider, fate>>
  <2>1. 0 \in 0 .. MaxFound - 1
    BY BoundsAssumption
  <2>2. Where'
    BY <1>1, <1>3, <2>1 DEF Where, PickFound
  <2> QED
    BY <1>1, <1>3, <2>2 DEF Rest, KeyAnnounced, Keys!Drafts
<1>4. CASE Keys!Arrow /\ UNCHANGED <<provider, fate>>
  <2>1. Where'
    BY <1>4, ArrowStays
  <2> QED
    BY <1>1, <1>4, <2>1 DEF Keys!Arrow, Rest, KeyAnnounced
<1>5. CASE Keys!Slash
  BY <1>1, <1>5, SlashStays DEF Rest, KeyAnnounced
<1> QED
  BY <1>2, <1>3, <1>4, <1>5 DEF Keys!PaletteInput

\* The two fixed tables, which are never empty.
LEMMA TableStep ==
    ASSUME Where, Rest, Keys!ThemeInput \/ Keys!ActionInput PROVE Where' /\ Rest'
<1> USE DEF Keys!ThemeInput, Keys!ActionInput, Keys!TableInput, Keys!Here
<1>1. /\ UNCHANGED <<armed, busy, draft, keyStage, pending, announced, provider>> /\ leaving' = FALSE
      /\ screen \in {"themes", "action"}
  OBVIOUS
<1>2. found > 0 /\ screen \in Unseen
  BY <1>1, BoundsAssumption DEF Where, PickFound, Unseen
<1>3. CASE Keys!Arrow /\ UNCHANGED fate
  BY <1>1, <1>3, ArrowStays DEF Rest, KeyAnnounced
<1>4. CASE Keys!Show("chat") /\ UNCHANGED fate
  BY <1>1, <1>4, Showed, ScreenNames DEF Rest, KeyAnnounced
<1>5. CASE Keys!PickBlindly("chat")
  BY <1>1, <1>2, <1>5, PickedThere DEF Rest, KeyAnnounced
<1> QED
  BY <1>3, <1>4, <1>5

\* The composer.
LEMMA ComposerStep == ASSUME Where, Rest, Keys!ComposerInput PROVE Where' /\ Rest'
<1> USE DEF Keys!ComposerInput
<1>1. UNCHANGED <<armed, keyStage, pending, announced>> /\ leaving' = FALSE
  OBVIOUS
<1>2. CASE draft' \in Keys!Drafts /\ Keys!Stay /\ UNCHANGED <<provider, busy, fate>>
  BY <1>1, <1>2, Stayed DEF Rest, KeyAnnounced
<1>3. CASE draft' = "empty" /\ Keys!Show("chat") /\ UNCHANGED <<provider, busy, fate>>
  BY <1>1, <1>3, Showed, ScreenNames DEF Rest, KeyAnnounced, Keys!Drafts
<1>4. CASE Keys!Palette /\ UNCHANGED <<provider, busy, fate>>
  BY <1>1, <1>4, Opened, ScreenNames DEF Keys!Palette, Rest, KeyAnnounced, Keys!Drafts
<1>5. CASE draft' = "empty" /\ Keys!SendMessage /\ UNCHANGED <<provider, fate>>
  <2>1. Where' /\ busy' \in BOOLEAN
    BY <1>5, Showed, Stayed, ScreenNames DEF Keys!SendMessage, Rest
  <2> QED
    BY <1>1, <1>5, <2>1 DEF Rest, KeyAnnounced, Keys!Drafts
<1>6. CASE Keys!Slash /\ UNCHANGED busy
  BY <1>1, <1>6, SlashStays DEF Rest, KeyAnnounced
<1>7. CASE /\ Keys!Show("chat") /\ UNCHANGED <<provider, fate>>
           /\ IF provider = Nobody THEN draft' = "text" /\ UNCHANGED busy
                                   ELSE draft' = "empty" /\ busy' = TRUE
  <2>1. Where'
    BY <1>7, Showed, ScreenNames
  <2> QED
    BY <1>1, <1>7, <2>1 DEF Rest, KeyAnnounced, Keys!Drafts
<1> QED
  BY <1>2, <1>3, <1>4, <1>5, <1>6, <1>7

\* A reply, the timer of the leader key and the other terminals.
LEMMA OutsideStep ==
    ASSUME Where, Rest, Keys!Reply \/ Keys!LeaderExpires \/ Keys!Elsewhere PROVE Where' /\ Rest'
<1>1. CASE Keys!Reply \/ Keys!LeaderExpires
  <2>1. UNCHANGED <<screen, previous, draft, pick, found, query, shrunk, leaving, keyStage,
                    pending, announced, provider, fate>>
        /\ armed' \in {armed, FALSE} /\ busy' \in {busy, FALSE}
    BY <1>1 DEF Keys!Reply, Keys!LeaderExpires
  <2>2. Where'
    BY <2>1 DEF Where, PickFound, Lessened
  <2> QED
    BY <2>1, <2>2 DEF Rest, KeyAnnounced
<1>2. CASE Keys!Elsewhere
  <2>1. ASSUME query, Keys!Refilter PROVE Where'
    <3>1. screen = "sessions" /\ query /\ Keys!Refilter
      BY <1>2, <2>1 DEF Keys!Elsewhere
    <3> QED
      BY <3>1, Refiltered
  <2>2. ASSUME found < MaxFound, found' = found + 1,
               UNCHANGED <<screen, previous, pick, query, shrunk>>
        PROVE  Where'
    <3>1. screen = "sessions" /\ found' \in 0 .. MaxFound
      BY <1>2, <2>2, BoundsAssumption DEF Keys!Elsewhere, Where
    <3>2. pick' = 0 \/ pick' < found' \/ Lessened'
      BY <2>2, <3>1, BoundsAssumption DEF Where, PickFound, Lessened
    <3>3. /\ screen' = screen /\ previous' = previous /\ pick' = pick /\ query' = query
          /\ shrunk' = shrunk
      BY <2>2
    <3>4. PickFound'
      BY <3>1, <3>2, <3>3 DEF PickFound
    <3> QED
      BY <3>1, <3>3, <3>4 DEF Where
  <2>3. Where'
    BY <1>2, <2>1, <2>2 DEF Keys!Elsewhere
  <2> QED
    BY <1>2, <2>3 DEF Keys!Elsewhere, Rest, KeyAnnounced
<1> QED
  BY <1>1, <1>2

LEMMA ScreensStart == ASSUME Keys!Init PROVE ScreensInv
<1>1. screen \in {"connect", "chat"} /\ screen \in Keys!Screens
  BY ScreenNames DEF Keys!Init
<1>2. 0 \in 0 .. MaxFound - 1 /\ found \in 0 .. MaxFound
  BY <1>1, ShownFound, BoundsAssumption DEF Keys!Init
<1>3. Where
  BY <1>1, <1>2, ScreenNames DEF Keys!Init, Where, PickFound, Unseen
<1>4. Rest
  BY DEF Keys!Init, Rest, KeyAnnounced, Keys!Drafts
<1> QED
  BY <1>3, <1>4, ScreensParts DEF Rest

LEMMA ScreensStep == ASSUME ScreensInv, [Keys!Next]_(Keys!vars) PROVE ScreensInv'
<1>1. CASE UNCHANGED Keys!vars
  BY <1>1 DEF Keys!vars, ScreensInv, Keys!TypeOK, PickFound, Lessened, KeyAnnounced,
              Keys!KeysFindTheirTarget
<1>2. CASE Keys!Next
  <2>1. Where /\ Rest
    BY <1>2, ScreensParts DEF Keys!Next
  <2>2. (Where' /\ Rest') \/ ScreensInv'
    BY <1>2, <2>1, LeaderStep, GlobalStep, ConnectStep, ListStep, PaletteStep, TableStep,
       ComposerStep, OutsideStep DEF Keys!Next
  <2>3. Where' /\ Rest' => ScreensInv'
    BY DEF ScreensInv, Keys!TypeOK, Where, Rest, Keys!KeysFindTheirTarget
  <2> QED
    BY <2>2, <2>3
<1> QED
  BY <1>1, <1>2

---------------------------------------------------------------------------
(***************************************************************************)
(* Transcripts.                                                            *)
(***************************************************************************)
\* The last messages of a transcript, or the last transcripts of a stack.
LEMMA NewestOf ==
    ASSUME NEW S, NEW seq \in Seq(S), NEW n \in Nat
    PROVE  /\ Talk!Newest(seq, n) \in Seq(S)
           /\ Len(Talk!Newest(seq, n)) \in 0 .. n /\ Len(Talk!Newest(seq, n)) =< Len(seq)
           /\ \A i \in 1 .. Len(Talk!Newest(seq, n)) :
                 Talk!Newest(seq, n)[i] = seq[i + (Len(seq) - Len(Talk!Newest(seq, n)))]
<1>1. CASE Len(seq) =< n
  BY <1>1 DEF Talk!Newest
<1>2. CASE Len(seq) > n
  <2> DEFINE k == Len(seq) - n + 1
             m == SubSeq(seq, k, Len(seq))
  <2>1. Talk!Newest(seq, n) = m
    BY <1>2 DEF Talk!Newest
  <2>2. k \in 1 .. Len(seq) + 1 /\ Len(seq) \in Nat
    BY <1>2
  <2>3. m \in Seq(S)
    <3>1. \A i \in k .. Len(seq) : seq[i] \in S
      BY <2>2
    <3> QED
      BY <2>2, <3>1, SubSeqProperties
  <2>4. Len(m) = n
    BY <2>2, SubSeqProperties
  <2>5. \A i \in 1 .. n : m[i] = seq[i + (Len(seq) - n)]
    BY <2>2
  <2> HIDE DEF m, k
  <2> QED
    BY <2>1, <2>2, <2>3, <2>4, <2>5, <1>2
<1> QED
  BY <1>1, <1>2

\* Trimming takes a question away only with all before it.
LEMMA TrimReads ==
    ASSUME NEW s, NEW messages \in Seq(Talk!Message), Talk!Reads(messages, s), NEW n \in Nat
    PROVE  Talk!Newest(messages, n) \in Seq(Talk!Message) /\ Talk!Reads(Talk!Newest(messages, n), s)
<1> DEFINE m == Talk!Newest(messages, n)
           d == Len(messages) - Len(m)
<1>1. /\ m \in Seq(Talk!Message) /\ d \in Nat /\ Len(m) \in Nat
      /\ \A i \in 1 .. Len(m) : m[i] = messages[i + d]
  <2>1. /\ m \in Seq(Talk!Message) /\ Len(m) =< Len(messages)
        /\ \A i \in 1 .. Len(m) : m[i] = messages[i + (Len(messages) - Len(m))]
    BY NewestOf
  <2> HIDE DEF m
  <2> QED
    BY <2>1
<1> HIDE DEF m
<1>2. ASSUME NEW i \in DOMAIN m
      PROVE  /\ m[i].of = s
             /\ m[i].kind \in {"answer", "error"} /\ i > 1 =>
                   m[i - 1] = [of |-> s, kind |-> "question", ask |-> m[i].ask]
  <2>1. i \in 1 .. Len(m) /\ i + d \in DOMAIN messages /\ m[i] = messages[i + d]
    BY <1>1
  <2>2. i > 1 => i - 1 \in 1 .. Len(m) /\ i + d > 1 /\ (i - 1) + d = (i + d) - 1
    BY <1>1, <2>1
  <2>3. i > 1 => m[i - 1] = messages[(i + d) - 1]
    BY <1>1, <2>2
  <2> QED
    BY <2>1, <2>2, <2>3 DEF Talk!Reads
<1> QED
  BY <1>1, <1>2 DEF Talk!Reads, m

\* A message of the session goes behind the others, an answer behind its question.
LEMMA AppendReads ==
    ASSUME NEW s, NEW messages \in Seq(Talk!Message), Talk!Reads(messages, s),
           NEW m \in Talk!Message, m.of = s,
           m.kind \in {"answer", "error"} /\ messages # <<>> =>
               messages[Len(messages)] = [of |-> s, kind |-> "question", ask |-> m.ask]
    PROVE  /\ Append(messages, m) \in Seq(Talk!Message)
           /\ Talk!Reads(Append(messages, m), s)
<1> DEFINE a == Append(messages, m)
<1>1. /\ a \in Seq(Talk!Message) /\ Len(a) = Len(messages) + 1 /\ Len(messages) \in Nat
      /\ a[Len(messages) + 1] = m /\ \A i \in 1 .. Len(messages) : a[i] = messages[i]
  OBVIOUS
<1> HIDE DEF a
<1>2. ASSUME NEW i \in DOMAIN a
      PROVE  /\ a[i].of = s
             /\ a[i].kind \in {"answer", "error"} /\ i > 1 =>
                   a[i - 1] = [of |-> s, kind |-> "question", ask |-> a[i].ask]
  <2>1. i \in 1 .. Len(messages) + 1
    BY <1>1
  <2>2. CASE i \in 1 .. Len(messages)
    <3>1. a[i] = messages[i] /\ (i > 1 => a[i - 1] = messages[i - 1])
      BY <1>1, <2>2
    <3> QED
      BY <1>1, <2>2, <3>1 DEF Talk!Reads
  <2>3. CASE i = Len(messages) + 1
    <3>1. a[i] = m /\ (i > 1 => messages # <<>> /\ a[i - 1] = messages[Len(messages)])
      BY <1>1, <2>3
    <3> QED
      BY <3>1
  <2> QED
    BY <2>1, <2>2, <2>3
<1> QED
  BY <1>1, <1>2 DEF Talk!Reads, a

\* A stack of transcripts with one more, or one less.
LEMMA PushReads ==
    ASSUME NEW s, NEW stack \in Stacks, AllRead(stack, s),
           NEW messages \in Seq(Talk!Message), Talk!Reads(messages, s)
    PROVE  Talk!Push(stack, messages) \in Stacks /\ AllRead(Talk!Push(stack, messages), s)
<1> DEFINE a == Append(stack, messages)
           n == Talk!Newest(a, Undoable)
           d == Len(a) - Len(n)
<1>1. /\ a \in Seq(Seq(Talk!Message)) /\ Len(a) = Len(stack) + 1 /\ Len(stack) \in Nat
      /\ a[Len(stack) + 1] = messages /\ \A i \in 1 .. Len(stack) : a[i] = stack[i]
  BY DEF Stacks
<1>2. AllRead(a, s)
  BY <1>1 DEF AllRead
<1> HIDE DEF a
<1>3. /\ n \in Seq(Seq(Talk!Message)) /\ Len(n) =< Undoable /\ d \in Nat
      /\ \A i \in 1 .. Len(n) : n[i] = a[i + d]
  <2>1. a \in Seq(Seq(Talk!Message)) /\ Undoable \in Nat
    BY <1>1, BoundsAssumption
  <2>2. /\ n \in Seq(Seq(Talk!Message)) /\ Len(n) \in 0 .. Undoable /\ Len(n) =< Len(a)
        /\ \A i \in 1 .. Len(n) : n[i] = a[i + (Len(a) - Len(n))]
    BY <2>1, NewestOf
  <2>3. Len(a) \in Nat
    BY <1>1
  <2> HIDE DEF n
  <2>4. d \in Nat
    BY <2>2, <2>3
  <2> QED
    BY <2>1, <2>2, <2>4
<1> HIDE DEF n
<1>4. AllRead(n, s)
  <2> SUFFICES ASSUME NEW i \in DOMAIN n PROVE Talk!Reads(n[i], s)
    BY DEF AllRead
  <2>1. i \in 1 .. Len(n) /\ n[i] = a[i + d]
    BY <1>3
  <2>2. Len(n) \in Nat /\ Len(a) \in Nat /\ DOMAIN a = 1 .. Len(a)
    BY <1>1, <1>3
  <2>3. i + d \in DOMAIN a
    BY <1>3, <2>1, <2>2
  <2> QED
    BY <1>2, <2>1, <2>3 DEF AllRead
<1> QED
  BY <1>3, <1>4 DEF Talk!Push, Stacks, a, n

LEMMA PopReads ==
    ASSUME NEW s, NEW stack \in Stacks, AllRead(stack, s), stack # <<>>
    PROVE  /\ Talk!Pop(stack) \in Stacks /\ AllRead(Talk!Pop(stack), s)
           /\ Talk!Top(stack) \in Seq(Talk!Message) /\ Talk!Reads(Talk!Top(stack), s)
<1>1. stack \in Seq(Seq(Talk!Message)) /\ Len(stack) \in Nat \ {0} /\ Len(stack) =< Undoable
  BY DEF Stacks
<1>2. /\ Talk!Pop(stack) \in Seq(Seq(Talk!Message)) /\ Len(Talk!Pop(stack)) = Len(stack) - 1
      /\ \A i \in 1 .. Len(stack) - 1 : Talk!Pop(stack)[i] = stack[i]
  <2>1. \A i \in 1 .. Len(stack) - 1 : stack[i] \in Seq(Talk!Message)
    BY <1>1
  <2> DEFINE n == Len(stack) - 1
  <2>2. n \in Int /\ 1 \in Int /\ n >= 0 /\ n - 1 + 1 = n /\ \A i \in 1 .. n : 1 + i - 1 = i
    BY <1>1
  <2>3. Talk!Pop(stack) = SubSeq(stack, 1, n)
    BY DEF Talk!Pop
  <2> HIDE DEF n
  <2>4. /\ SubSeq(stack, 1, n) \in Seq(Seq(Talk!Message))
        /\ Len(SubSeq(stack, 1, n)) = IF 1 =< n THEN n - 1 + 1 ELSE 0
        /\ \A i \in 1 .. n - 1 + 1 : SubSeq(stack, 1, n)[i] = stack[1 + i - 1]
    BY <2>1, <2>2, SubSeqProperties DEF n
  <2>5. Len(SubSeq(stack, 1, n)) = n /\ \A i \in 1 .. n : SubSeq(stack, 1, n)[i] = stack[i]
    BY <2>2, <2>4
  <2> QED
    BY <2>3, <2>4, <2>5 DEF n
<1>3. Talk!Pop(stack) \in Stacks
  BY <1>1, <1>2, BoundsAssumption DEF Stacks
<1>4. AllRead(Talk!Pop(stack), s)
  <2>1. DOMAIN Talk!Pop(stack) = 1 .. Len(stack) - 1 /\ DOMAIN stack = 1 .. Len(stack)
    BY <1>1, <1>2
  <2>2. \A i \in 1 .. Len(stack) - 1 : i \in 1 .. Len(stack)
    BY <1>1
  <2> HIDE DEF Talk!Pop
  <2> QED
    BY <1>2, <2>1, <2>2 DEF AllRead
<1>5. Talk!Top(stack) \in Seq(Talk!Message) /\ Talk!Reads(Talk!Top(stack), s)
  BY <1>1 DEF Talk!Top, AllRead
<1> QED
  BY <1>3, <1>4, <1>5

\* Nothing reads as it was written.
LEMMA EmptyReads ==
    ASSUME NEW s
    PROVE  /\ <<>> \in Seq(Talk!Message) /\ Talk!Reads(<<>>, s)
           /\ <<>> \in Stacks /\ AllRead(<<>>, s)
           /\ Talk!Fresh \in Records /\ Talk!Fresh.messages = <<>> /\ Talk!Fresh.context = {}
           /\ <<"messages", <<>>>> \in Changes
<1>1. <<>> \in Seq(Talk!Message) /\ <<>> \in Seq(Seq(Talk!Message)) /\ Len(<<>>) = 0
  OBVIOUS
<1>2. Talk!Reads(<<>>, s) /\ AllRead(<<>>, s)
  BY DEF Talk!Reads, AllRead
<1>3. <<>> \in Stacks
  BY <1>1, BoundsAssumption DEF Stacks
<1>4. Talk!Fresh \in Records /\ Talk!Fresh.messages = <<>> /\ Talk!Fresh.context = {}
  BY <1>1 DEF Talk!Fresh, Records
<1>5. <<"messages", <<>>>> \in Changes
  BY <1>1 DEF Changes
<1> QED
  BY <1>1, <1>2, <1>3, <1>4, <1>5

---------------------------------------------------------------------------
(***************************************************************************)
(* The sessions, step by step.                                             *)
(***************************************************************************)
\* A step of one terminal leaves the memory of the others as it is.
Unmoved(t) ==
    \A u \in Terminals \ {t} :
        /\ up'[u] = up[u] /\ session'[u] = session[u] /\ shown'[u] = shown[u]
        /\ undo'[u] = undo[u] /\ redo'[u] = redo[u] /\ context'[u] = context[u]
        /\ asked'[u] = asked[u] /\ sent'[u] = sent[u] /\ stage'[u] = stage[u]
        /\ patch'[u] = patch[u] /\ got'[u] = got[u] /\ resumed'[u] = resumed[u]

\* A step of one terminal keeps the invariant when it keeps what the invariant says
\* of that terminal, and touches only files of sessions the terminal has opened.
LEMMA TerminalMoves ==
    ASSUME SessionsInv, NEW t \in Terminals, SessionsTyped', Unmoved(t),
           \A s \in Sessions : file'[s] = file[s] \/ t \in visitors[s],
           \A s \in Sessions : Talk!Reads(file'[s].messages, s),
           \A s \in Sessions : /\ visitors[s] \subseteq visitors'[s]
                               /\ visitors'[s] = visitors[s] \/ t \in visitors'[s],
           Opens(t)', Own(t)', Stored(t)'
    PROVE  SessionsInv'
<1>1. ASSUME NEW u \in Terminals \ {t} PROVE Opens(u)' /\ Own(u)' /\ Stored(u)'
  <2>1. Opens(u) /\ Own(u) /\ Stored(u)
    BY DEF SessionsInv
  <2>2. session[u] \in Sessions \cup {None}
    BY DEF SessionsInv, SessionsTyped
  <2>3. Opens(u)'
    BY <2>1, <2>2 DEF Opens, Unmoved
  <2>4. Own(u)'
    BY <2>1 DEF Own, Unmoved
  <2>5. Stored(u)'
    <3> SUFFICES ASSUME up'[u] = "on", visitors'[session'[u]] = {u},
                        stage'[u] \in {"idle", "change"} => file'[session'[u]].state # "torn"
                 PROVE  /\ NextMessages(u)' = shown'[u]
                        /\ ~resumed'[u] => NextContext(u)' = context'[u]
      BY DEF Stored
    <3>1. up[u] = "on" /\ session[u] \in Sessions /\ session'[u] = session[u]
      BY <2>1, <2>2 DEF Opens, Unmoved
    <3>2. visitors[session[u]] = {u} /\ file'[session[u]] = file[session[u]]
      BY <3>1
    <3>3. Base(u)' = Base(u)
      BY <3>1, <3>2 DEF Base, Unmoved
    <3>4. NextMessages(u)' = NextMessages(u) /\ NextContext(u)' = NextContext(u)
      BY <3>3 DEF NextMessages, NextContext, Changing, Unmoved
    <3> QED
      BY <2>1, <3>1, <3>2, <3>4 DEF Stored, Unmoved
  <2> QED
    BY <2>3, <2>4, <2>5
<1> QED
  BY <1>1 DEF SessionsInv

\* The terminal shows another transcript and is about to store it.
LEMMA ShowsStep ==
    ASSUME SessionsInv, NEW t \in Terminals, up[t] = "on", stage[t] = "idle",
           NEW next \in Seq(Talk!Message), Talk!Reads(next, session[t]),
           NEW back \in Stacks, AllRead(back, session[t]),
           NEW forth \in Stacks, AllRead(forth, session[t]),
           NEW question \in 0 .. MaxKeys, NEW out \in Seq(Talk!Message), Talk!Reads(out, session[t]),
           question = 0 => out = <<>>,
           question # 0 /\ out # <<>> =>
               out[Len(out)] = [of |-> session[t], kind |-> "question", ask |-> question],
           shown' = [shown EXCEPT ![t] = next], Talk!Persist(t, next),
           undo' = [undo EXCEPT ![t] = back], redo' = [redo EXCEPT ![t] = forth],
           asked' = [asked EXCEPT ![t] = question], sent' = [sent EXCEPT ![t] = out],
           keys' \in 0 .. MaxKeys,
           UNCHANGED <<file, up, session, context, got, crashes, visitors, resumed>>
    PROVE  SessionsInv'
<1> USE DEF Talk!Persist, Talk!PersistField
<1>1. SessionsTyped
  BY DEF SessionsInv
<1>2. Opens(t) /\ Own(t) /\ Stored(t)
  BY DEF SessionsInv
<1>3. /\ shown'[t] = next /\ undo'[t] = back /\ redo'[t] = forth /\ asked'[t] = question
      /\ sent'[t] = out /\ patch'[t] = <<"messages", next>> /\ stage'[t] = "change"
  BY <1>1 DEF SessionsTyped
<1>4. SessionsTyped'
  <2>1. <<"messages", next>> \in Changes
    BY DEF Changes
  <2>2. /\ shown' \in [Terminals -> Seq(Talk!Message)] /\ sent' \in [Terminals -> Seq(Talk!Message)]
        /\ undo' \in [Terminals -> Stacks] /\ redo' \in [Terminals -> Stacks]
        /\ asked' \in [Terminals -> 0 .. MaxKeys] /\ patch' \in [Terminals -> Changes]
        /\ stage' \in [Terminals -> {"idle", "change", "read", "cut"}]
    BY <1>1, <2>1 DEF SessionsTyped
  <2> QED
    BY <1>1, <2>2 DEF SessionsTyped
<1>5. Unmoved(t)
  BY <1>1 DEF SessionsTyped, Unmoved
<1>6. Opens(t)'
  BY <1>2, <1>3 DEF Opens
<1>7. Own(t)'
  BY <1>2, <1>3 DEF Own
<1>8. Stored(t)'
  <2> SUFFICES ASSUME visitors[session[t]] = {t}, file[session[t]].state # "torn"
               PROVE  NextMessages(t)' = shown'[t] /\ (~resumed[t] => NextContext(t)' = context[t])
    BY <1>3 DEF Stored
  <2>1. ~resumed[t] => file[session[t]].context = context[t]
    BY <1>2 DEF Stored, NextContext, Changing, Base
  <2> QED
    BY <1>3, <2>1 DEF NextMessages, NextContext, Changing, Base
<1> QED
  BY <1>4, <1>5, <1>6, <1>7, <1>8, TerminalMoves DEF SessionsInv

\* What a key changes when it is taken: the number of keys, which the bound allows.
LEMMA KeyTaken ==
    ASSUME SessionsInv, NEW t \in Terminals, Talk!TakesKeys(t), Talk!Press
    PROVE  /\ up[t] = "on" /\ stage[t] = "idle" /\ asked[t] = 0 /\ sent[t] = <<>>
           /\ session[t] \in Sessions /\ keys' = keys + 1 /\ keys + 1 \in 1 .. MaxKeys
           /\ keys' \in 0 .. MaxKeys
<1>1. up[t] = "on" /\ stage[t] = "idle" /\ asked[t] = 0 /\ keys' = keys + 1 /\ keys < MaxKeys
  BY DEF Talk!TakesKeys, Talk!Press
<1>2. session[t] \in Sessions /\ sent[t] = <<>>
  BY <1>1 DEF SessionsInv, SessionsTyped, Opens
<1>3. keys + 1 \in 1 .. MaxKeys /\ keys + 1 \in 0 .. MaxKeys
  BY <1>1, BoundsAssumption DEF SessionsInv, SessionsTyped
<1> QED
  BY <1>1, <1>2, <1>3

\* What a terminal that is on keeps of its session.
LEMMA KeepsOwn ==
    ASSUME SessionsInv, NEW t \in Terminals, up[t] = "on"
    PROVE  /\ session[t] \in Sessions
           /\ shown[t] \in Seq(Talk!Message) /\ Talk!Reads(shown[t], session[t])
           /\ sent[t] \in Seq(Talk!Message) /\ Talk!Reads(sent[t], session[t])
           /\ undo[t] \in Stacks /\ AllRead(undo[t], session[t])
           /\ redo[t] \in Stacks /\ AllRead(redo[t], session[t])
           /\ shown = [shown EXCEPT ![t] = shown[t]] /\ sent = [sent EXCEPT ![t] = sent[t]]
           /\ undo = [undo EXCEPT ![t] = undo[t]] /\ redo = [redo EXCEPT ![t] = redo[t]]
           /\ asked = [asked EXCEPT ![t] = asked[t]]
<1>1. SessionsTyped /\ Opens(t) /\ Own(t)
  BY DEF SessionsInv
<1>2. session[t] \in Sessions
  BY <1>1 DEF SessionsTyped, Opens
<1>3. /\ Talk!Reads(shown[t], session[t]) /\ Talk!Reads(sent[t], session[t])
      /\ AllRead(undo[t], session[t]) /\ AllRead(redo[t], session[t])
  BY <1>1 DEF Own
<1> QED
  BY <1>1, <1>2, <1>3 DEF SessionsTyped

LEMMA SendMessageStep ==
    ASSUME SessionsInv, NEW t \in Terminals, Talk!SendMessage(t) PROVE SessionsInv'
<1> DEFINE m == Talk!Said(t, "question", keys + 1)
           next == Talk!Trim(Append(shown[t], m))
           back == Talk!Push(undo[t], shown[t])
<1>1. /\ Talk!TakesKeys(t) /\ Talk!Press
      /\ shown' = [shown EXCEPT ![t] = next] /\ sent' = [sent EXCEPT ![t] = next]
      /\ Talk!Persist(t, next)
      /\ undo' = [undo EXCEPT ![t] = back] /\ redo' = [redo EXCEPT ![t] = <<>>]
      /\ asked' = [asked EXCEPT ![t] = keys + 1]
      /\ UNCHANGED <<file, up, session, context, got, crashes, visitors, resumed>>
  BY DEF Talk!SendMessage
<1>2. /\ up[t] = "on" /\ stage[t] = "idle" /\ session[t] \in Sessions
      /\ keys + 1 \in 1 .. MaxKeys /\ keys' = keys + 1 /\ keys' \in 0 .. MaxKeys
  BY <1>1, KeyTaken
<1>3. /\ shown[t] \in Seq(Talk!Message) /\ Talk!Reads(shown[t], session[t])
      /\ undo[t] \in Stacks /\ AllRead(undo[t], session[t])
  BY <1>2, KeepsOwn
<1>4. /\ m \in Talk!Message /\ m.of = session[t] /\ m.kind = "question"
      /\ m = [of |-> session[t], kind |-> "question", ask |-> keys + 1]
  BY <1>2 DEF Talk!Said, Talk!Message
<1> HIDE DEF m
<1>5. /\ Append(shown[t], m) \in Seq(Talk!Message) /\ Talk!Reads(Append(shown[t], m), session[t])
  BY <1>3, <1>4, AppendReads
<1>6. /\ next \in Seq(Talk!Message) /\ Talk!Reads(next, session[t])
  BY <1>5, TrimReads, BoundsAssumption DEF Talk!Trim
<1>7. next # <<>> => next[Len(next)] = m
  <2> DEFINE a == Append(shown[t], m)
  <2>1. a[Len(a)] = m /\ Len(a) \in Nat
    BY <1>3, <1>4
  <2> HIDE DEF a
  <2>2. a \in Seq(Talk!Message) /\ Kept \in Nat /\ next = Talk!Newest(a, Kept)
    BY <1>5, BoundsAssumption DEF a, Talk!Trim
  <2> HIDE DEF next
  <2>3. /\ Len(next) \in 0 .. Kept /\ Len(next) =< Len(a)
        /\ \A i \in 1 .. Len(next) : next[i] = a[i + (Len(a) - Len(next))]
    BY <2>2, NewestOf
  <2>4. next # <<>> => Len(next) \in 1 .. Len(next)
    BY <2>3, <1>6 DEF next
  <2>5. Len(next) + (Len(a) - Len(next)) = Len(a)
    BY <2>1, <2>3
  <2> QED
    BY <2>1, <2>3, <2>4, <2>5
<1>8. back \in Stacks /\ AllRead(back, session[t])
  BY <1>3, PushReads
<1>9. <<>> \in Stacks /\ AllRead(<<>>, session[t])
  BY EmptyReads
<1> HIDE DEF next, back
<1> QED
  <2>1. keys + 1 \in 0 .. MaxKeys /\ keys + 1 # 0
    BY <1>2
  <2> QED
    BY <1>1, <1>2, <1>4, <1>6, <1>7, <1>8, <1>9, <2>1, ShowsStep

LEMMA ReplyStep ==
    ASSUME SessionsInv, NEW t \in Terminals, Talk!Reply(t) PROVE SessionsInv'
<1>1. /\ up[t] = "on" /\ stage[t] = "idle" /\ asked[t] # 0
      /\ asked' = [asked EXCEPT ![t] = 0] /\ sent' = [sent EXCEPT ![t] = <<>>]
      /\ UNCHANGED <<file, up, session, undo, redo, context, got, keys, crashes, visitors, resumed>>
  BY DEF Talk!Reply
<1>2. PICK final \in {Talk!Trim(Append(sent[t], Talk!Said(t, "answer", asked[t]))),
                      Append(sent[t], Talk!Said(t, "error", asked[t]))} :
          shown' = [shown EXCEPT ![t] = final] /\ Talk!Persist(t, final)
  BY DEF Talk!Reply
<1>3. /\ session[t] \in Sessions /\ sent[t] \in Seq(Talk!Message) /\ Talk!Reads(sent[t], session[t])
      /\ undo[t] \in Stacks /\ AllRead(undo[t], session[t])
      /\ redo[t] \in Stacks /\ AllRead(redo[t], session[t])
      /\ undo = [undo EXCEPT ![t] = undo[t]] /\ redo = [redo EXCEPT ![t] = redo[t]]
  BY <1>1, KeepsOwn
<1>4. asked[t] \in 1 .. MaxKeys
  BY <1>1, BoundsAssumption DEF SessionsInv, SessionsTyped
<1>5. sent[t] # <<>> =>
          sent[t][Len(sent[t])] = [of |-> session[t], kind |-> "question", ask |-> asked[t]]
  BY <1>1 DEF SessionsInv, Own
<1>6. ASSUME NEW kind \in {"answer", "error"}
      PROVE  LET a == Append(sent[t], Talk!Said(t, kind, asked[t]))
             IN  a \in Seq(Talk!Message) /\ Talk!Reads(a, session[t])
  <2> DEFINE m == Talk!Said(t, kind, asked[t])
  <2>1. m \in Talk!Message /\ m.of = session[t] /\ m.ask = asked[t]
    BY <1>3, <1>4 DEF Talk!Said, Talk!Message
  <2> HIDE DEF m
  <2>2. m.kind \in {"answer", "error"} /\ sent[t] # <<>> =>
            sent[t][Len(sent[t])] = [of |-> session[t], kind |-> "question", ask |-> m.ask]
    BY <1>5, <2>1
  <2> QED
    BY <1>3, <2>1, <2>2, AppendReads DEF m
<1>7. final \in Seq(Talk!Message) /\ Talk!Reads(final, session[t])
  <2>1. CASE final = Talk!Trim(Append(sent[t], Talk!Said(t, "answer", asked[t])))
    BY <1>6, <2>1, TrimReads, BoundsAssumption DEF Talk!Trim
  <2>2. CASE final = Append(sent[t], Talk!Said(t, "error", asked[t]))
    BY <1>6, <2>2
  <2> QED
    BY <2>1, <2>2
<1>8. <<>> \in Seq(Talk!Message) /\ Talk!Reads(<<>>, session[t])
  BY EmptyReads
<1>9. keys' \in 0 .. MaxKeys /\ 0 \in 0 .. MaxKeys
  BY <1>1, BoundsAssumption DEF SessionsInv, SessionsTyped
<1> QED
  BY <1>1, <1>2, <1>3, <1>7, <1>8, <1>9, ShowsStep

LEMMA PlanActionStep ==
    ASSUME SessionsInv, NEW t \in Terminals, Talk!PlanAction(t) PROVE SessionsInv'
<1> DEFINE m == Talk!Said(t, "plan", keys + 1)
           next == Append(shown[t], m)
<1>1. /\ Talk!TakesKeys(t) /\ Talk!Press
      /\ shown' = [shown EXCEPT ![t] = next] /\ Talk!Persist(t, next)
      /\ UNCHANGED <<file, up, session, undo, redo, context, asked, sent, got, crashes, visitors, resumed>>
  BY DEF Talk!PlanAction
<1>2. /\ up[t] = "on" /\ stage[t] = "idle" /\ session[t] \in Sessions
      /\ asked[t] = 0 /\ sent[t] = <<>> /\ keys + 1 \in 1 .. MaxKeys /\ keys' \in 0 .. MaxKeys
  BY <1>1, KeyTaken
<1>3. /\ shown[t] \in Seq(Talk!Message) /\ Talk!Reads(shown[t], session[t])
      /\ sent[t] \in Seq(Talk!Message) /\ Talk!Reads(sent[t], session[t])
      /\ undo[t] \in Stacks /\ AllRead(undo[t], session[t])
      /\ redo[t] \in Stacks /\ AllRead(redo[t], session[t])
      /\ sent = [sent EXCEPT ![t] = sent[t]] /\ asked = [asked EXCEPT ![t] = asked[t]]
      /\ undo = [undo EXCEPT ![t] = undo[t]] /\ redo = [redo EXCEPT ![t] = redo[t]]
  BY <1>2, KeepsOwn
<1>4. m \in Talk!Message /\ m.of = session[t] /\ m.kind = "plan"
  BY <1>2 DEF Talk!Said, Talk!Message
<1> HIDE DEF m
<1>5. next \in Seq(Talk!Message) /\ Talk!Reads(next, session[t])
  BY <1>3, <1>4, AppendReads
<1> HIDE DEF next
<1>6. asked[t] \in 0 .. MaxKeys
  BY DEF SessionsInv, SessionsTyped
<1> QED
  BY <1>1, <1>2, <1>3, <1>5, <1>6, ShowsStep

LEMMA CompactStep ==
    ASSUME SessionsInv, NEW t \in Terminals, Talk!Compact(t) PROVE SessionsInv'
<1> DEFINE next == Talk!Trim(shown[t])
           back == Talk!Push(undo[t], shown[t])
<1>1. /\ Talk!TakesKeys(t) /\ Talk!Press
      /\ shown' = [shown EXCEPT ![t] = next] /\ shown'[t] = next /\ Talk!Persist(t, next)
      /\ undo' = [undo EXCEPT ![t] = back] /\ redo' = [redo EXCEPT ![t] = <<>>]
      /\ UNCHANGED <<file, up, session, context, asked, sent, got, crashes, visitors, resumed>>
  BY DEF Talk!Compact, SessionsInv, SessionsTyped
<1>2. /\ up[t] = "on" /\ stage[t] = "idle" /\ asked[t] = 0 /\ sent[t] = <<>> /\ keys' \in 0 .. MaxKeys
  BY <1>1, KeyTaken
<1>3. /\ shown[t] \in Seq(Talk!Message) /\ Talk!Reads(shown[t], session[t])
      /\ sent[t] \in Seq(Talk!Message) /\ Talk!Reads(sent[t], session[t])
      /\ undo[t] \in Stacks /\ AllRead(undo[t], session[t])
      /\ sent = [sent EXCEPT ![t] = sent[t]] /\ asked = [asked EXCEPT ![t] = asked[t]]
  BY <1>2, KeepsOwn
<1>4. next \in Seq(Talk!Message) /\ Talk!Reads(next, session[t])
  BY <1>3, TrimReads, BoundsAssumption DEF Talk!Trim
<1>5. back \in Stacks /\ AllRead(back, session[t])
  BY <1>3, PushReads
<1> HIDE DEF next, back
<1>6. asked[t] \in 0 .. MaxKeys /\ <<>> \in Stacks /\ AllRead(<<>>, session[t])
  BY EmptyReads DEF SessionsInv, SessionsTyped
<1> QED
  BY <1>1, <1>2, <1>3, <1>4, <1>5, <1>6, ShowsStep

LEMMA BackStep ==
    ASSUME SessionsInv, NEW t \in Terminals, Talk!Back(t) PROVE SessionsInv'
<1> DEFINE next == Talk!Top(undo[t])
           less == Talk!Pop(undo[t])
           more == Talk!Push(redo[t], shown[t])
<1>1. /\ Talk!TakesKeys(t) /\ Talk!Press /\ undo[t] # <<>>
      /\ shown' = [shown EXCEPT ![t] = next] /\ shown'[t] = next /\ Talk!Persist(t, next)
      /\ undo' = [undo EXCEPT ![t] = less] /\ redo' = [redo EXCEPT ![t] = more]
      /\ UNCHANGED <<file, up, session, context, asked, sent, got, crashes, visitors, resumed>>
  BY DEF Talk!Back, SessionsInv, SessionsTyped
<1>2. /\ up[t] = "on" /\ stage[t] = "idle" /\ asked[t] = 0 /\ sent[t] = <<>> /\ keys' \in 0 .. MaxKeys
  BY <1>1, KeyTaken
<1>3. /\ shown[t] \in Seq(Talk!Message) /\ Talk!Reads(shown[t], session[t])
      /\ sent[t] \in Seq(Talk!Message) /\ Talk!Reads(sent[t], session[t])
      /\ undo[t] \in Stacks /\ AllRead(undo[t], session[t])
      /\ redo[t] \in Stacks /\ AllRead(redo[t], session[t])
      /\ sent = [sent EXCEPT ![t] = sent[t]] /\ asked = [asked EXCEPT ![t] = asked[t]]
  BY <1>2, KeepsOwn
<1>4. /\ next \in Seq(Talk!Message) /\ Talk!Reads(next, session[t])
      /\ less \in Stacks /\ AllRead(less, session[t])
  BY <1>1, <1>3, PopReads
<1>5. more \in Stacks /\ AllRead(more, session[t])
  BY <1>3, PushReads
<1> HIDE DEF next, less, more
<1>6. asked[t] \in 0 .. MaxKeys
  BY DEF SessionsInv, SessionsTyped
<1> QED
  BY <1>1, <1>2, <1>3, <1>4, <1>5, <1>6, ShowsStep

LEMMA ForthStep ==
    ASSUME SessionsInv, NEW t \in Terminals, Talk!Forth(t) PROVE SessionsInv'
<1> DEFINE next == Talk!Top(redo[t])
           less == Talk!Pop(redo[t])
           more == Talk!Push(undo[t], shown[t])
<1>1. /\ Talk!TakesKeys(t) /\ Talk!Press /\ redo[t] # <<>>
      /\ shown' = [shown EXCEPT ![t] = next] /\ shown'[t] = next /\ Talk!Persist(t, next)
      /\ redo' = [redo EXCEPT ![t] = less] /\ undo' = [undo EXCEPT ![t] = more]
      /\ UNCHANGED <<file, up, session, context, asked, sent, got, crashes, visitors, resumed>>
  BY DEF Talk!Forth, SessionsInv, SessionsTyped
<1>2. /\ up[t] = "on" /\ stage[t] = "idle" /\ asked[t] = 0 /\ sent[t] = <<>> /\ keys' \in 0 .. MaxKeys
  BY <1>1, KeyTaken
<1>3. /\ shown[t] \in Seq(Talk!Message) /\ Talk!Reads(shown[t], session[t])
      /\ sent[t] \in Seq(Talk!Message) /\ Talk!Reads(sent[t], session[t])
      /\ undo[t] \in Stacks /\ AllRead(undo[t], session[t])
      /\ redo[t] \in Stacks /\ AllRead(redo[t], session[t])
      /\ sent = [sent EXCEPT ![t] = sent[t]] /\ asked = [asked EXCEPT ![t] = asked[t]]
  BY <1>2, KeepsOwn
<1>4. /\ next \in Seq(Talk!Message) /\ Talk!Reads(next, session[t])
      /\ less \in Stacks /\ AllRead(less, session[t])
  BY <1>1, <1>3, PopReads
<1>5. more \in Stacks /\ AllRead(more, session[t])
  BY <1>3, PushReads
<1> HIDE DEF next, less, more
<1>6. asked[t] \in 0 .. MaxKeys
  BY DEF SessionsInv, SessionsTyped
<1> QED
  BY <1>1, <1>2, <1>3, <1>4, <1>5, <1>6, ShowsStep

LEMMA AttachStep ==
    ASSUME SessionsInv, NEW t \in Terminals, Talk!Attach(t) PROVE SessionsInv'
<1>1. PICK f \in Files : context' = [context EXCEPT ![t] = @ \cup {f}]
  BY DEF Talk!Attach
<1> DEFINE files == context[t] \cup {f}
<1>2. SessionsTyped /\ Opens(t) /\ Own(t) /\ Stored(t)
  BY DEF SessionsInv
<1>3. /\ context'[t] = files /\ context' \in [Terminals -> SUBSET Files] /\ files \in SUBSET Files
      /\ \A u \in Terminals \ {t} : context'[u] = context[u]
  BY <1>1, <1>2 DEF SessionsTyped
<1>4. /\ patch' = [patch EXCEPT ![t] = <<"context", files>>]
      /\ stage' = [stage EXCEPT ![t] = "change"]
      /\ UNCHANGED <<file, up, session, shown, undo, redo, asked, sent, got, crashes, visitors, resumed>>
  BY <1>3 DEF Talk!Attach, Talk!PersistField
<1>5. up[t] = "on" /\ stage[t] = "idle" /\ keys' \in 0 .. MaxKeys
  BY KeyTaken DEF Talk!Attach
<1>6. <<"context", files>> \in Changes
  BY <1>3 DEF Changes
<1>7. patch'[t] = <<"context", files>> /\ stage'[t] = "change"
  BY <1>2, <1>4 DEF SessionsTyped
<1> HIDE DEF files
<1>8. SessionsTyped'
  <2>1. /\ patch' \in [Terminals -> Changes]
        /\ stage' \in [Terminals -> {"idle", "change", "read", "cut"}]
    BY <1>2, <1>4, <1>6 DEF SessionsTyped
  <2> QED
    BY <1>2, <1>3, <1>4, <1>5, <2>1 DEF SessionsTyped
<1>9. Unmoved(t)
  BY <1>2, <1>3, <1>4 DEF SessionsTyped, Unmoved
<1>10. Opens(t)'
  BY <1>2, <1>4, <1>5 DEF Opens
<1>11. Own(t)'
  BY <1>2, <1>4, <1>7 DEF Own
<1>12. Stored(t)'
  <2> SUFFICES ASSUME visitors[session[t]] = {t}, file[session[t]].state # "torn"
               PROVE  NextMessages(t)' = shown[t] /\ NextContext(t)' = files
    BY <1>3, <1>4, <1>7 DEF Stored
  <2>1. file[session[t]].messages = shown[t]
    BY <1>2, <1>5 DEF Stored, NextMessages, Changing, Base
  <2> QED
    BY <1>4, <1>7, <2>1 DEF NextMessages, NextContext, Changing, Base
<1> QED
  BY <1>4, <1>8, <1>9, <1>10, <1>11, <1>12, TerminalMoves DEF SessionsInv

\* A change of the file begins: the record is read, unless another process cut it off.
LEMMA ReadStep ==
    ASSUME SessionsInv, NEW t \in Terminals, Talk!Read(t) PROVE SessionsInv'
<1>1. /\ up[t] = "on" /\ stage[t] = "change"
      /\ UNCHANGED <<file, session, shown, undo, redo, context, asked, sent, patch, keys,
                     crashes, visitors, resumed>>
  BY DEF Talk!Read
<1>2. SessionsTyped /\ Opens(t) /\ Own(t) /\ Stored(t) /\ session[t] \in Sessions
  BY <1>1 DEF SessionsInv, SessionsTyped, Opens
<1>3. CASE up' = [up EXCEPT ![t] = "dead"] /\ UNCHANGED <<got, stage>>
  <2>1. SessionsTyped' /\ Unmoved(t) /\ up'[t] = "dead"
    BY <1>1, <1>2, <1>3 DEF SessionsTyped, Unmoved
  <2>2. Opens(t)' /\ Own(t)' /\ Stored(t)'
    BY <1>1, <1>2, <1>3, <2>1 DEF Opens, Own, Stored
  <2> QED
    BY <1>1, <2>1, <2>2, TerminalMoves DEF SessionsInv
<1>4. CASE /\ session[t] \notin Talk!Torn
           /\ got' = [got EXCEPT ![t] = file[session[t]]]
           /\ stage' = [stage EXCEPT ![t] = "read"]
           /\ UNCHANGED up
  <2>1. file[session[t]] \in Records /\ file[session[t]].state # "torn"
    BY <1>2, <1>4 DEF SessionsTyped, Talk!Torn, Talk!TornIn
  <2>2. got'[t] = file[session[t]] /\ stage'[t] = "read" /\ Unmoved(t)
    BY <1>1, <1>2, <1>4 DEF SessionsTyped, Unmoved
  <2>3. SessionsTyped'
    BY <1>1, <1>2, <1>4, <2>1 DEF SessionsTyped
  <2>4. Opens(t)'
    BY <1>1, <1>2, <1>4 DEF Opens
  <2>5. Own(t)'
    BY <1>1, <1>2, <1>4, <2>2 DEF Own, SessionsInv
  <2>6. Stored(t)'
    <3>1. Base(t)' = Base(t)
      BY <1>1, <2>2 DEF Base
    <3>2. NextMessages(t)' = NextMessages(t) /\ NextContext(t)' = NextContext(t)
      BY <1>1, <2>2, <3>1 DEF NextMessages, NextContext, Changing
    <3> QED
      BY <1>1, <1>2, <1>4, <2>1, <3>2 DEF Stored
  <2> QED
    BY <1>1, <2>2, <2>3, <2>4, <2>5, <2>6, TerminalMoves DEF SessionsInv
<1> QED
  BY <1>3, <1>4 DEF Talk!Read

\* The file is cut off, the record that was read is still there.
LEMMA TruncateStep ==
    ASSUME SessionsInv, NEW t \in Terminals, Talk!Truncate(t) PROVE SessionsInv'
<1> DEFINE s == session[t]
           none == [Talk!Fresh EXCEPT !.state = "torn"]
<1>1. /\ up[t] = "on" /\ stage[t] = "read"
      /\ file' = [file EXCEPT ![s] = none] /\ stage' = [stage EXCEPT ![t] = "cut"]
      /\ UNCHANGED <<up, session, shown, undo, redo, context, asked, sent, patch, got, keys,
                     crashes, visitors, resumed>>
  BY DEF Talk!Truncate
<1>2. SessionsTyped /\ Opens(t) /\ Own(t) /\ Stored(t) /\ s \in Sessions /\ t \in visitors[s]
  BY <1>1 DEF SessionsInv, SessionsTyped, Opens
<1>3. none \in Records /\ none.messages = <<>> /\ Talk!Reads(none.messages, s)
  BY EmptyReads DEF Talk!Fresh, Records
<1> HIDE DEF none
<1>4. /\ file'[s] = none /\ stage'[t] = "cut"
      /\ \A x \in Sessions \ {s} : file'[x] = file[x]
  BY <1>1, <1>2 DEF SessionsTyped
<1>5. SessionsTyped'
  BY <1>1, <1>2, <1>3 DEF SessionsTyped
<1>6. Unmoved(t)
  BY <1>1, <1>2 DEF SessionsTyped, Unmoved
<1>7. \A x \in Sessions : file'[x] = file[x] \/ t \in visitors[x]
  BY <1>2, <1>4
<1>8. \A x \in Sessions : Talk!Reads(file'[x].messages, x)
  BY <1>3, <1>4 DEF SessionsInv
<1>9. Opens(t)' /\ Own(t)'
  BY <1>1, <1>2, <1>4 DEF Opens, Own
<1>10. Stored(t)'
  <2>1. Base(t)' = got[t] /\ Base(t) = got[t]
    BY <1>1, <1>4 DEF Base
  <2>2. NextMessages(t)' = NextMessages(t) /\ NextContext(t)' = NextContext(t)
    BY <1>1, <1>4, <2>1 DEF NextMessages, NextContext, Changing
  <2> QED
    BY <1>1, <1>2, <2>2 DEF Stored
<1> QED
  BY <1>1, <1>5, <1>6, <1>7, <1>8, <1>9, <1>10, TerminalMoves

\* The record is written with the change in it, and the list of sessions drawn.
LEMMA FillStep ==
    ASSUME SessionsInv, NEW t \in Terminals, Talk!Fill(t) PROVE SessionsInv'
<1> DEFINE s == session[t]
           next == [got[t] EXCEPT ![patch[t][1]] = patch[t][2]]
<1>1. /\ up[t] = "on" /\ stage[t] = "cut"
      /\ file' = [file EXCEPT ![s] = next] /\ stage' = [stage EXCEPT ![t] = "idle"]
      /\ patch' = [patch EXCEPT ![t] = <<"messages", <<>>>>]
      /\ got' = [got EXCEPT ![t] = Talk!Fresh]
      /\ UNCHANGED <<session, shown, undo, redo, context, asked, sent, keys,
                     crashes, visitors, resumed>>
  BY DEF Talk!Fill, Talk!Settle
<1>2. SessionsTyped /\ Opens(t) /\ Own(t) /\ Stored(t) /\ s \in Sessions /\ t \in visitors[s]
  BY <1>1 DEF SessionsInv, SessionsTyped, Opens
<1>3. /\ up' \in [Terminals -> {"off", "on", "left", "dead"}] /\ up'[t] # "off"
      /\ \A u \in Terminals \ {t} : up'[u] = up[u]
  <2>1. PICK how \in {"dead", "on"} : up' = [up EXCEPT ![t] = how]
    BY DEF Talk!Fill, Talk!Drawn
  <2> QED
    BY <1>2, <2>1 DEF SessionsTyped
<1>4. /\ next \in Records /\ Talk!Reads(next.messages, s)
      /\ next.messages = NextMessages(t) /\ next.context = NextContext(t)
  <2>1. got[t] \in Records /\ patch[t] \in Changes /\ Talk!Reads(got[t].messages, s)
    BY <1>1, <1>2 DEF SessionsTyped, Own
  <2>2. CASE patch[t][1] = "messages" /\ patch[t][2] \in Seq(Talk!Message)
    <3>1. /\ next \in Records /\ next.messages = patch[t][2] /\ next.context = got[t].context
      BY <2>1, <2>2 DEF Records
    <3>2. Talk!Reads(patch[t][2], s)
      BY <1>1, <1>2, <2>2 DEF Own
    <3> HIDE DEF next
    <3> QED
      BY <1>1, <2>2, <3>1, <3>2 DEF NextMessages, NextContext, Changing, Base
  <2>3. CASE patch[t][1] = "context" /\ patch[t][2] \in SUBSET Files
    <3>1. /\ next \in Records /\ next.messages = got[t].messages /\ next.context = patch[t][2]
      BY <2>1, <2>3 DEF Records
    <3> HIDE DEF next
    <3> QED
      BY <1>1, <2>1, <2>3, <3>1 DEF NextMessages, NextContext, Changing, Base
  <2> QED
    BY <2>1, <2>2, <2>3 DEF Changes
<1> HIDE DEF next
<1>5. /\ file'[s] = next /\ stage'[t] = "idle"
      /\ \A x \in Sessions \ {s} : file'[x] = file[x]
  BY <1>1, <1>2 DEF SessionsTyped
<1>6. SessionsTyped'
  <2>1. patch' \in [Terminals -> Changes] /\ got' \in [Terminals -> Records]
    BY <1>1, <1>2, EmptyReads DEF SessionsTyped
  <2>2. file' \in [Sessions -> Records] /\ stage' \in [Terminals -> {"idle", "change", "read", "cut"}]
    BY <1>1, <1>2, <1>4 DEF SessionsTyped
  <2> QED
    BY <1>1, <1>2, <1>3, <2>1, <2>2 DEF SessionsTyped
<1>7. Unmoved(t)
  BY <1>1, <1>2, <1>3 DEF SessionsTyped, Unmoved
<1>8. \A x \in Sessions : file'[x] = file[x] \/ t \in visitors[x]
  BY <1>2, <1>5
<1>9. \A x \in Sessions : Talk!Reads(file'[x].messages, x)
  BY <1>4, <1>5 DEF SessionsInv
<1>10. Opens(t)' /\ Own(t)'
  <2>1. Opens(t)'
    BY <1>1, <1>2, <1>3, <1>5 DEF Opens
  <2>2. Own(t)'
    BY <1>1, <1>2, <1>5 DEF Own
  <2> QED
    BY <2>1, <2>2
<1>11. Stored(t)'
  <2>1. NextMessages(t)' = next.messages /\ NextContext(t)' = next.context
    BY <1>1, <1>5 DEF NextMessages, NextContext, Changing, Base
  <2> QED
    BY <1>1, <1>2, <1>4, <2>1 DEF Stored
<1> QED
  BY <1>1, <1>6, <1>7, <1>8, <1>9, <1>10, <1>11, TerminalMoves

\* A session nobody knows is opened, by a terminal that starts or by the command.
LEMMA CreateStep ==
    ASSUME SessionsInv, NEW t \in Terminals, NEW s \in Sessions, Talk!Create(t, s),
           asked[t] = 0, up' = [up EXCEPT ![t] = "on"], keys' \in 0 .. MaxKeys,
           UNCHANGED <<file, asked, sent, crashes>>
    PROVE  SessionsInv'
<1>1. SessionsTyped /\ Opens(t) /\ sent[t] = <<>>
  BY DEF SessionsInv, Opens
<1>2. /\ visitors[s] = {} /\ visitors' = [visitors EXCEPT ![s] = {t}]
      /\ session' = [session EXCEPT ![t] = s] /\ shown' = [shown EXCEPT ![t] = <<>>]
      /\ undo' = [undo EXCEPT ![t] = <<>>] /\ redo' = [redo EXCEPT ![t] = <<>>]
      /\ context' = [context EXCEPT ![t] = {}] /\ resumed' = [resumed EXCEPT ![t] = FALSE]
      /\ patch' = [patch EXCEPT ![t] = <<"messages", <<>>>>]
      /\ got' = [got EXCEPT ![t] = Talk!Fresh] /\ stage' = [stage EXCEPT ![t] = "read"]
  BY DEF Talk!Create
<1>3. /\ session'[t] = s /\ shown'[t] = <<>> /\ undo'[t] = <<>> /\ redo'[t] = <<>>
      /\ context'[t] = {} /\ patch'[t] = <<"messages", <<>>>> /\ got'[t] = Talk!Fresh
      /\ stage'[t] = "read" /\ up'[t] = "on" /\ visitors'[s] = {t}
      /\ \A x \in Sessions \ {s} : visitors'[x] = visitors[x]
  BY <1>1, <1>2 DEF SessionsTyped
<1>4. SessionsTyped'
  <2>1. /\ shown' \in [Terminals -> Seq(Talk!Message)] /\ patch' \in [Terminals -> Changes]
        /\ undo' \in [Terminals -> Stacks] /\ redo' \in [Terminals -> Stacks]
        /\ got' \in [Terminals -> Records]
    BY <1>1, <1>2, EmptyReads DEF SessionsTyped
  <2>2. /\ up' \in [Terminals -> {"off", "on", "left", "dead"}]
        /\ session' \in [Terminals -> Sessions \cup {None}]
        /\ context' \in [Terminals -> SUBSET Files]
        /\ stage' \in [Terminals -> {"idle", "change", "read", "cut"}]
        /\ visitors' \in [Sessions -> SUBSET Terminals] /\ resumed' \in [Terminals -> BOOLEAN]
    BY <1>1, <1>2 DEF SessionsTyped
  <2> QED
    BY <1>1, <2>1, <2>2 DEF SessionsTyped
<1>5. Unmoved(t)
  BY <1>1, <1>2 DEF SessionsTyped, Unmoved
<1>6. \A x \in Sessions : /\ visitors[x] \subseteq visitors'[x]
                          /\ visitors'[x] = visitors[x] \/ t \in visitors'[x]
  BY <1>2, <1>3
<1>7. Opens(t)'
  BY <1>1, <1>3, NamesAssumption DEF Opens
<1>8. Own(t)'
  BY <1>1, <1>3, EmptyReads DEF Own
<1>9. Stored(t)'
  BY <1>3, EmptyReads DEF Stored, NextMessages, NextContext, Changing, Base
<1> QED
  BY <1>4, <1>5, <1>6, <1>7, <1>8, <1>9, TerminalMoves DEF SessionsInv

LEMMA LaunchStep == ASSUME SessionsInv, NEW t \in Terminals, Talk!Launch(t) PROVE SessionsInv'
<1>1. asked[t] = 0 /\ keys' \in 0 .. MaxKeys
  BY DEF Talk!Launch, SessionsInv, SessionsTyped, Opens
<1>2. PICK s \in Sessions : Talk!Create(t, s)
  BY DEF Talk!Launch
<1> QED
  BY <1>1, <1>2, CreateStep DEF Talk!Launch

LEMMA NewStep == ASSUME SessionsInv, NEW t \in Terminals, Talk!New(t) PROVE SessionsInv'
<1>1. up[t] = "on" /\ asked[t] = 0 /\ keys' \in 0 .. MaxKeys
  BY KeyTaken DEF Talk!New
<1>2. PICK s \in Sessions : Talk!Create(t, s)
  BY DEF Talk!New
<1>3. up' = [up EXCEPT ![t] = "on"]
  BY <1>1 DEF Talk!New, SessionsInv, SessionsTyped
<1> QED
  BY <1>1, <1>2, <1>3, CreateStep DEF Talk!New

\* A session of the list is opened, unless some file does not parse.
LEMMA ResumeStep == ASSUME SessionsInv, NEW t \in Terminals, Talk!Resume(t) PROVE SessionsInv'
<1>1. /\ up[t] = "on" /\ stage[t] = "idle" /\ asked[t] = 0 /\ sent[t] = <<>> /\ keys' \in 0 .. MaxKeys
      /\ UNCHANGED <<file, context, asked, sent, stage, patch, got, crashes>>
  BY KeyTaken DEF Talk!Resume
<1>2. SessionsTyped /\ Opens(t)
  BY DEF SessionsInv
<1>3. CASE /\ up' = [up EXCEPT ![t] = "dead"]
           /\ UNCHANGED <<session, shown, undo, redo, visitors, resumed>>
  <2>1. SessionsTyped' /\ Unmoved(t) /\ up'[t] = "dead"
    BY <1>1, <1>2, <1>3 DEF SessionsTyped, Unmoved
  <2>2. Opens(t)' /\ Own(t)' /\ Stored(t)'
    BY <1>1, <1>2, <1>3, <2>1 DEF Opens, Own, Stored
  <2> QED
    BY <1>1, <1>3, <2>1, <2>2, TerminalMoves DEF SessionsInv
<1>4. ASSUME NEW s \in Sessions, s \notin Talk!Torn,
             session' = [session EXCEPT ![t] = s], visitors' = [visitors EXCEPT ![s] = @ \cup {t}],
             shown' = [shown EXCEPT ![t] = file[s].messages],
             undo' = [undo EXCEPT ![t] = <<>>], redo' = [redo EXCEPT ![t] = <<>>],
             resumed' = [resumed EXCEPT ![t] = TRUE], Talk!Drawn(t, file)
      PROVE  SessionsInv'
  <2>1. PICK how \in {"dead", "on"} : up' = [up EXCEPT ![t] = how]
    BY <1>4 DEF Talk!Drawn
  <2>2. file[s] \in Records /\ file[s].messages \in Seq(Talk!Message) /\ Talk!Reads(file[s].messages, s)
    BY <1>2 DEF SessionsTyped, SessionsInv, Records
  <2>3. /\ session'[t] = s /\ shown'[t] = file[s].messages /\ undo'[t] = <<>> /\ redo'[t] = <<>>
        /\ resumed'[t] = TRUE /\ visitors'[s] = visitors[s] \cup {t}
        /\ \A x \in Sessions \ {s} : visitors'[x] = visitors[x]
    BY <1>2, <1>4 DEF SessionsTyped
  <2>4. SessionsTyped'
    <3>1. /\ shown' \in [Terminals -> Seq(Talk!Message)]
          /\ undo' \in [Terminals -> Stacks] /\ redo' \in [Terminals -> Stacks]
      BY <1>2, <1>4, <2>2, EmptyReads DEF SessionsTyped
    <3>2. /\ up' \in [Terminals -> {"off", "on", "left", "dead"}]
          /\ session' \in [Terminals -> Sessions \cup {None}]
          /\ visitors' \in [Sessions -> SUBSET Terminals] /\ resumed' \in [Terminals -> BOOLEAN]
      BY <1>2, <1>4, <2>1 DEF SessionsTyped
    <3> QED
      BY <1>1, <1>2, <3>1, <3>2 DEF SessionsTyped
  <2>5. Unmoved(t)
    BY <1>1, <1>2, <1>4, <2>1 DEF SessionsTyped, Unmoved
  <2>6. \A x \in Sessions : /\ visitors[x] \subseteq visitors'[x]
                            /\ visitors'[x] = visitors[x] \/ t \in visitors'[x]
    BY <2>3
  <2>7. Opens(t)'
    BY <1>1, <1>2, <2>1, <2>3, NamesAssumption DEF Opens, SessionsTyped
  <2>8. Own(t)'
    BY <1>1, <2>2, <2>3, EmptyReads DEF Own
  <2>9. Stored(t)'
    BY <1>1, <2>3 DEF Stored, NextMessages, Changing, Base
  <2> QED
    BY <1>1, <2>4, <2>5, <2>6, <2>7, <2>8, <2>9, TerminalMoves DEF SessionsInv
<1> QED
  BY <1>3, <1>4 DEF Talk!Resume

\* A process that ends keeps nothing in memory.
LEMMA ForgetStep ==
    ASSUME SessionsInv, NEW t \in Terminals, Talk!Forget(t),
           NEW how \in {"left", "dead"}, up' = [up EXCEPT ![t] = how],
           crashes' \in 0 .. MaxCrashes, UNCHANGED <<file, session, keys, visitors, resumed>>
    PROVE  SessionsInv'
<1>1. SessionsTyped
  BY DEF SessionsInv
<1>2. /\ shown' = [shown EXCEPT ![t] = <<>>] /\ sent' = [sent EXCEPT ![t] = <<>>]
      /\ undo' = [undo EXCEPT ![t] = <<>>] /\ redo' = [redo EXCEPT ![t] = <<>>]
      /\ context' = [context EXCEPT ![t] = {}] /\ asked' = [asked EXCEPT ![t] = 0]
      /\ patch' = [patch EXCEPT ![t] = <<"messages", <<>>>>]
      /\ got' = [got EXCEPT ![t] = Talk!Fresh] /\ stage' = [stage EXCEPT ![t] = "idle"]
  BY DEF Talk!Forget, Talk!Settle
<1>3. SessionsTyped'
  <2>1. /\ shown' \in [Terminals -> Seq(Talk!Message)] /\ sent' \in [Terminals -> Seq(Talk!Message)]
        /\ undo' \in [Terminals -> Stacks] /\ redo' \in [Terminals -> Stacks]
        /\ patch' \in [Terminals -> Changes] /\ got' \in [Terminals -> Records]
    BY <1>1, <1>2, EmptyReads DEF SessionsTyped
  <2>2. /\ up' \in [Terminals -> {"off", "on", "left", "dead"}]
        /\ context' \in [Terminals -> SUBSET Files]
        /\ stage' \in [Terminals -> {"idle", "change", "read", "cut"}]
        /\ asked' \in [Terminals -> 0 .. MaxKeys]
    BY <1>1, <1>2, BoundsAssumption DEF SessionsTyped
  <2> QED
    BY <1>1, <2>1, <2>2 DEF SessionsTyped
<1>4. Unmoved(t)
  BY <1>1, <1>2 DEF SessionsTyped, Unmoved
<1>5. up'[t] = how /\ sent'[t] = <<>> /\ stage'[t] = "idle" /\ asked'[t] = 0
  BY <1>1, <1>2 DEF SessionsTyped
<1>6. Opens(t)' /\ Own(t)' /\ Stored(t)'
  BY <1>5 DEF Opens, Own, Stored
<1> QED
  BY <1>3, <1>4, <1>6, TerminalMoves DEF SessionsInv

LEMMA ExitStep == ASSUME SessionsInv, NEW t \in Terminals, Talk!Exit(t) PROVE SessionsInv'
<1>1. crashes' \in 0 .. MaxCrashes
  BY DEF Talk!Exit, SessionsInv, SessionsTyped
<1> QED
  BY <1>1, ForgetStep DEF Talk!Exit

LEMMA KillStep == ASSUME SessionsInv, NEW t \in Terminals, Talk!Kill(t) PROVE SessionsInv'
<1>1. crashes' \in 0 .. MaxCrashes
  BY BoundsAssumption DEF Talk!Kill, SessionsInv, SessionsTyped
<1> QED
  BY <1>1, ForgetStep DEF Talk!Kill

LEMMA SessionsStep == ASSUME SessionsInv, [Talk!Next]_(Talk!vars) PROVE SessionsInv'
<1>1. CASE UNCHANGED Talk!vars
  BY <1>1 DEF Talk!vars, SessionsInv, SessionsTyped, Opens, Own, Stored, NextMessages,
              NextContext, Changing, Base
<1>2. CASE Talk!Next
  BY <1>2, ReadStep, TruncateStep, FillStep, ReplyStep, LaunchStep, NewStep, SendMessageStep,
     PlanActionStep, CompactStep, BackStep, ForthStep, AttachStep, ResumeStep, ExitStep, KillStep
     DEF Talk!Next, Talk!Step
<1> QED
  BY <1>1, <1>2

\* No terminal is on at first, or t1 shows the exchange that its session has on disk.
LEMMA SessionsStart == ASSUME SessionsInit \/ SessionsRest PROVE SessionsInv
<1>1. CASE SessionsRest
  <2> USE <1>1 DEF SessionsRest, Talk!Init
  <2>1. file \in [Sessions -> Records] /\ \A s \in Sessions : file[s].messages = <<>>
    BY EmptyReads DEF Talk!Fresh, Records
  <2>2. SessionsTyped
    <3>1. /\ shown \in [Terminals -> Seq(Talk!Message)] /\ sent \in [Terminals -> Seq(Talk!Message)]
          /\ undo \in [Terminals -> Stacks] /\ redo \in [Terminals -> Stacks]
          /\ patch \in [Terminals -> Changes] /\ got \in [Terminals -> Records]
      BY EmptyReads
    <3>2. /\ up \in [Terminals -> {"off", "on", "left", "dead"}]
          /\ session \in [Terminals -> Sessions \cup {None}]
          /\ context \in [Terminals -> SUBSET Files] /\ asked \in [Terminals -> 0 .. MaxKeys]
          /\ stage \in [Terminals -> {"idle", "change", "read", "cut"}]
          /\ keys \in 0 .. MaxKeys /\ crashes \in 0 .. MaxCrashes
          /\ visitors \in [Sessions -> SUBSET Terminals] /\ resumed \in [Terminals -> BOOLEAN]
      BY BoundsAssumption
    <3> QED
      BY <2>1, <3>1, <3>2 DEF SessionsTyped
  <2>3. \A s \in Sessions : Talk!Reads(file[s].messages, s)
    BY <2>1, EmptyReads
  <2>4. \A t \in Terminals : Opens(t) /\ Own(t) /\ Stored(t)
    BY DEF Opens, Own, Stored
  <2> QED
    BY <2>2, <2>3, <2>4 DEF SessionsInv
<1>2. CASE SessionsInit
  <2>1. PICK second \in {"off", "on"} :
          LET on(t) == t = t1 \/ second = "on"
              works(t) == IF t = t1 THEN s1 ELSE s2
          IN
          /\ file = [s \in Sessions |->
                       [Talk!Fresh EXCEPT !.state = IF s = s1 \/ second = "on" THEN "whole" ELSE "none",
                                          !.messages = IF s = s1 THEN Exchange ELSE <<>>]]
          /\ up = [t \in Terminals |-> IF on(t) THEN "on" ELSE "off"]
          /\ session = [t \in Terminals |-> IF on(t) THEN works(t) ELSE None]
          /\ visitors = [s \in Sessions |-> {t \in Terminals : on(t) /\ works(t) = s}]
    BY <1>2 DEF SessionsInit
  <2>2. /\ shown = [t \in Terminals |-> IF t = t1 THEN Exchange ELSE <<>>]
        /\ undo = [t \in Terminals |-> IF t = t1 THEN <<<<>>>> ELSE <<>>]
        /\ redo = [t \in Terminals |-> <<>>] /\ context = [t \in Terminals |-> {}]
        /\ asked = [t \in Terminals |-> 0] /\ sent = [t \in Terminals |-> <<>>]
        /\ stage = [t \in Terminals |-> "idle"]
        /\ patch = [t \in Terminals |-> <<"messages", <<>>>>]
        /\ got = [t \in Terminals |-> Talk!Fresh] /\ keys = 1 /\ crashes = 0
        /\ resumed = [t \in Terminals |-> FALSE]
    BY <1>2 DEF SessionsInit
  <2>3. Exchange \in Seq(Talk!Message) /\ Talk!Reads(Exchange, s1)
    <3>1. /\ [of |-> s1, kind |-> "question", ask |-> 1] \in Talk!Message
          /\ [of |-> s1, kind |-> "answer", ask |-> 1] \in Talk!Message
      BY BoundsAssumption, NamesAssumption DEF Talk!Message
    <3> QED
      BY <3>1 DEF Exchange, Talk!Reads
  <2>4. <<<<>>>> \in Stacks /\ AllRead(<<<<>>>>, s1)
    BY EmptyReads, BoundsAssumption DEF Stacks, AllRead
  <2>5. ASSUME NEW s \in Sessions
        PROVE  /\ file[s] \in Records /\ file[s].context = {}
               /\ file[s].messages = IF s = s1 THEN Exchange ELSE <<>>
    BY <2>1, <2>3, EmptyReads DEF Talk!Fresh, Records
  <2>6. SessionsTyped
    <3>1. /\ shown \in [Terminals -> Seq(Talk!Message)] /\ sent \in [Terminals -> Seq(Talk!Message)]
          /\ undo \in [Terminals -> Stacks] /\ redo \in [Terminals -> Stacks]
          /\ patch \in [Terminals -> Changes] /\ got \in [Terminals -> Records]
      BY <2>2, <2>3, <2>4, EmptyReads
    <3>2. file \in [Sessions -> Records]
      BY <2>1, <2>5
    <3>3. /\ up \in [Terminals -> {"off", "on", "left", "dead"}]
          /\ session \in [Terminals -> Sessions \cup {None}]
          /\ visitors \in [Sessions -> SUBSET Terminals]
      BY <2>1, NamesAssumption
    <3> QED
      BY <2>2, <3>1, <3>2, <3>3, BoundsAssumption DEF SessionsTyped
  <2>7. \A s \in Sessions : Talk!Reads(file[s].messages, s)
    BY <2>3, <2>5, EmptyReads
  <2>8. ASSUME NEW t \in Terminals PROVE Opens(t) /\ Own(t) /\ Stored(t)
    <3>1. /\ up[t] = "on" => session[t] = IF t = t1 THEN s1 ELSE s2
          /\ up[t] = "on" => session[t] # None /\ t \in visitors[session[t]]
      BY <2>1, NamesAssumption
    <3>2. Opens(t)
      BY <2>2, <3>1 DEF Opens
    <3>3. Own(t)
      BY <2>2, <2>3, <2>4, <3>1, EmptyReads DEF Own
    <3>4. Stored(t)
      BY <2>2, <2>5, <3>1, NamesAssumption DEF Stored, NextMessages, NextContext, Changing, Base
    <3> QED
      BY <3>2, <3>3, <3>4
  <2> QED
    BY <2>6, <2>7, <2>8 DEF SessionsInv
<1> QED
  BY <1>1, <1>2

\* What the invariant says of the sessions.
LEMMA SessionsTell ==
    ASSUME SessionsInv PROVE Talk!TypeOK /\ Talk!SessionsStayApart /\ Talk!ShownIsStored
<1>1. SessionsTyped
  BY DEF SessionsInv
<1>2. Talk!TypeOK
  <2>1. \A s \in Sessions : /\ file[s].state \in {"none", "torn", "whole"}
                            /\ file[s].messages \in Seq(Talk!Message)
                            /\ file[s].context \subseteq Files
    BY <1>1 DEF SessionsTyped, Records
  <2>2. \A t \in Terminals :
            /\ shown[t] \in Seq(Talk!Message) /\ sent[t] \in Seq(Talk!Message)
            /\ undo[t] \in Seq(Seq(Talk!Message)) /\ Len(undo[t]) <= Undoable
            /\ redo[t] \in Seq(Seq(Talk!Message)) /\ Len(redo[t]) <= Undoable
    BY <1>1 DEF SessionsTyped, Stacks
  <2>3. \A t \in Terminals :
            /\ up[t] = "on" => session[t] # None /\ t \in visitors[session[t]]
            /\ stage[t] # "idle" => session[t] # None
    BY DEF SessionsInv, Opens
  <2> QED
    BY <1>1, <2>1, <2>2, <2>3 DEF SessionsTyped, Talk!TypeOK
<1>3. Talk!SessionsStayApart
  <2> SUFFICES ASSUME NEW t \in Terminals, up[t] = "on", NEW ms \in Talk!Transcripts(t)
               PROVE  Talk!Reads(ms, session[t])
    BY DEF Talk!SessionsStayApart, SessionsInv
  <2>1. Own(t)
    BY DEF SessionsInv
  <2> QED
    BY <2>1 DEF Own, AllRead, Talk!Transcripts
<1>4. Talk!ShownIsStored
  <2> SUFFICES ASSUME NEW t \in Terminals, up[t] = "on", stage[t] = "idle",
                      visitors[session[t]] = {t}, session[t] \notin Talk!Torn
               PROVE  /\ file[session[t]].messages = shown[t]
                      /\ ~resumed[t] => file[session[t]].context = context[t]
    BY DEF Talk!ShownIsStored
  <2>1. Stored(t) /\ session[t] \in Sessions
    BY <1>1 DEF SessionsInv, SessionsTyped, Opens
  <2>2. file[session[t]].state # "torn"
    BY <2>1 DEF Talk!Torn, Talk!TornIn
  <2> QED
    BY <2>1, <2>2 DEF Stored, NextMessages, NextContext, Changing, Base
<1> QED
  BY <1>2, <1>3, <1>4

---------------------------------------------------------------------------
(***************************************************************************)
(* The parts together: one moves, the others rest.                         *)
(***************************************************************************)
LEMMA DeskStart == ASSUME MCInit PROVE DeskInv
<1>1. SessionsInit \/ SessionsRest
  BY DEF MCInit
<1>2. Keys!Init /\ Store!Init /\ Bundle!Init /\ Publish!Init
  BY DEF MCInit, ScreensRest, PublishRest
<1>3. part \in Parts
  BY DEF MCInit
<1> QED
  BY <1>1, <1>2, <1>3, SessionsStart, ScreensStart, StoreStart, BundleStart,
         PublishStart DEF DeskInv

\* Every step is one of one part, or of none.
LEMMA OnePartMoves ==
    ASSUME [MCNext]_allvars
    PROVE  /\ [Talk!Next]_(Talk!vars) /\ [Keys!Next]_(Keys!vars) /\ [Store!Next]_(Store!vars)
           /\ [Bundle!Next]_(Bundle!vars) /\ [Publish!Next]_(Publish!vars)
           /\ part' = part
  BY DEF MCNext, allvars, sessionVars, screenVars, providerVars, bundleVars, publishVars,
         Talk!vars, Keys!vars, Store!vars, Bundle!vars, Publish!vars

LEMMA DeskStep == ASSUME DeskInv, [MCNext]_allvars PROVE DeskInv'
  BY OnePartMoves, SessionsStep, ScreensStep, StoreStep, BundleStep, PublishStep DEF DeskInv

LEMMA DeskHolds == MCSpec => []DeskInv
  BY DeskStart, DeskStep, PTL DEF MCSpec

(***************************************************************************)
(* Every variable keeps its type: session files hold transcripts, the      *)
(* stacks to undo and redo stay within their limit, provider files hold    *)
(* entries and the release directory the files of a build.                 *)
(***************************************************************************)
THEOREM DeskIsTyped == MCSpec => []TypeOK
<1>1. ASSUME DeskInv PROVE TypeOK
  <2>1. Talk!TypeOK
    BY <1>1, SessionsTell DEF DeskInv
  <2>2. Keys!TypeOK /\ Store!TypeOK /\ Bundle!TypeOK /\ Publish!TypeOK
    BY <1>1 DEF DeskInv, ScreensInv, StoreInv, BundleInv, BundleTyped,
                PublishInv, PublishTyped
  <2>3. part \in Parts
    BY <1>1 DEF DeskInv
  <2> HIDE DEF Talk!TypeOK, Keys!TypeOK, Store!TypeOK, Bundle!TypeOK, Publish!TypeOK
  <2> QED
    BY <2>1, <2>2, <2>3 DEF TypeOK, Parts
<1> QED
  BY <1>1, DeskHolds, PTL

(***************************************************************************)
(* However many terminals open, undo, compact, resume and lose sessions,   *)
(* a message stays in the session it was written in and an answer behind   *)
(* its question, and what the only terminal of a session shows is what its *)
(* file holds: reading, cutting off and writing the file lose nothing.     *)
(***************************************************************************)
THEOREM TalksStayApart == MCSpec => []SessionsStayApart
<1>1. ASSUME DeskInv PROVE SessionsStayApart
  BY <1>1, SessionsTell DEF DeskInv, SessionsStayApart
<1> QED
  BY <1>1, DeskHolds, PTL

(***************************************************************************)
(* The same of the component from its own first state, where no session    *)
(* exists and every terminal is still to start.                            *)
(***************************************************************************)
THEOREM TalksStartApart == Talk!Spec => [](Talk!SessionsStayApart /\ Talk!ShownIsStored)
<1>1. Talk!Init => SessionsInv
  BY SessionsStart DEF SessionsRest
<1>2. SessionsInv /\ [Talk!Next]_(Talk!vars) => SessionsInv'
  BY SessionsStep
<1>3. SessionsInv => Talk!SessionsStayApart /\ Talk!ShownIsStored
  BY SessionsTell
<1> QED
  BY <1>1, <1>2, <1>3, PTL DEF Talk!Spec

(***************************************************************************)
(* Whatever keys lead through the screens of the terminal interface, an    *)
(* API key goes to the provider that was announced when it was asked for,  *)
(* and Enter picks an option that is there; only in the list of sessions,  *)
(* filtered by a query and grown shorter since the selection was set, it   *)
(* may find none, which ends the program.                                  *)
(***************************************************************************)
THEOREM KeysReachTheirTarget == MCSpec => []KeysFindTheirTarget
<1>1. ASSUME DeskInv PROVE KeysFindTheirTarget
  BY <1>1 DEF DeskInv, ScreensInv, KeysFindTheirTarget
<1> QED
  BY <1>1, DeskHolds, PTL

(***************************************************************************)
(* What a connect or disconnect that ran alone left of a provider in the   *)
(* configuration and the credentials stays there until a command on that   *)
(* provider begins, though commands on others rewrite both files whole; it *)
(* is in both or in neither, and a key is there only with the base URL it  *)
(* came with.                                                              *)
(***************************************************************************)
THEOREM ProvidersStaySettled == MCSpec => []SettledStays
<1>1. ASSUME DeskInv PROVE SettledStays
  BY <1>1 DEF DeskInv, StoreInv, Settled, SettledStays, Store!SettledStays
<1> QED
  BY <1>1, DeskHolds, PTL

(***************************************************************************)
(* verify-bundle accepts only what the build that ended last recorded, and *)
(* accepts what a build that ran alone and without a fault left.           *)
(***************************************************************************)
THEOREM VerifyIsTruthful == MCSpec => []VerifyTells
<1>1. ASSUME DeskInv PROVE VerifyTells
  BY <1>1, BundleTells DEF DeskInv, VerifyTells
<1> QED
  BY <1>1, DeskHolds, PTL

(***************************************************************************)
(* When the release gate passes, the tree is clean and sound and that of   *)
(* the local tag, the Release workflow succeeded for the tag at the        *)
(* origin, and this is the commit checked out unless somebody moved the    *)
(* local tag after it was pushed or the script of PowerShell went on after *)
(* the origin had refused it; and a tag at the origin is never moved.      *)
(***************************************************************************)
THEOREM ReleasesAreWhole == MCSpec => ReleaseIsWhole
<1>1. ASSUME DeskInv, [MCNext]_allvars
      PROVE  [Publish!PublishesWhole /\ Publish!KeepsTag]_publishVars
  BY <1>1, OnePartMoves, StepIsWhole DEF DeskInv
<1> QED
  BY <1>1, DeskHolds, PTL DEF MCSpec, ReleaseIsWhole

=============================================================================
