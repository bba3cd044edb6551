----------------------------- MODULE TuiSession -----------------------------
(***************************************************************************)
(* The chat sessions of the terminal interface: several terminals on the   *)
(* directory of session files.  A terminal shows a transcript, keeps the   *)
(* earlier ones to undo, has at most one request to a provider under way   *)
(* and stores every change in the file of its session, which it reads,     *)
(* changes and writes whole (truncation and content are two steps of the   *)
(* operating system).  A message is what tells it from others: the session *)
(* it was written in, its kind and the number of its question; the system  *)
(* prompt, mode, provider, model and title travel in the same record and   *)
(* are left out.                                                           *)
(***************************************************************************)
EXTENDS Naturals, Sequences, FiniteSets

CONSTANTS
    Terminals, Sessions, Files,
    None,
    Kept,           \* how many messages trimMessages leaves
    Undoable,       \* how many transcripts can be undone
    MaxKeys,        \* bound: the keys taken in all terminals
    MaxCrashes      \* bound: terminals killed

VARIABLES
    file,       \* the file of a session: its state and the record in it
    up,         \* "off", "on", "left" or "dead"
    session,    \* the session a terminal works on
    shown, undo, redo,
    context,    \* the files attached to every question
    asked,      \* the question a terminal waits for, 0 when it takes keys
    sent,       \* the transcript that went with it
    stage,      \* how far a change of the file has come
    patch,      \* the change: a field and its value
    got,        \* the record read before it
    keys, crashes,
    visitors,   \* the terminals that ever opened a session
    resumed     \* whether a terminal's session was opened from the list

vars == <<file, up, session, shown, undo, redo, context, asked, sent, stage, patch,
          got, keys, crashes, visitors, resumed>>

Message == [of : Sessions, kind : {"question", "answer", "error", "plan"}, ask : 1 .. MaxKeys]
Fresh == [state |-> "whole", messages |-> <<>>, context |-> {}]

TypeOK ==
    /\ \A s \in Sessions : /\ file[s].state \in {"none", "torn", "whole"}
                           /\ file[s].messages \in Seq(Message)
                           /\ file[s].context \subseteq Files
    /\ up \in [Terminals -> {"off", "on", "left", "dead"}]
    /\ session \in [Terminals -> Sessions \cup {None}]
    /\ \A t \in Terminals :
           /\ shown[t] \in Seq(Message) /\ sent[t] \in Seq(Message)
           /\ undo[t] \in Seq(Seq(Message)) /\ Len(undo[t]) <= Undoable
           /\ redo[t] \in Seq(Seq(Message)) /\ Len(redo[t]) <= Undoable
           /\ up[t] = "on" => session[t] # None /\ t \in visitors[session[t]]
           /\ stage[t] # "idle" => session[t] # None
    /\ context \in [Terminals -> SUBSET Files]
    /\ asked \in [Terminals -> 0 .. MaxKeys]
    /\ stage \in [Terminals -> {"idle", "change", "read", "cut"}]
    /\ keys \in 0 .. MaxKeys /\ crashes \in 0 .. MaxCrashes

Init ==
    /\ file = [s \in Sessions |-> [Fresh EXCEPT !.state = "none"]]
    /\ up = [t \in Terminals |-> "off"]
    /\ session = [t \in Terminals |-> None]
    /\ shown = [t \in Terminals |-> <<>>]
    /\ undo = [t \in Terminals |-> <<>>]
    /\ redo = [t \in Terminals |-> <<>>]
    /\ context = [t \in Terminals |-> {}]
    /\ asked = [t \in Terminals |-> 0]
    /\ sent = [t \in Terminals |-> <<>>]
    /\ stage = [t \in Terminals |-> "idle"]
    /\ patch = [t \in Terminals |-> <<"messages", <<>>>>]
    /\ got = [t \in Terminals |-> Fresh]
    /\ keys = 0 /\ crashes = 0
    /\ visitors = [s \in Sessions |-> {}]
    /\ resumed = [t \in Terminals |-> FALSE]

(***************************************************************************)
(* The store.                                                              *)
(***************************************************************************)
Newest(seq, n) == IF Len(seq) <= n THEN seq ELSE SubSeq(seq, Len(seq) - n + 1, Len(seq))
Trim(messages) == Newest(messages, Kept)

TornIn(files) == {s \in Sessions : files[s].state = "torn"}
Torn == TornIn(file)

\* persistSession: the change waits for the updater of the session state to run.
PersistField(t, field, value) ==
    /\ patch' = [patch EXCEPT ![t] = <<field, value>>]
    /\ stage' = [stage EXCEPT ![t] = "change"]
Persist(t, messages) == PersistField(t, "messages", messages)

\* create: a record nobody else knows is written under a new name.
Create(t, s) ==
    /\ file[s].state = "none" /\ visitors[s] = {}
    /\ session' = [session EXCEPT ![t] = s]
    /\ visitors' = [visitors EXCEPT ![s] = {t}]
    /\ shown' = [shown EXCEPT ![t] = <<>>]
    /\ undo' = [undo EXCEPT ![t] = <<>>]
    /\ redo' = [redo EXCEPT ![t] = <<>>]
    /\ context' = [context EXCEPT ![t] = {}]
    /\ resumed' = [resumed EXCEPT ![t] = FALSE]
    /\ patch' = [patch EXCEPT ![t] = <<"messages", <<>>>>]
    /\ got' = [got EXCEPT ![t] = Fresh]
    /\ stage' = [stage EXCEPT ![t] = "read"]

Settle(t) ==
    /\ patch' = [patch EXCEPT ![t] = <<"messages", <<>>>>]
    /\ got' = [got EXCEPT ![t] = Fresh]

\* The list of sessions is read again at every drawing of the screen, without a
\* handler for a file that does not parse.
Drawn(t, files) ==
    up' = [up EXCEPT ![t] = IF TornIn(files) # {} THEN "dead" ELSE "on"]

Read(t) ==
    /\ up[t] = "on" /\ stage[t] = "change"
    /\ IF session[t] \in Torn
         THEN /\ up' = [up EXCEPT ![t] = "dead"]
              /\ UNCHANGED <<got, stage>>
         ELSE /\ got' = [got EXCEPT ![t] = file[session[t]]]
              /\ stage' = [stage EXCEPT ![t] = "read"]
              /\ UNCHANGED up
    /\ UNCHANGED <<file, session, shown, undo, redo, context, asked, sent, patch, keys,
                   crashes, visitors, resumed>>

Truncate(t) ==
    /\ up[t] = "on" /\ stage[t] = "read"
    /\ file' = [file EXCEPT ![session[t]] = [Fresh EXCEPT !.state = "torn"]]
    /\ stage' = [stage EXCEPT ![t] = "cut"]
    /\ UNCHANGED <<up, session, shown, undo, redo, context, asked, sent, patch, got, keys,
                   crashes, visitors, resumed>>

Fill(t) ==
    /\ up[t] = "on" /\ stage[t] = "cut"
    /\ file' = [file EXCEPT ![session[t]] = [got[t] EXCEPT ![patch[t][1]] = patch[t][2]]]
    /\ stage' = [stage EXCEPT ![t] = "idle"]
    /\ Settle(t)
    /\ Drawn(t, file')
    /\ UNCHANGED <<session, shown, undo, redo, context, asked, sent, keys,
                   crashes, visitors, resumed>>

(***************************************************************************)
(* The keys.  While a request is under way none is taken.                  *)
(***************************************************************************)
Press == keys < MaxKeys /\ keys' = keys + 1
TakesKeysAlways(t) == up[t] = "on" /\ stage[t] = "idle"
TakesKeys(t) == up[t] = "on" /\ stage[t] = "idle" /\ asked[t] = 0

Launch(t) ==
    /\ up[t] = "off" /\ stage[t] = "idle"
    /\ up' = [up EXCEPT ![t] = "on"]
    /\ \E s \in Sessions : Create(t, s)
    /\ UNCHANGED <<file, asked, sent, keys, crashes>>

New(t) ==
    /\ TakesKeys(t) /\ Press
    /\ \E s \in Sessions : Create(t, s)
    /\ UNCHANGED <<file, up, asked, sent, crashes>>

PushEndless(stack, messages) == Append(stack, messages)
Push(stack, messages) == Newest(Append(stack, messages), Undoable)
Pop(stack) == SubSeq(stack, 1, Len(stack) - 1)
Top(stack) == stack[Len(stack)]

Said(t, kind, ask) == [of |-> session[t], kind |-> kind, ask |-> ask]

SendMessage(t) ==
    /\ TakesKeys(t) /\ Press
    /\ LET next == Trim(Append(shown[t], Said(t, "question", keys + 1)))
       IN /\ shown' = [shown EXCEPT ![t] = next]
          /\ sent' = [sent EXCEPT ![t] = next]
          /\ Persist(t, next)
    /\ undo' = [undo EXCEPT ![t] = Push(@, shown[t])]
    /\ redo' = [redo EXCEPT ![t] = <<>>]
    /\ asked' = [asked EXCEPT ![t] = keys + 1]
    /\ UNCHANGED <<file, up, session, context, got, crashes, visitors, resumed>>

\* The provider answers, or fails, or does not answer in time; the text of a
\* failure joins the transcript without trimming it.
Reply(t) ==
    /\ up[t] = "on" /\ stage[t] = "idle" /\ asked[t] # 0
    /\ \E final \in {Trim(Append(sent[t], Said(t, "answer", asked[t]))),
                     Append(sent[t], Said(t, "error", asked[t]))} :
           /\ shown' = [shown EXCEPT ![t] = final]
           /\ Persist(t, final)
    /\ asked' = [asked EXCEPT ![t] = 0]
    /\ sent' = [sent EXCEPT ![t] = <<>>]
    /\ UNCHANGED <<file, up, session, undo, redo, context, got, keys, crashes, visitors, resumed>>

PlanAction(t) ==
    /\ TakesKeys(t) /\ Press
    /\ LET next == Append(shown[t], Said(t, "plan", keys + 1))
       IN shown' = [shown EXCEPT ![t] = next] /\ Persist(t, next)
    /\ UNCHANGED <<file, up, session, undo, redo, context, asked, sent, got, crashes, visitors, resumed>>

Compact(t) ==
    /\ TakesKeys(t) /\ Press
    /\ undo' = [undo EXCEPT ![t] = Push(@, shown[t])]
    /\ redo' = [redo EXCEPT ![t] = <<>>]
    /\ shown' = [shown EXCEPT ![t] = Trim(@)]
    /\ Persist(t, shown'[t])
    /\ UNCHANGED <<file, up, session, context, asked, sent, got, crashes, visitors, resumed>>

\* Undo and redo: the top of one stack is shown, what was shown goes on the other.
Back(t) ==
    /\ TakesKeys(t) /\ Press /\ undo[t] # <<>>
    /\ shown' = [shown EXCEPT ![t] = Top(undo[t])]
    /\ undo' = [undo EXCEPT ![t] = Pop(@)]
    /\ redo' = [redo EXCEPT ![t] = Push(@, shown[t])]
    /\ Persist(t, shown'[t])
    /\ UNCHANGED <<file, up, session, context, asked, sent, got, crashes, visitors, resumed>>

Forth(t) ==
    /\ TakesKeys(t) /\ Press /\ redo[t] # <<>>
    /\ shown' = [shown EXCEPT ![t] = Top(redo[t])]
    /\ redo' = [redo EXCEPT ![t] = Pop(@)]
    /\ undo' = [undo EXCEPT ![t] = Push(@, shown[t])]
    /\ Persist(t, shown'[t])
    /\ UNCHANGED <<file, up, session, context, asked, sent, got, crashes, visitors, resumed>>

Attach(t) ==
    /\ TakesKeys(t) /\ Press
    /\ \E f \in Files : context' = [context EXCEPT ![t] = @ \cup {f}]
    /\ PersistField(t, "context", context'[t])
    /\ UNCHANGED <<file, up, session, shown, undo, redo, asked, sent, got, crashes, visitors, resumed>>

\* A session of the list is opened; the files attached so far stay attached.
Resume(t) ==
    /\ TakesKeys(t) /\ Press
    /\ \E s \in Sessions :
           /\ file[s].state # "none"
           /\ IF s \in Torn
                THEN /\ up' = [up EXCEPT ![t] = "dead"]
                     /\ UNCHANGED <<session, shown, undo, redo, visitors, resumed>>
                ELSE /\ session' = [session EXCEPT ![t] = s]
                     /\ visitors' = [visitors EXCEPT ![s] = @ \cup {t}]
                     /\ shown' = [shown EXCEPT ![t] = file[s].messages]
                     /\ undo' = [undo EXCEPT ![t] = <<>>]
                     /\ redo' = [redo EXCEPT ![t] = <<>>]
                     /\ resumed' = [resumed EXCEPT ![t] = TRUE]
                     /\ Drawn(t, file)
    /\ UNCHANGED <<file, context, asked, sent, stage, patch, got, crashes>>

\* A process that ended keeps nothing in memory.
Forget(t) ==
    /\ Settle(t)
    /\ shown' = [shown EXCEPT ![t] = <<>>] /\ sent' = [sent EXCEPT ![t] = <<>>]
    /\ undo' = [undo EXCEPT ![t] = <<>>] /\ redo' = [redo EXCEPT ![t] = <<>>]
    /\ context' = [context EXCEPT ![t] = {}]
    /\ stage' = [stage EXCEPT ![t] = "idle"]
    /\ asked' = [asked EXCEPT ![t] = 0]

Exit(t) ==
    /\ TakesKeys(t)
    /\ up' = [up EXCEPT ![t] = "left"]
    /\ Forget(t)
    /\ UNCHANGED <<file, session, keys, crashes, visitors, resumed>>

Kill(t) ==
    /\ up[t] = "on" /\ crashes < MaxCrashes
    /\ up' = [up EXCEPT ![t] = "dead"]
    /\ crashes' = crashes + 1
    /\ Forget(t)
    /\ UNCHANGED <<file, session, keys, visitors, resumed>>

Step(t) == Read(t) \/ Truncate(t) \/ Fill(t) \/ Reply(t)

Next ==
    \E t \in Terminals :
        \/ Step(t) \/ Launch(t) \/ New(t) \/ SendMessage(t) \/ PlanAction(t) \/ Compact(t)
        \/ Back(t) \/ Forth(t) \/ Attach(t) \/ Resume(t) \/ Exit(t) \/ Kill(t)

Spec == Init /\ [][Next]_vars

(***************************************************************************)
(* What holds.                                                             *)
(***************************************************************************)
Transcripts(t) ==
    {shown[t], sent[t]} \cup {undo[t][i] : i \in DOMAIN undo[t]} \cup {redo[t][i] : i \in DOMAIN redo[t]}

\* A transcript reads as it was written: messages of one session, and every answer
\* behind the question it answers unless trimming took the question away.
Reads(messages, s) ==
    \A i \in DOMAIN messages :
        /\ messages[i].of = s
        /\ messages[i].kind \in {"answer", "error"} /\ i > 1 =>
               messages[i - 1] = [of |-> s, kind |-> "question", ask |-> messages[i].ask]

\* No message of one session is shown, undone to, sent or stored in another, whatever
\* terminals open, undo, resume and answer: an answer that arrives late goes to the
\* session and behind the question it was asked in (the keys wait for it).
SessionsStayApart ==
    /\ \A s \in Sessions : Reads(file[s].messages, s)
    /\ \A t \in Terminals : up[t] = "on" => \A ms \in Transcripts(t) : Reads(ms, session[t])

\* A session that only one terminal ever opened is on disk as it is shown whenever the
\* terminal waits for a key or an answer, through undo, redo, compaction and failures,
\* and so are the files attached to it, unless it was opened from the list of sessions:
\* then the files of the session before are still attached.
ShownIsStored ==
    \A t \in Terminals :
        up[t] = "on" /\ stage[t] = "idle" /\ visitors[session[t]] = {t} /\ session[t] \notin Torn =>
            /\ file[session[t]].messages = shown[t]
            /\ ~resumed[t] => file[session[t]].context = context[t]
=============================================================================
