----------------------------- MODULE McpSession -----------------------------
(***************************************************************************)
(* McpStdioExecutor: one `mcp call`, one `mcp session`, or one approved    *)
(* action of an MCP adapter.  Every step is checked, a server process is   *)
(* spawned, a handshake and the steps go over its stdin and stdout one at  *)
(* a time, and what came of it is recorded before it is reported.          *)
(*                                                                         *)
(* The actions are the callbacks of the event loop of Node.js, each run to *)
(* its end, and the steps of the server.  A data callback handles all the  *)
(* messages of its chunk before any other callback: inbox holds those left.*)
(***************************************************************************)
EXTENDS Naturals, Sequences, FiniteSets

CONSTANTS MaxSteps,  \* bound: steps of a session
          MaxNoise,  \* bound: messages nobody asked for
          MaxFaults, \* bound: errors while the records are written
          MayDie,    \* the server may die of its own accord
          Held       \* something else keeps the event loop of the process alive

VARIABLES
    call,     \* what is asked for: see Calls
    phase,    \* how far the executor is
    prepared, \* the steps it has checked
    child,    \* the server process
    signalled,\* it was sent SIGTERM
    asked,    \* the requests it was sent and has not answered
    pipe,     \* its stdout
    noise,    \* messages nobody asked for, so far
    inbox,    \* the messages of the chunk the data callback is at
    started,  \* initializeResponse is there
    active,   \* the step that was asked, 0 for none
    answers,  \* the answers taken for the steps: stepResponses
    timer,    \* the timeout
    fallback, \* killFallback is armed
    released, \* releaseProcessHandles: streams destroyed, the child unref'd
    timedOut,
    failure,  \* the parser threw
    settled,  \* the promise is resolved
    broken,   \* stdin reports EPIPE, and has no listener for errors
    noted,    \* the stream held more than responses
    records,  \* what was written about the call, and
    lines,    \* the status of each audit line of it
    faults,
    outcome

server  == <<child, asked, pipe, noise>>
promise == <<timer, fallback, settled>>
stream  == <<started, active, answers, noted>>
report  == <<records, lines, faults, outcome>>
vars == <<call, phase, prepared, child, signalled, asked, pipe, noise, inbox,
          started, active, answers, timer, fallback, released, timedOut, failure,
          settled, broken, noted, records, lines, faults, outcome>>

\* What validateCallPlan says of a step: go, ask a human first, or never.
Gates == {"ok", "approval", "blocked"}
Calls == [kind : {"call"}, gates : [1 .. 1 -> Gates], approved : BOOLEAN, job : BOOLEAN]
           \cup [kind : {"session"}, gates : UNION {[1 .. n -> Gates] : n \in 1 .. MaxSteps},
                 approved : {FALSE}, job : BOOLEAN]

Steps  == Len(call.gates)
Phases == {"preparing", "running", "audit", "verdict", "done", "gone"}

\* A result, one that fails its scoped postcondition (astray), a result that
\* says isError, a JSON-RPC error.
Replies  == {"ok", "astray", "toolError", "error"}
\* The answer to initialize has id 0 here, that to step i has id i.  For the
\* properties only: inTurn, the request was made when the server answered it.
Messages == [kind : {"answer"}, id : 0 .. MaxSteps, reply : Replies, inTurn : BOOLEAN]
              \cup [kind : {"note", "garbage"}]
Outcomes == {"none", "refused", "completed", "timeout", "frame", "failed",
             "incomplete", "blocked", "spawn", "thrown"}

Init ==
    /\ call \in Calls
    /\ phase = "preparing" /\ prepared = 0
    /\ child = "none" /\ signalled = FALSE /\ asked = {} /\ pipe = <<>> /\ noise = 0
    /\ inbox = <<>> /\ started = FALSE /\ active = 0 /\ answers = <<>>
    /\ timer = "off" /\ fallback = FALSE /\ released = FALSE
    /\ timedOut = FALSE /\ failure = FALSE /\ settled = FALSE /\ broken = FALSE
    /\ noted = FALSE /\ records = {} /\ lines = <<>> /\ faults = 0 /\ outcome = "none"

\* An approved action may do what a direct call or a session may not.
MayGo(i) == \/ call.gates[i] = "ok"
            \/ call.gates[i] = "approval" /\ call.approved

\* One step is checked, after the wait of the rate limiter.
Prepare ==
    /\ phase = "preparing" /\ prepared < Steps
    /\ IF MayGo(prepared + 1)
       THEN prepared' = prepared + 1 /\ UNCHANGED <<phase, outcome>>
       ELSE phase' = "done" /\ outcome' = "refused" /\ UNCHANGED prepared
    /\ UNCHANGED <<call, signalled, server, inbox, stream, promise, released, timedOut,
                   failure, broken, records, lines, faults>>

Spawn ==
    /\ phase = "preparing" /\ prepared = Steps
    /\ phase' = "running" /\ child' = "up" /\ asked' = {0} /\ timer' = "armed"
    /\ UNCHANGED <<call, prepared, signalled, pipe, noise, inbox, stream, fallback, settled,
                   released, timedOut, failure, broken, report>>

\* The 'error' event of the child: the promise is rejected, nothing recorded.
SpawnError ==
    /\ phase = "preparing" /\ prepared = Steps
    /\ phase' = "done" /\ outcome' = "spawn" /\ settled' = TRUE
    /\ UNCHANGED <<call, prepared, signalled, server, inbox, stream, timer, fallback,
                   released, timedOut, failure, broken, records, lines, faults>>

---------------------------------------------------------------------------
(* The server answers what it was asked, says more than that, or dies.     *)

Puts(m) == /\ child = "up" /\ phase # "gone"
           /\ pipe' = IF released THEN pipe ELSE Append(pipe, m)
           /\ UNCHANGED <<call, phase, prepared, child, signalled, inbox, stream, promise,
                          released, timedOut, failure, broken, report>>

Answer == \E id \in asked, r \in Replies :
             /\ Puts([kind |-> "answer", id |-> id, reply |-> r, inTurn |-> TRUE])
             /\ asked' = asked \ {id} /\ UNCHANGED noise

\* A notification, a frame that does not parse, an answer said twice, or to a
\* step that has not been asked yet.
Noise == /\ noise < MaxNoise /\ noise' = noise + 1 /\ UNCHANGED asked
         /\ \/ Puts([kind |-> "note"])
            \/ Puts([kind |-> "garbage"])
            \/ \E id \in (0 .. Steps) \ asked :
                  Puts([kind |-> "answer", id |-> id, reply |-> "ok", inTurn |-> id =< active])

Die == /\ child = "up" /\ (MayDie \/ signalled)
       /\ child' = "dead" /\ asked' = {}
       /\ UNCHANGED <<call, phase, prepared, signalled, pipe, noise, inbox, stream, promise,
                      released, timedOut, failure, broken, report>>

---------------------------------------------------------------------------
(* The callbacks of the event loop.                                        *)

\* The loop is between two callbacks.
Turn == phase = "running" /\ inbox = <<>> /\ ~broken

Frees == /\ released' = TRUE /\ pipe' = <<>>
         /\ signalled' = (signalled \/ child = "up")

Resolves == /\ settled' = TRUE
            /\ timer' = "off" /\ fallback' = FALSE

Fails(reply) == \/ reply = "error"
                \/ reply = "toolError" /\ call.kind = "session"

\* A chunk of stdout; the messages before a bad frame of the chunk are lost.
Data ==
    /\ Turn /\ ~released /\ ~settled /\ pipe # <<>>
    /\ \E k \in 1 .. Len(pipe) :
         LET chunk == SubSeq(pipe, 1, k)
         IN  IF \E i \in 1 .. k : chunk[i].kind = "garbage"
             THEN /\ failure' = TRUE
                  /\ Frees /\ Resolves
                  /\ UNCHANGED inbox
             ELSE /\ inbox' = chunk
                  /\ pipe' = SubSeq(pipe, k + 1, Len(pipe))
                  /\ UNCHANGED <<failure, signalled, released, promise>>
    /\ UNCHANGED <<call, phase, prepared, child, asked, noise, stream, timedOut, broken, report>>

\* writeFrame: a dead server may be found out by an EPIPE on its stdin.
Writes(i) ==
    /\ active' = i
    /\ IF child = "up" THEN asked' = asked \cup {i} /\ UNCHANGED broken
       ELSE UNCHANGED asked /\ broken' \in BOOLEAN
    /\ UNCHANGED <<pipe, signalled, released, promise>>

Finishes == /\ active' = 0
            /\ Frees /\ Resolves
            /\ UNCHANGED <<asked, broken>>

\* finishIfReady: a call is over once both answers are there, whichever came
\* first; the answer to the step at hand ends a session or leads to the next.
Accepts(m) ==
    /\ answers' = Append(answers, [id |-> m.id, reply |-> m.reply, inTurn |-> m.inTurn])
    /\ UNCHANGED started
    /\ IF call.kind = "call" /\ ~started
       THEN UNCHANGED <<active, asked, pipe, signalled, released, promise, broken>>
       ELSE IF Fails(m.reply) \/ active = Steps THEN Finishes ELSE Writes(active + 1)

\* The answer to initialize: the first step is asked, be it answered or not.
Greets(m) == ~started /\ m.kind = "answer" /\ m.id = 0

Greeted ==
    /\ started' = TRUE /\ UNCHANGED answers
    /\ IF answers = <<>> THEN Writes(1)
       ELSE /\ active' = 0 /\ Frees /\ Resolves
            /\ asked' = IF child = "up" THEN asked \cup {1} ELSE asked
            /\ UNCHANGED broken

\* Mutant: any answer will do for the step at hand.
ExpectedAny(m) == m.kind = "answer" /\ m.id # 0 /\ active # 0

\* A session takes the answer to the step at hand, a call the first with the id
\* of its request, asked or not.
Expected(m) ==
    /\ m.kind = "answer"
    /\ IF call.kind = "call" THEN m.id = 1 /\ answers = <<>>
       ELSE active # 0 /\ m.id = active

Handle ==
    /\ inbox # <<>> /\ inbox' = Tail(inbox)
    /\ LET m == Head(inbox)
       IN  /\ noted' = (noted \/ m.kind = "note")
           /\ \/ Greets(m) /\ Greeted
              \/ Expected(m) /\ Accepts(m)
              \/ /\ ~Greets(m) /\ ~Expected(m)
                 /\ UNCHANGED <<started, active, answers, asked, pipe, signalled, released,
                                promise, broken>>
    /\ UNCHANGED <<call, phase, prepared, child, noise, timedOut, failure, report>>

\* Mutant: the timeout kills the server and leaves the rest to its 'close' event.
TimeoutTrusting ==
    /\ Turn /\ timer = "armed"
    /\ timedOut' = TRUE /\ timer' = "off"
    /\ Frees
    /\ UNCHANGED <<call, phase, prepared, child, asked, noise, inbox, stream, settled,
                   fallback, failure, broken, report>>

Timeout ==
    /\ Turn /\ timer = "armed"
    /\ timedOut' = TRUE /\ timer' = "off" /\ fallback' = TRUE
    /\ Frees
    /\ UNCHANGED <<call, phase, prepared, child, asked, noise, inbox, stream, settled,
                   failure, broken, report>>

KillFallback ==
    /\ Turn /\ fallback
    /\ Resolves
    /\ UNCHANGED <<call, phase, prepared, signalled, server, inbox, stream, released,
                   timedOut, failure, broken, report>>

\* The 'close' event: the process is gone and its streams are at their end.
Close ==
    /\ Turn /\ ~settled /\ child = "dead" /\ (pipe = <<>> \/ released)
    /\ Resolves
    /\ UNCHANGED <<call, phase, prepared, signalled, server, inbox, stream, released,
                   timedOut, failure, broken, report>>

\* Nothing keeps the loop: both timers are off or unref'd, so is the child.
Drain ==
    /\ Turn /\ ~Held /\ ~settled /\ released /\ timer = "off"
    /\ phase' = "gone"
    /\ UNCHANGED <<call, prepared, signalled, server, inbox, stream, promise, released,
                   timedOut, failure, broken, report>>

\* An error event nobody listens to ends the process.
Uncaught ==
    /\ broken /\ inbox = <<>> /\ phase = "running"
    /\ phase' = "gone"
    /\ UNCHANGED <<call, prepared, signalled, server, inbox, stream, promise, released,
                   timedOut, failure, broken, report>>

---------------------------------------------------------------------------
(* What follows the await in executeCall and executeSession.               *)

Reporting(from, to) ==
    /\ phase = from /\ phase' = to
    /\ UNCHANGED <<call, prepared, signalled, server, inbox, stream, promise, released,
                   timedOut, failure, broken>>

WriteEvidence == /\ settled /\ inbox = <<>> /\ ~broken
                 /\ Reporting("running", "audit")
                 /\ records' = records \cup {"evidence"}
                 /\ UNCHANGED <<lines, faults, outcome>>

\* What the audit says of step i.  The scoped postcondition of a call is only
\* evaluated when it came to an end; a session logs a result that says isError
\* as completed.
Status(i) ==
    IF i > Len(answers) \/ answers[i].reply = "error" THEN "error"
    ELSE IF answers[i].reply = "astray" /\ (call.kind = "session" \/ ~(timedOut \/ failure))
    THEN "blocked" ELSE "completed"

\* One line for a call, and one for each answered step of a session.
Due == IF call.kind = "call" THEN 1 ELSE Len(answers)

WriteAudit == /\ Len(lines) < Due
              /\ Reporting("audit", "audit")
              /\ lines' = Append(lines, Status(Len(lines) + 1))
              /\ UNCHANGED <<records, faults, outcome>>

WriteTimeline == /\ Len(lines) = Due
                 /\ Reporting("audit", "verdict")
                 /\ records' = IF call.job /\ noted THEN records \cup {"timeline"} ELSE records
                 /\ UNCHANGED <<lines, faults, outcome>>

\* A record cannot be written: the error of the store is the error of the call.
Throw == /\ faults < MaxFaults /\ faults' = faults + 1
         /\ settled /\ inbox = <<>> /\ ~broken
         /\ \E from \in {"running", "audit"} : Reporting(from, "done")
         /\ outcome' = "thrown" /\ UNCHANGED <<records, lines>>

Failed == \/ \E i \in 1 .. Len(answers) : Fails(answers[i].reply)
          \/ call.kind = "call" /\ answers = <<>>

Verdict == IF timedOut THEN "timeout"
           ELSE IF failure THEN "frame"
           ELSE IF Failed THEN "failed"
           ELSE IF Len(answers) # Steps THEN "incomplete"
           ELSE IF \E i \in 1 .. Len(answers) : answers[i].reply = "astray" THEN "blocked"
           ELSE "completed"

Conclude == /\ Reporting("verdict", "done")
            /\ outcome' = Verdict
            /\ UNCHANGED <<records, lines, faults>>

Executor == \/ Prepare \/ Spawn \/ Data \/ Handle \/ Timeout \/ KillFallback \/ Close
            \/ Uncaught \/ WriteEvidence \/ WriteAudit \/ WriteTimeline \/ Conclude

Next == Executor \/ SpawnError \/ Answer \/ Noise \/ Die \/ Drain \/ Throw

\* The executor goes on whatever the server does; nothing is assumed of the server.
Spec == Init /\ [][Next]_vars /\ WF_vars(Executor)

---------------------------------------------------------------------------

\* The state of the call keeps its types.
TypeOK ==
    /\ call \in Calls /\ phase \in Phases /\ prepared \in 0 .. MaxSteps
    /\ child \in {"none", "up", "dead"} /\ signalled \in BOOLEAN
    /\ asked \subseteq 0 .. MaxSteps /\ pipe \in Seq(Messages) /\ noise \in 0 .. MaxNoise
    /\ inbox \in Seq(Messages) /\ started \in BOOLEAN /\ active \in 0 .. Steps
    /\ answers \in Seq([id : 1 .. MaxSteps, reply : Replies, inTurn : BOOLEAN])
    /\ timer \in {"off", "armed"} /\ fallback \in BOOLEAN /\ released \in BOOLEAN
    /\ timedOut \in BOOLEAN /\ failure \in BOOLEAN /\ settled \in BOOLEAN
    /\ broken \in BOOLEAN /\ noted \in BOOLEAN
    /\ records \subseteq {"evidence", "timeline"}
    /\ lines \in Seq({"completed", "error", "blocked"})
    /\ faults \in 0 .. MaxFaults /\ outcome \in Outcomes

\* No server runs before every step of the request has passed its checks: a
\* session is refused as a whole (executeSession, prepareSessionSteps).
CheckedBeforeSpawn ==
    child # "none" => \A i \in 1 .. Steps :
        call.gates[i] = "ok" \/ (call.gates[i] = "approval" /\ call.approved)

\* Steps go out in order, and none before those ahead of it have an answer of
\* their own that did not fail, whatever the server adds, repeats or chunks.
\* They go out one at a time to a server that answers what it was asked: the
\* id is all that ties an answer to its step, so one that comes too early in
\* the right place of a chunk counts, and the next step follows at once
\* (sendNextStep, the data callbacks).
Lockstep ==
    /\ \A i \in 1 .. Len(answers) : answers[i].id = i
    /\ \A i \in asked \ {0} :
          /\ started /\ Len(answers) >= i - 1
          /\ \A j \in 1 .. i - 1 : ~Fails(answers[j].reply)
    /\ (\A i \in 1 .. Len(answers) : answers[i].inTurn) => Cardinality(asked) =< 1

\* Nothing is asked unchecked or out of order: both of the above.
AskedInOrder == CheckedBeforeSpawn /\ Lockstep

\* A call that completed has a good answer for each step, its evidence and an
\* audit line that says so of each; it asked every step, unless the server
\* answered a single call before it was asked.  An error other than one of the
\* store or of the spawn has its evidence too, and a line of the audit but for
\* a session that had no answer; a failure is a line, unless it is a result of
\* a session that says isError (executeCall, executeSession).
OutcomeIsRecorded ==
    /\ outcome \notin {"none", "refused", "spawn", "thrown"} =>
          "evidence" \in records /\ (lines # <<>> \/ (call.kind = "session" /\ answers = <<>>))
    /\ outcome = "completed" =>
          /\ Len(answers) = Steps /\ Len(lines) = Steps /\ ~timedOut /\ ~failure
          /\ \A i \in 1 .. Steps : /\ answers[i].reply # "astray" /\ ~Fails(answers[i].reply)
                                   /\ lines[i] = "completed"
          /\ started \/ (call.kind = "call" /\ ~answers[1].inTurn)
    /\ outcome = "failed" =>
          \/ \E i \in 1 .. Len(lines) : lines[i] = "error"
          \/ call.kind = "session" /\ \E i \in 1 .. Len(answers) : answers[i].reply = "toolError"

\* When the call is over, its server is dead or was told to end (killProcessTree).
NoServerLeft == phase = "done" /\ child = "up" => signalled

\* A server that was spawned leads to a report: a silent server to a timeout,
\* a late or repeated answer to no second one (the timeout and killFallback).
CallEnds == (phase = "running") ~> (phase \in {"done", "gone"})

\* A process that ran a server does not end without the evidence of the call.
EndsRecorded == phase = "gone" => "evidence" \in records
=============================================================================
