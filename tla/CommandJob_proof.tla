------------------------- MODULE CommandJob_proof ---------------------------
(***************************************************************************)
(* What the commands with a job of their own guarantee, for every number   *)
(* of processes and people, every number of decisions and of faults: the   *)
(* job row and the words of a hunt are true, and the events of a job are   *)
(* in order.                                                               *)
(***************************************************************************)
EXTENDS MCJobs, Sequences, FiniteSetTheorems, TLAPS

-----------------------------------------------------------------------------
(***************************************************************************)
(* The statements.  What remains of a script keeps these shapes while it   *)
(* gets shorter: only notes follow the statement that settles the job, and *)
(* each kind of command has its own words.                                 *)
(***************************************************************************)
Settling == {"completed", "verdict", "sum", "paused", "catch"}
Asking   == {"propose", "plan", "planOrPause"}
Working  == {"work", "call"}
Failing  == {"miss", "missed", "fail", "failed"}
Carrying == {"execute", "mark", "marked"} \cup Failing
Hunting  == {"tool", "sum"} \cup Carrying
Aside    == {"paused", "catch"} \* in place of the rest
Plain    == {"create", "save", "running", "note"}

Words == Settling \cup Asking \cup Working \cup Hunting \cup Plain

Holds(s, words) == \E i \in DOMAIN s : s[i] \in words

Closes(s) == \A i, k \in DOMAIN s : s[i] \in Settling /\ i < k => s[k] = "note"

\* A command that waits for approvals asks once; it settles by the verdict
\* where it goes on after a plan that has to wait.
AsksOnce(s) ==
    /\ \A i, k \in DOMAIN s : s[i] \in Asking /\ s[k] \in Asking => i = k
    /\ Holds(s, {"propose", "plan"}) => ~Holds(s, {"completed"})

\* Who gives a verdict has asked before.
AsksFirst(s) == Holds(s, {"verdict"}) => Holds(s, Asking)

OfHunt(s) ==
    /\ ~Holds(s, Asking \cup Working \cup Aside \cup {"completed", "verdict"})
    /\ \A i, k \in DOMAIN s : s[k] = "running" /\ i < k => s[i] = "create"
    /\ \A i \in DOMAIN s : s[i] \in Carrying \cup {"create"} => i = 1

OfMcp(s) ==
    /\ ~Holds(s, Words \ {"create", "running", "call", "completed", "catch"})
    /\ \A i, k \in DOMAIN s : s[k] = "running" /\ i < k => s[i] = "create"
    /\ \A i \in DOMAIN s : s[i] = "create" => i = 1
    /\ Holds(s, {"create"}) => Holds(s, {"running"})

Shape(k, s) ==
    /\ s \in Seq(Words)
    /\ Closes(s)
    /\ IF k = "recon" THEN OfHunt(s) ELSE ~Holds(s, Hunting)
    /\ IF k \in Job!Mcp THEN OfMcp(s) ELSE ~Holds(s, {"catch"})
    /\ k \in Job!Strict => AsksOnce(s)

Scripted(k) == /\ Shape(k, Job!Scripts[k]) /\ AsksFirst(Job!Scripts[k])
               /\ Holds(Job!Scripts[k], Settling)
               /\ ~Holds(Job!Scripts[k], Carrying \cup Aside)

LEMMA KindsAre ==
    Job!Kinds = {"crawlElsewhere", "browser", "desktop", "toolsRun", "reproduce", "crawl", "check",
                 "js", "research", "agentRun", "agentPlan", "mcpCall", "mcpSession", "evidence",
                 "recon", "playbook", "playbookLive"}
  BY DEF Job!Kinds, Job!Scripts

LEMMA ScriptsHaveShape == \A k \in Job!Kinds : Scripted(k)
<1> USE DEF Scripted, Shape, Closes, Holds, AsksFirst, AsksOnce, OfHunt, OfMcp, Settling, Asking,
            Working, Hunting, Carrying, Failing, Aside, Words, Plain, Job!Mcp, Job!Strict
<1>1. Scripted("crawlElsewhere")
  <2>1. Job!Scripts["crawlElsewhere"] = Job!CrawlElsewhere
    BY DEF Job!Scripts
  <2> QED
    BY <2>1, KindsAre DEF Job!CrawlElsewhere
<1>2. Scripted("browser")
  <2>1. Job!Scripts["browser"] = Job!Browser
    BY DEF Job!Scripts
  <2> QED
    BY <2>1, KindsAre DEF Job!Browser
<1>3. Scripted("desktop")
  <2>1. Job!Scripts["desktop"] = Job!Desktop
    BY DEF Job!Scripts
  <2> QED
    BY <2>1, KindsAre DEF Job!Desktop
<1>4. Scripted("toolsRun")
  <2>1. Job!Scripts["toolsRun"] = Job!ToolsRun
    BY DEF Job!Scripts
  <2> QED
    BY <2>1, KindsAre DEF Job!ToolsRun
<1>5. Scripted("reproduce")
  <2>1. Job!Scripts["reproduce"] = Job!Reproduce
    BY DEF Job!Scripts
  <2> QED
    BY <2>1, KindsAre DEF Job!Reproduce
<1>6. Scripted("crawl")
  <2>1. Job!Scripts["crawl"] = Job!Crawl
    BY DEF Job!Scripts
  <2> QED
    BY <2>1, KindsAre DEF Job!Crawl
<1>7. Scripted("check")
  <2>1. Job!Scripts["check"] = Job!Check
    BY DEF Job!Scripts
  <2> QED
    BY <2>1, KindsAre DEF Job!Check
<1>8. Scripted("js")
  <2>1. Job!Scripts["js"] = Job!Javascript
    BY DEF Job!Scripts
  <2> QED
    BY <2>1, KindsAre DEF Job!Javascript
<1>9. Scripted("research")
  <2>1. Job!Scripts["research"] = Job!Research
    BY DEF Job!Scripts
  <2> QED
    BY <2>1, KindsAre DEF Job!Research
<1>10. Scripted("agentRun")
  <2>1. Job!Scripts["agentRun"] = Job!AgentRun
    BY DEF Job!Scripts
  <2> QED
    BY <2>1, KindsAre DEF Job!AgentRun
<1>11. Scripted("agentPlan")
  <2>1. Job!Scripts["agentPlan"] = Job!AgentPlan
    BY DEF Job!Scripts
  <2> QED
    BY <2>1, KindsAre DEF Job!AgentPlan
<1>12. Scripted("mcpCall")
  <2>1. Job!Scripts["mcpCall"] = Job!McpCall
    BY DEF Job!Scripts
  <2> QED
    BY <2>1, KindsAre DEF Job!McpCall
<1>13. Scripted("mcpSession")
  <2>1. Job!Scripts["mcpSession"] = Job!McpSessionOf
    BY DEF Job!Scripts
  <2> QED
    BY <2>1, KindsAre DEF Job!McpSessionOf
<1>14. Scripted("evidence")
  <2>1. Job!Scripts["evidence"] = Job!EvidenceRecord
    BY DEF Job!Scripts
  <2> QED
    BY <2>1, KindsAre DEF Job!EvidenceRecord
<1>15. Scripted("recon")
  <2>1. Job!Scripts["recon"] = Job!HuntRecon
    BY DEF Job!Scripts
  <2> QED
    BY <2>1, KindsAre DEF Job!HuntRecon
<1>16. Scripted("playbook")
  <2>1. Job!Scripts["playbook"] = Job!HuntPlaybook
    BY DEF Job!Scripts
  <2> QED
    BY <2>1, KindsAre DEF Job!HuntPlaybook
<1>17. Scripted("playbookLive")
  <2>1. Job!Scripts["playbookLive"] = Job!HuntPlaybookLive
    BY DEF Job!Scripts
  <2> QED
    BY <2>1, KindsAre DEF Job!HuntPlaybookLive
<1> HIDE DEF Scripted
<1> QED
  BY <1>1, <1>2, <1>3, <1>4, <1>5, <1>6, <1>7, <1>8, <1>9, <1>10, <1>11, <1>12, <1>13, <1>14,
     <1>15, <1>16, <1>17, KindsAre

-----------------------------------------------------------------------------
(***************************************************************************)
(* The inductive invariant.                                                *)
(***************************************************************************)
RowStatuses == {"pending", "approved", "blocked", "failed", "executed"}
Outcomes    == {"skipped", "blocked", "pending", "planned", "executed", "failed"}
Ends        == {"no", "returned", "refused", "threw", "stopped"}
Closed    == {"completed", "paused", "failed"}

Notes  == [job : Commands, number : Nat, status : Job!Statuses \cup RowStatuses]
EventRows == [job : Commands, number : Nat, by : Commands \cup People,
           status : Job!Statuses \cup RowStatuses, order : Nat]
Choices == [job : Commands, action : Nat, from : {"pending", "approved"}, to : RowStatuses]

Types ==
    /\ kind \in [Commands -> Job!Kinds] /\ job \in [Commands -> Job!Statuses \cup {"none"}]
    /\ script \in [Commands -> Seq(Words)] /\ ended \in [Commands -> Ends]
    /\ rows \in [Commands -> Seq(RowStatuses)] /\ verdicts \in [Commands -> Seq(Job!Verdicts)]
    /\ results \in [Commands -> Seq(Outcomes)] /\ lost \in [Commands -> BOOLEAN]
    /\ saved \in [Commands -> Nat]
    /\ noting \in [Commands \cup People -> Notes \cup {Nothing}]
    /\ written \subseteq EventRows /\ IsFiniteSet(written)
    /\ deciding \in [People -> Choices \cup {Nothing}] /\ decided \in [Commands -> Nat]
    /\ overtaken \subseteq Commands \X Nat /\ stops \in 0 .. MaxStops

\* A person decided about an action of p.
Blamed(p) == decided[p] > 0

\* Why a tool or the job of p may have failed.
Harmed(p) == lost[p] \/ stops > 0 \/ Blamed(p)

Got(p, v) == Holds(verdicts[p], {v})

\* Where the command is, and what the job says of it.
Course(p) ==
    /\ Len(rows[p]) = Len(verdicts[p])
    /\ Shape(kind[p], script[p])
    /\ ended[p] # "no" => script[p] = <<>>
    /\ job[p] \in Closed => \A i \in DOMAIN script[p] : script[p][i] = "note"
    /\ ended[p] = "no" => job[p] \in Closed \/ Holds(script[p], Settling)
    /\ ended[p] \in {"returned", "refused"} => job[p] \in Closed
    /\ Holds(script[p], {"verdict"}) => rows[p] # <<>> \/ Holds(script[p], Asking)
    /\ kind[p] \in Job!Mcp /\ ended[p] = "threw" => job[p] = "failed" \/ stops > 0
    /\ kind[p] \in Job!Mcp /\ ended[p] = "no" =>
          job[p] \in Closed \cup {"running"} \/ Holds(script[p], {"running"})

Saves(s) == Cardinality({i \in DOMAIN s : s[i] = "save"})

\* What is saved, and what will be where the command goes on to its end.
Saving(p) ==
    /\ saved[p] + Saves(script[p]) =< Job!Artifacts(p)
    /\ ended[p] = "no" /\ job[p] \notin {"paused", "failed"} /\ ~Holds(script[p], Aside) =>
          saved[p] + Saves(script[p]) = Job!Artifacts(p)
    /\ job[p] = "completed" => saved[p] = Job!Artifacts(p)

\* Why it failed or paused.
Reasons(p) ==
    /\ lost[p] /\ kind[p] # "recon" =>
          (ended[p] # "no" \/ Holds(script[p], {"catch"})) /\ job[p] # "completed"
    /\ Holds(script[p], {"catch"}) => lost[p] \/ stops > 0
    /\ job[p] = "failed" => Harmed(p) \/ Got(p, "block")
    /\ job[p] = "paused" => kind[p] = "recon" \/ Got(p, "require")
    /\ Holds(script[p], {"paused"}) => Got(p, "require")

\* What waits for approvals does not go on without them.
Waiting(p) == kind[p] \in Job!Strict =>
    /\ Len(verdicts[p]) =< 1
    /\ Holds(script[p], Asking) => verdicts[p] = <<>>
    /\ Got(p, "require") \/ Got(p, "block") =>
          job[p] # "completed" /\ ~Holds(script[p], {"completed"})

Carries(p) == script[p] # <<>> /\ Head(script[p]) \in Carrying

Executed(s) == {i \in DOMAIN s : s[i] = "executed"}

\* The rows that are executed or that changed under an update.
Marks(p) == {i \in DOMAIN rows[p] : rows[p][i] = "executed" \/ <<p, i>> \in overtaken}

\* Those without the one the hunt is at.
Behind(p) == {i \in Marks(p) : ~(Carries(p) /\ i = Len(rows[p]))}

\* A hunt, its tools and what it says of them.
Hunt(p) == kind[p] = "recon" =>
    /\ Holds(script[p], {"create"}) => job[p] = "none"
    /\ Carries(p) => rows[p] # <<>> /\ (rows[p][Len(rows[p])] = "approved" \/ Blamed(p))
    /\ Carries(p) /\ Head(script[p]) \in Failing => Harmed(p)
    /\ Holds(script[p], Hunting) => job[p] = "running" \/ Holds(script[p], {"running"})
    /\ results[p] # <<>> => ~Holds(script[p], {"running"})
    /\ Job!Said(p, {"failed"}) => job[p] \in {"running", "failed"} /\ Harmed(p)
    /\ ended[p] = "threw" => stops > 0 \/ Blamed(p)
    /\ Cardinality(Executed(results[p])) =< Cardinality(Behind(p))

Path(p) == Course(p) /\ Saving(p) /\ Reasons(p) /\ Waiting(p) /\ Hunt(p)

EventsOf(p) == {e \in written : e.job = p}

\* The last event of a job has the largest number; where no two processes
\* noted at once, it is how many there are.
Numbered(p) ==
    /\ EventsOf(p) # {} => \E e \in EventsOf(p) : \A f \in EventsOf(p) : f.number =< e.number
    /\ p \notin shared =>
          /\ \A e \in EventsOf(p) : e.number = e.order /\ e.number =< Cardinality(EventsOf(p))
          /\ EventsOf(p) # {} => \E e \in EventsOf(p) : e.number = Cardinality(EventsOf(p))
          /\ \A e, f \in EventsOf(p) : e.number = f.number => e = f

Noted(x) == noting[x] # Nothing =>
    /\ \A e \in EventsOf(noting[x].job) : e.by = x => e.number < noting[x].number
    /\ noting[x].job \notin shared =>
          /\ noting[x].number = Cardinality(EventsOf(noting[x].job)) + 1
          /\ \A y \in DOMAIN noting \ {x} : noting[y] # Nothing => noting[y].job # noting[x].job

Numbering == /\ \A p \in Commands : Numbered(p)
             /\ \A x \in Commands \cup People : Noted(x)
             /\ \A e, f \in written : e.job = f.job /\ e.number = f.number /\ e # f => e.by # f.by

IInv == Types /\ (\A p \in Commands : Path(p)) /\ Numbering

-----------------------------------------------------------------------------
(***************************************************************************)
(* Scripts that get shorter, or longer by one statement at their head.     *)
(***************************************************************************)
LEMMA TailIs ==
    ASSUME NEW S, NEW s \in Seq(S), s # <<>>
    PROVE  /\ Tail(s) \in Seq(S) /\ Len(Tail(s)) = Len(s) - 1 /\ Head(s) = s[1] /\ Head(s) \in S
           /\ 1 \in DOMAIN s /\ DOMAIN s = 1 .. Len(s) /\ Len(s) \in Nat
           /\ DOMAIN Tail(s) = 1 .. (Len(s) - 1)
           /\ \A i \in DOMAIN Tail(s) : i + 1 \in DOMAIN s /\ Tail(s)[i] = s[i + 1]
           /\ \A i \in DOMAIN s : i # 1 => i - 1 \in DOMAIN Tail(s) /\ Tail(s)[i - 1] = s[i]
  OBVIOUS

LEMMA PushIs ==
    ASSUME NEW S, NEW s \in Seq(S), NEW w \in S
    PROVE  LET t == <<w>> \o s
           IN  /\ t \in Seq(S) /\ t # <<>> /\ Head(t) = w /\ Tail(t) = s /\ Len(t) = Len(s) + 1
               /\ DOMAIN t = 1 .. (Len(s) + 1) /\ t[1] = w
               /\ \A i \in DOMAIN t : i # 1 => i - 1 \in DOMAIN s /\ t[i] = s[i - 1]
  OBVIOUS

LEMMA HoldsTail ==
    ASSUME NEW S, NEW s \in Seq(S), s # <<>>, NEW W
    PROVE  Holds(s, W) <=> Head(s) \in W \/ Holds(Tail(s), W)
<1> DEFINE t == Tail(s)
<1>1. /\ Head(s) = s[1] /\ 1 \in DOMAIN s
      /\ \A i \in DOMAIN t : i + 1 \in DOMAIN s /\ t[i] = s[i + 1]
      /\ \A i \in DOMAIN s : i # 1 => i - 1 \in DOMAIN t /\ t[i - 1] = s[i]
  BY TailIs
<1> HIDE DEF t
<1>2. Holds(s, W) => Head(s) \in W \/ Holds(t, W)
  BY <1>1 DEF Holds
<1>3. Head(s) \in W \/ Holds(t, W) => Holds(s, W)
  BY <1>1 DEF Holds
<1> QED
  BY <1>2, <1>3 DEF t

LEMMA HeadHolds ==
    ASSUME NEW S, NEW s \in Seq(S), s # <<>>, NEW V, NEW W, ~Holds(s, V \cup W)
    PROVE  Head(s) \notin V \cup W
  BY HoldsTail

LEMMA HoldsNothing == \A W : ~Holds(<<>>, W)
  BY DEF Holds

LEMMA HoldsMore == ASSUME NEW s, NEW V, NEW W, V \subseteq W, Holds(s, V) PROVE Holds(s, W)
  BY DEF Holds

LEMMA ShapeOfTail ==
    ASSUME NEW k, NEW s, Shape(k, s), s # <<>>
    PROVE  /\ Shape(k, Tail(s))
           /\ Head(s) \in Settling => \A i \in DOMAIN Tail(s) : Tail(s)[i] = "note"
           /\ (\A i \in DOMAIN s : s[i] = "note") =>
                 Head(s) = "note" /\ \A i \in DOMAIN Tail(s) : Tail(s)[i] = "note"
<1> DEFINE t == Tail(s)
<1>0. s \in Seq(Words)
  BY DEF Shape
<1>1. /\ t \in Seq(Words) /\ Len(t) = Len(s) - 1 /\ Head(s) = s[1] /\ Head(s) \in Words
      /\ 1 \in DOMAIN s /\ DOMAIN s = 1 .. Len(s) /\ Len(s) \in Nat
      /\ DOMAIN t = 1 .. (Len(s) - 1)
      /\ \A i \in DOMAIN t : i + 1 \in DOMAIN s /\ t[i] = s[i + 1]
  BY <1>0, TailIs
<1>2. \A W : Holds(t, W) => Holds(s, W)
  BY <1>0, HoldsTail
<1> HIDE DEF t
<1>3. Closes(t)
  BY <1>1 DEF Shape, Closes
<1>4. OfHunt(s) => OfHunt(t)
  <2> SUFFICES ASSUME OfHunt(s) PROVE OfHunt(t)
    OBVIOUS
  <2>1. \A i, j \in DOMAIN t : t[j] = "running" /\ i < j => t[i] = "create"
    BY <1>1 DEF OfHunt
  <2>2. \A i \in DOMAIN t : t[i] \in Carrying \cup {"create"} => i = 1
    <3> SUFFICES ASSUME NEW i \in DOMAIN t, t[i] \in Carrying \cup {"create"} PROVE FALSE
      OBVIOUS
    <3> QED
      BY <1>1 DEF OfHunt
  <2> QED
    BY <1>2, <2>1, <2>2 DEF OfHunt
<1>5. OfMcp(s) => OfMcp(t)
  <2> SUFFICES ASSUME OfMcp(s) PROVE OfMcp(t)
    OBVIOUS
  <2>1. \A i, j \in DOMAIN t : t[j] = "running" /\ i < j => t[i] = "create"
    BY <1>1 DEF OfMcp
  <2>2. ASSUME NEW i \in DOMAIN t PROVE t[i] # "create"
    <3>1. i + 1 \in DOMAIN s /\ t[i] = s[i + 1] /\ i + 1 # 1
      BY <1>1
    <3> QED
      BY <3>1 DEF OfMcp
  <2>3. ~Holds(t, {"create"})
    BY <2>2 DEF Holds
  <2>4. ~Holds(t, Words \ {"create", "running", "call", "completed", "catch"})
    BY <1>2 DEF OfMcp
  <2> QED
    BY <2>1, <2>2, <2>3, <2>4 DEF OfMcp
<1>6. AsksOnce(s) => AsksOnce(t)
  <2> SUFFICES ASSUME AsksOnce(s) PROVE AsksOnce(t)
    OBVIOUS
  <2>1. ASSUME NEW i \in DOMAIN t, NEW j \in DOMAIN t, t[i] \in Asking, t[j] \in Asking PROVE i = j
    <3>1. i + 1 = j + 1
      BY <1>1, <2>1 DEF AsksOnce
    <3> QED
      BY <3>1, <1>1
  <2> QED
    BY <1>2, <2>1 DEF AsksOnce
<1>7. Shape(k, t)
  BY <1>1, <1>2, <1>3, <1>4, <1>5, <1>6 DEF Shape
<1>8. Head(s) \in Settling => \A i \in DOMAIN t : t[i] = "note"
  BY <1>1 DEF Shape, Closes
<1> QED
  BY <1>1, <1>7, <1>8 DEF t

\* A hunt carries one tool at a time, and creates its job once.
LEMMA HuntRests ==
    ASSUME NEW s, Shape("recon", s), s # <<>>
    PROVE  ~Holds(Tail(s), Carrying \cup {"create"})
<1>1. s \in Seq(Words) /\ OfHunt(s)
  BY DEF Shape
<1>2. \A i \in DOMAIN Tail(s) : i + 1 \in DOMAIN s /\ Tail(s)[i] = s[i + 1] /\ i + 1 # 1
  BY <1>1, TailIs
<1> QED
  BY <1>1, <1>2 DEF OfHunt, Holds

\* What is left when nothing is, or when the command waits.
LEMMA ShortShapes ==
    ASSUME NEW k \in Job!Kinds
    PROVE  /\ Shape(k, <<>>)
           /\ k # "recon" /\ k \notin Job!Mcp => Shape(k, <<"paused">>)
           /\ k \in Job!Mcp => Shape(k, <<"catch">>)
<1> USE DEF Closes, Holds, OfHunt, OfMcp, AsksOnce, Words, Settling, Asking, Working, Hunting,
            Plain, Carrying, Failing, Aside
<1>1. Shape(k, <<>>)
  BY DEF Shape
<1>2. k # "recon" /\ k \notin Job!Mcp => Shape(k, <<"paused">>)
  BY DEF Shape
<1>3. k \in Job!Mcp => Shape(k, <<"catch">>)
  BY DEF Shape, Job!Mcp
<1> QED
  BY <1>1, <1>2, <1>3

\* A hunt that carries out a tool has the statement before the rest.
LEMMA ShapeOfCarry ==
    ASSUME NEW s, Shape("recon", s), s # <<>>, Head(s) \in {"tool"} \cup Carrying,
           NEW w \in Carrying
    PROVE  Shape("recon", <<w>> \o Tail(s))
<1> DEFINE t == Tail(s)
           u == <<w>> \o t
<1>0. s \in Seq(Words) /\ Shape("recon", t) /\ w \in Words
  BY ShapeOfTail DEF Shape, Carrying, Failing, Words, Hunting
<1>1. /\ t \in Seq(Words) /\ Len(t) = Len(s) - 1 /\ Head(s) = s[1]
      /\ 1 \in DOMAIN s /\ DOMAIN s = 1 .. Len(s) /\ Len(s) \in Nat
      /\ DOMAIN t = 1 .. (Len(s) - 1)
      /\ \A i \in DOMAIN t : i + 1 \in DOMAIN s /\ t[i] = s[i + 1]
  BY <1>0, TailIs
<1> HIDE DEF t
<1>2. /\ u \in Seq(Words) /\ u # <<>> /\ Head(u) = w /\ Tail(u) = t
      /\ DOMAIN u = 1 .. (Len(t) + 1) /\ u[1] = w
      /\ \A i \in DOMAIN u : i # 1 => i - 1 \in DOMAIN t /\ u[i] = t[i - 1]
  BY <1>0, <1>1, PushIs
<1> HIDE DEF u
<1>3. \A W : Holds(u, W) <=> w \in W \/ Holds(t, W)
  BY <1>2, HoldsTail
<1>4. Closes(u)
  <2> SUFFICES ASSUME NEW i \in DOMAIN u, NEW k \in DOMAIN u, u[i] \in Settling, i < k
               PROVE  u[k] = "note"
    BY DEF Closes
  <2>1. i # 1 /\ i \in Nat /\ k \in Nat /\ k # 1
    BY <1>1, <1>2 DEF Carrying, Failing, Settling
  <2>2. /\ i - 1 \in DOMAIN t /\ t[i - 1] = u[i] /\ i - 1 < k - 1
        /\ k - 1 \in DOMAIN t /\ t[k - 1] = u[k]
    BY <1>2, <2>1
  <2>3. Closes(t)
    BY <1>0 DEF Shape
  <2> QED
    BY <2>2, <2>3 DEF Closes
<1>5. OfHunt(u)
  <2>1. \A i, j \in DOMAIN u : u[j] = "running" /\ i < j => u[i] = "create"
    <3> SUFFICES ASSUME NEW j \in DOMAIN u, u[j] = "running" PROVE FALSE
      OBVIOUS
    <3>1. j # 1 /\ j - 1 \in DOMAIN t /\ t[j - 1] = "running"
      BY <1>2 DEF Carrying, Failing
    <3>2. j \in DOMAIN s /\ s[j] = "running" /\ 1 < j
      BY <3>1, <1>1, <1>2
    <3> QED
      BY <3>2, <1>1 DEF Shape, OfHunt, Carrying, Failing
  <2>2. \A i \in DOMAIN u : u[i] \in Carrying \cup {"create"} => i = 1
    <3> SUFFICES ASSUME NEW i \in DOMAIN u, u[i] \in Carrying \cup {"create"}, i # 1 PROVE FALSE
      OBVIOUS
    <3>1. i \in DOMAIN s /\ s[i] \in Carrying \cup {"create"} /\ i # 1
      BY <1>1, <1>2
    <3> QED
      BY <3>1 DEF Shape, OfHunt
  <2>3. ~Holds(u, Asking \cup Working \cup Aside \cup {"completed", "verdict"})
    BY <1>0, <1>3 DEF Shape, OfHunt, Carrying, Failing, Asking, Working, Aside
  <2> QED
    BY <2>1, <2>2, <2>3 DEF OfHunt
<1> QED
  BY <1>2, <1>3, <1>4, <1>5 DEF Shape, OfHunt, Aside, Holds, Job!Mcp, Job!Strict, t, u

-----------------------------------------------------------------------------
(***************************************************************************)
(* Counting the artifacts that are still to be saved.                      *)
(***************************************************************************)
LEMMA SavesAre ==
    ASSUME NEW S, NEW s \in Seq(S)
    PROVE  IsFiniteSet({i \in DOMAIN s : s[i] = "save"}) /\ Saves(s) \in Nat
<1> DEFINE A == {i \in DOMAIN s : s[i] = "save"}
<1>1. A \subseteq 1 .. Len(s) /\ Len(s) \in Nat
  OBVIOUS
<1>2. IsFiniteSet(1 .. Len(s))
  BY <1>1, FS_Interval
<1>3. Saves(s) = Cardinality(A)
  BY DEF Saves
<1> HIDE DEF A
<1>4. IsFiniteSet(A)
  BY <1>1, <1>2, FS_Subset
<1>5. Cardinality(A) \in Nat
  BY <1>4, FS_CardinalityType
<1> QED
  BY <1>3, <1>4, <1>5 DEF A

LEMMA SavesOfTail ==
    ASSUME NEW S, NEW s \in Seq(S), s # <<>>
    PROVE  Saves(s) = Saves(Tail(s)) + (IF Head(s) = "save" THEN 1 ELSE 0)
<1> DEFINE A == {i \in DOMAIN s : s[i] = "save"}
           B == {i \in DOMAIN Tail(s) : Tail(s)[i] = "save"}
           f == [i \in B |-> i + 1]
<1>1. IsFiniteSet(A) /\ IsFiniteSet(B)
  <2>1. Tail(s) \in Seq(S)
    BY TailIs
  <2>2. IsFiniteSet(A)
    BY SavesAre
  <2>3. IsFiniteSet(B)
    BY <2>1, SavesAre
  <2> QED
    BY <2>2, <2>3
<1>2. f \in Bijection(B, A \ {1})
  <2>1. f \in [B -> A \ {1}]
    BY TailIs
  <2>2. \A i, j \in B : f[i] = f[j] => i = j
    BY TailIs
  <2>3. \A k \in A \ {1} : \E i \in B : f[i] = k
    <3> SUFFICES ASSUME NEW k \in A \ {1} PROVE k - 1 \in B /\ f[k - 1] = k
      OBVIOUS
    <3> QED
      BY TailIs
  <2> QED
    BY <2>1, <2>2, <2>3 DEF Bijection, Injection, Surjection, IsInjective
<1> HIDE DEF f
<1>3. Cardinality(B) = Cardinality(A \ {1})
  <2>1. IsFiniteSet(A \ {1})
    BY <1>1, FS_RemoveElement
  <2> QED
    BY <1>1, <1>2, <2>1, FS_Bijection DEF ExistsBijection
<1>4. Cardinality(A \ {1}) = IF 1 \in A THEN Cardinality(A) - 1 ELSE Cardinality(A)
  BY <1>1, FS_RemoveElement
<1>5. 1 \in A <=> Head(s) = "save"
  BY TailIs
<1>6. Saves(s) = Cardinality(A) /\ Saves(Tail(s)) = Cardinality(B)
  BY DEF Saves
<1>7. Cardinality(A) \in Nat
  BY <1>1, FS_CardinalityType
<1> HIDE DEF A, B
<1> QED
  BY <1>3, <1>4, <1>5, <1>6, <1>7

LEMMA NothingToSave ==
    ASSUME NEW s, \A i \in DOMAIN s : s[i] # "save" PROVE Saves(s) = 0
<1>1. {i \in DOMAIN s : s[i] = "save"} = {}
  OBVIOUS
<1> QED
  BY <1>1, FS_EmptySet DEF Saves

-----------------------------------------------------------------------------
(***************************************************************************)
(* Steps that do not concern a command leave its path as it is.            *)
(***************************************************************************)
Same(q) == /\ kind'[q] = kind[q] /\ job'[q] = job[q] /\ script'[q] = script[q]
           /\ ended'[q] = ended[q] /\ rows'[q] = rows[q] /\ verdicts'[q] = verdicts[q]
           /\ results'[q] = results[q] /\ lost'[q] = lost[q] /\ saved'[q] = saved[q]
           /\ \A i \in Nat : <<q, i>> \in overtaken' <=> <<q, i>> \in overtaken

Others(p) == \A q \in Commands \ {p} : Same(q)

Later == (\A q \in Commands : decided[q] =< decided'[q]) /\ stops =< stops'

LEMMA BlamedStays ==
    ASSUME Types, Types', NEW q \in Commands, Later
    PROVE  Blamed(q) => Blamed(q)'
<1>1. decided[q] \in Nat /\ decided'[q] \in Nat /\ decided[q] =< decided'[q]
  BY DEF Types, Later
<1> QED
  BY <1>1 DEF Blamed

LEMMA PathStays ==
    ASSUME Types, Types', NEW q \in Commands, Path(q), Same(q), Later
    PROVE  Path(q)'
<1>1. Blamed(q) => Blamed(q)'
  BY BlamedStays
<1>2. stops > 0 => stops' > 0
  BY DEF Later, Types
<1>3. Course(q)'
  BY <1>2 DEF Path, Course, Same
<1>4. Saving(q)'
  BY DEF Path, Saving, Same, Job!Artifacts
<1>5. Reasons(q)'
  BY <1>1, <1>2 DEF Path, Reasons, Same, Got, Harmed
<1>6. Waiting(q)'
  BY DEF Path, Waiting, Same, Got
<1>7. Hunt(q)'
  <2>1. Behind(q)' = Behind(q)
    BY DEF Same, Behind, Marks, Carries, Types
  <2> QED
    BY <1>1, <1>2, <2>1 DEF Path, Hunt, Same, Carries, Job!Said, Harmed
<1> QED
  BY <1>3, <1>4, <1>5, <1>6, <1>7 DEF Path

-----------------------------------------------------------------------------
(***************************************************************************)
(* A command goes on to its next statement, or comes to its end.           *)
(***************************************************************************)
Onward(p) == /\ ended[p] = "no" /\ script[p] # <<>> /\ ended'[p] = "no" /\ kind'[p] = kind[p]
             /\ script'[p] = Tail(script[p])
             /\ Head(script[p]) = "note" => job'[p] = job[p]

LEMMA CourseGoesOn ==
    ASSUME Types, Types', NEW p \in Commands, Course(p), Onward(p),
           Len(rows'[p]) = Len(verdicts'[p]),
           rows[p] # <<>> \/ Head(script[p]) \in Asking => rows'[p] # <<>>,
           job'[p] \in Closed => job'[p] = job[p] \/ Head(script[p]) \in Settling,
           Head(script[p]) \in Settling => job'[p] \in Closed,
           job'[p] \in Closed \cup {job[p], "running"} \/ Head(script[p]) = "create",
           Head(script[p]) = "running" => job'[p] = "running"
    PROVE  Course(p)'
<1>1. Shape(kind[p], script[p]) /\ script[p] \in Seq(Words)
  BY DEF Course, Shape
<1>2. \A W : Holds(script[p], W) <=> Head(script[p]) \in W \/ Holds(script'[p], W)
  BY <1>1, HoldsTail DEF Onward
<1>3. /\ Shape(kind'[p], script'[p])
      /\ Head(script[p]) \in Settling => \A i \in DOMAIN script'[p] : script'[p][i] = "note"
      /\ (\A i \in DOMAIN script[p] : script[p][i] = "note") =>
            Head(script[p]) = "note" /\ \A i \in DOMAIN script'[p] : script'[p][i] = "note"
  <2>1. kind'[p] = kind[p] /\ script'[p] = Tail(script[p]) /\ script[p] # <<>>
    BY DEF Onward
  <2> QED
    BY <1>1, <2>1, ShapeOfTail
<1>4. job'[p] \in Closed => \A i \in DOMAIN script'[p] : script'[p][i] = "note"
  BY <1>3 DEF Course
<1>5. job'[p] \in Closed \/ Holds(script'[p], Settling)
  BY <1>2, <1>3 DEF Course, Onward
<1>6. Holds(script'[p], {"verdict"}) => rows'[p] # <<>> \/ Holds(script'[p], Asking)
  BY <1>2 DEF Course
<1>7. kind'[p] \in Job!Mcp =>
         job'[p] \in Closed \cup {"running"} \/ Holds(script'[p], {"running"})
  <2> SUFFICES ASSUME kind[p] \in Job!Mcp
               PROVE  job'[p] \in Closed \cup {"running"} \/ Holds(script'[p], {"running"})
    BY DEF Onward
  <2>1. Head(script[p]) = "create" => Holds(script'[p], {"running"})
    BY <1>1, <1>2 DEF Shape, OfMcp
  <2>2. job[p] \in Closed \cup {"running"} \/ Holds(script[p], {"running"})
    BY DEF Course, Onward
  <2> QED
    BY <1>2, <2>1, <2>2
<1> QED
  BY <1>3, <1>4, <1>5, <1>6, <1>7 DEF Course, Onward

LEMMA CourseEnds ==
    ASSUME Types, Types', NEW p \in Commands, Course(p), kind'[p] = kind[p], script'[p] = <<>>,
           Len(rows'[p]) = Len(verdicts'[p]),
           ended'[p] \in {"no", "returned", "refused"} => job'[p] \in Closed,
           kind[p] \in Job!Mcp /\ ended'[p] = "threw" => job'[p] = "failed" \/ stops' > 0
    PROVE  Course(p)'
<1>1. Shape(kind'[p], script'[p]) /\ \A W : ~Holds(script'[p], W)
  BY ShortShapes, HoldsNothing DEF Types
<1> QED
  BY <1>1 DEF Course

LEMMA ArtifactsAre == ASSUME NEW p \in Commands PROVE Job!Artifacts(p) = Saves(Job!Scripts[kind[p]])
  BY DEF Job!Artifacts, Saves, Job!Cardinality, Cardinality

LEMMA SavingGoesOn ==
    ASSUME Types, Types', NEW p \in Commands, Course(p), Saving(p), Onward(p),
           saved'[p] = saved[p] + (IF Head(script[p]) = "save" THEN 1 ELSE 0),
           job'[p] = "completed" => job[p] = "completed" \/ Head(script[p]) \in {"completed", "sum"},
           Head(script[p]) = "paused" => job'[p] = "paused", Head(script[p]) # "catch"
    PROVE  Saving(p)'
<1> DEFINE all == Job!Artifacts(p)
<1>1. Shape(kind[p], script[p]) /\ script[p] \in Seq(Words) /\ script'[p] \in Seq(Words)
  BY DEF Course, Shape, Types
<1>2. Saves(script[p]) = Saves(script'[p]) + (IF Head(script[p]) = "save" THEN 1 ELSE 0)
  BY <1>1, SavesOfTail DEF Onward
<1>3. Saves(script[p]) \in Nat /\ Saves(script'[p]) \in Nat /\ saved[p] \in Nat
  BY <1>1, SavesAre DEF Types
<1>4. saved'[p] + Saves(script'[p]) = saved[p] + Saves(script[p])
  BY <1>2, <1>3
<1>5. Holds(script[p], Aside) <=> Head(script[p]) \in Aside \/ Holds(script'[p], Aside)
  BY <1>1, HoldsTail DEF Onward
<1>6. /\ Head(script[p]) \in Settling => \A i \in DOMAIN script'[p] : script'[p][i] = "note"
      /\ (\A i \in DOMAIN script[p] : script[p][i] = "note") => Head(script[p]) = "note"
  BY <1>1, ShapeOfTail DEF Onward
<1>7. all' = all
  BY DEF Job!Artifacts, Onward
<1>8. job'[p] \notin {"paused", "failed"} /\ ~Holds(script'[p], Aside) =>
         saved[p] + Saves(script[p]) = all
  <2>1. job[p] \in {"paused", "failed"} => job'[p] = job[p]
    BY <1>6 DEF Course, Onward, Closed
  <2> QED
    BY <1>5, <2>1 DEF Saving, Onward, Aside
<1>9. job'[p] = "completed" => saved'[p] = all
  <2>1. CASE job[p] = "completed"
    <3>1. Head(script[p]) = "note"
      BY <1>6, <2>1 DEF Course, Closed
    <3> QED
      BY <2>1, <3>1, <1>3 DEF Saving
  <2>2. CASE job'[p] = "completed" /\ Head(script[p]) \in {"completed", "sum"}
    <3>1. Saves(script'[p]) = 0
      BY <1>6, <2>2, NothingToSave DEF Settling
    <3>2. ~Holds(script'[p], Aside)
      BY <1>6, <2>2 DEF Settling, Aside, Holds
    <3>3. saved[p] + Saves(script[p]) = all
      BY <1>8, <2>2, <3>2
    <3>4. saved'[p] + 0 = all /\ saved'[p] \in Nat
      BY <1>4, <3>1, <3>3 DEF Types
    <3> QED
      BY <3>4
  <2> QED
    BY <2>1, <2>2
<1> HIDE DEF all
<1>10. Saving(p)' <=>
         /\ saved'[p] + Saves(script'[p]) =< all'
         /\ ended'[p] = "no" /\ job'[p] \notin {"paused", "failed"} /\ ~Holds(script'[p], Aside) =>
               saved'[p] + Saves(script'[p]) = all'
         /\ job'[p] = "completed" => saved'[p] = all'
  BY DEF Saving, all
<1>11. saved[p] + Saves(script[p]) =< all
  BY DEF Saving, all
<1> QED
  BY <1>4, <1>7, <1>8, <1>9, <1>10, <1>11

\* Nothing more is saved: what was saved counts where the job is completed.
LEMMA SavingEnds ==
    ASSUME Types, Types', NEW p \in Commands, Course(p), Saving(p), kind'[p] = kind[p],
           saved'[p] = saved[p], ended[p] = "no",
           \A i \in DOMAIN script'[p] : script'[p][i] # "save",
           ended'[p] # "no" \/ job'[p] \in {"paused", "failed"} \/ Holds(script'[p], Aside)
             \/ \A i \in DOMAIN script[p] : script[p][i] # "save",
           job'[p] = "completed" => \/ job[p] = "completed"
                                    \/ /\ job[p] \notin {"paused", "failed"}
                                       /\ ~Holds(script[p], Aside)
                                       /\ \A i \in DOMAIN script[p] : script[p][i] # "save",
           job'[p] \notin {"paused", "failed"} /\ ended'[p] = "no" /\ ~Holds(script'[p], Aside)
             => job[p] \notin {"paused", "failed"} /\ ~Holds(script[p], Aside)
    PROVE  Saving(p)'
<1> DEFINE all == Job!Artifacts(p)
<1>1. all' = all
  BY DEF Job!Artifacts
<1>2. Saves(script'[p]) = 0
  BY NothingToSave
<1>3. (\A i \in DOMAIN script[p] : script[p][i] # "save") => Saves(script[p]) = 0
  BY NothingToSave
<1>4. Saves(script[p]) \in Nat /\ saved[p] \in Nat /\ saved'[p] \in Nat
  BY SavesAre DEF Types
<1>5. /\ saved[p] + Saves(script[p]) =< all
      /\ job[p] \notin {"paused", "failed"} /\ ~Holds(script[p], Aside) =>
               saved[p] + Saves(script[p]) = all
      /\ job[p] = "completed" => saved[p] = all
  BY DEF Saving
<1>6. all \in Nat
  <2>1. Job!Scripts[kind[p]] \in Seq(Words)
    BY ScriptsHaveShape DEF Types, Scripted, Shape
  <2> QED
    BY <2>1, SavesAre, ArtifactsAre
<1>7. Saving(p)' <=>
         /\ saved'[p] + Saves(script'[p]) =< all'
         /\ ended'[p] = "no" /\ job'[p] \notin {"paused", "failed"} /\ ~Holds(script'[p], Aside) =>
               saved'[p] + Saves(script'[p]) = all'
         /\ job'[p] = "completed" => saved'[p] = all'
  BY DEF Saving
<1> HIDE DEF all
<1> QED
  BY <1>1, <1>2, <1>3, <1>4, <1>5, <1>6, <1>7

-----------------------------------------------------------------------------
(***************************************************************************)
(* Every statement of a command keeps its path, and leaves the others be.  *)
(***************************************************************************)
LEMMA SameCount == \A S : Job!Cardinality(S) = Cardinality(S)
  BY DEF Job!Cardinality, Cardinality

\* What the command is at.
Handles(p, w) == /\ ended[p] = "no" /\ script[p] # <<>> /\ Head(script[p]) = w
                 /\ Later /\ UNCHANGED kind

LEMMA HandlesIs ==
    ASSUME Types, NEW p \in Commands, Course(p), NEW w, Handles(p, w)
    PROVE  /\ script[p] \in Seq(Words) /\ Tail(script[p]) \in Seq(Words)
           /\ Shape(kind[p], script[p]) /\ Shape(kind[p], Tail(script[p]))
           /\ kind[p] \in Job!Kinds
           /\ w # "note" => job[p] \notin Closed
           /\ \A W : Holds(script[p], W) <=> w \in W \/ Holds(Tail(script[p]), W)
           /\ kind[p] = "recon" => ~Holds(Tail(script[p]), Carrying \cup {"create"})
<1>1. ended[p] = "no" /\ script[p] # <<>> /\ Head(script[p]) = w
  BY DEF Handles
<1>2. script[p] \in Seq(Words) /\ Shape(kind[p], script[p]) /\ kind[p] \in Job!Kinds
  BY DEF Types, Course
<1>3. /\ Tail(script[p]) \in Seq(Words) /\ Shape(kind[p], Tail(script[p]))
      /\ (\A i \in DOMAIN script[p] : script[p][i] = "note") => Head(script[p]) = "note"
  BY <1>1, <1>2, ShapeOfTail, TailIs
<1>4. \A W : Holds(script[p], W) <=> w \in W \/ Holds(Tail(script[p]), W)
  BY <1>1, <1>2, HoldsTail
<1>5. kind[p] = "recon" => ~Holds(Tail(script[p]), Carrying \cup {"create"})
  BY <1>1, <1>2, HuntRests
<1> QED
  BY <1>1, <1>2, <1>3, <1>4, <1>5 DEF Course

LEMMA AtHandles ==
    ASSUME Types, NEW p \in Commands, NEW w, Job!At(p, w)
    PROVE  Handles(p, w) /\ UNCHANGED <<kind, deciding, decided, stops>>
<1>1. /\ ended[p] = "no" /\ script[p] # <<>> /\ Head(script[p]) = w
      /\ UNCHANGED <<kind, deciding, decided, stops>>
  BY DEF Job!At
<1>2. Later
  BY <1>1 DEF Later, Types
<1> QED
  BY <1>1, <1>2 DEF Handles

LEMMA AtIs ==
    ASSUME Types, NEW p \in Commands, Course(p), NEW w, Job!At(p, w)
    PROVE  /\ ended[p] = "no" /\ script[p] # <<>> /\ Head(script[p]) = w /\ Later
           /\ script[p] \in Seq(Words) /\ Tail(script[p]) \in Seq(Words)
           /\ Shape(kind[p], script[p]) /\ Shape(kind[p], Tail(script[p]))
           /\ UNCHANGED <<kind, deciding, decided, stops>> /\ kind[p] \in Job!Kinds
           /\ w # "note" => job[p] \notin Closed
           /\ \A W : Holds(script[p], W) <=> w \in W \/ Holds(Tail(script[p]), W)
           /\ kind[p] = "recon" => ~Holds(Tail(script[p]), Carrying \cup {"create"})
<1>1. Handles(p, w) /\ UNCHANGED <<kind, deciding, decided, stops>>
  BY AtHandles
<1> QED
  BY <1>1, HandlesIs DEF Handles

\* A statement about the job alone.
LEMMA JobStatement ==
    ASSUME Types, NEW p \in Commands, Path(p), NEW w, w # "note", Job!At(p, w),
           Job!Goes(p, Job!Rest(p)), NEW status \in Job!Statuses, job' = [job EXCEPT ![p] = status],
           UNCHANGED <<rows, verdicts, overtaken, results, lost, written, noting, shared>>,
           saved' = IF w = "save" THEN [saved EXCEPT ![p] = @ + 1] ELSE saved
    PROVE  /\ Types' /\ Others(p) /\ Later /\ Onward(p)
           /\ job'[p] = status /\ script'[p] = Tail(script[p]) /\ ended'[p] = ended[p]
           /\ kind'[p] = kind[p] /\ rows'[p] = rows[p] /\ verdicts'[p] = verdicts[p]
           /\ overtaken' = overtaken
           /\ results'[p] = results[p] /\ lost'[p] = lost[p]
           /\ saved'[p] = saved[p] + (IF Head(script[p]) = "save" THEN 1 ELSE 0)
<1>1. Course(p)
  BY DEF Path
<1>2. /\ ended[p] = "no" /\ script[p] # <<>> /\ Head(script[p]) = w /\ Later
      /\ Tail(script[p]) \in Seq(Words) /\ UNCHANGED <<kind, deciding, decided, stops>>
  BY <1>1, AtIs
<1>3. script' = [script EXCEPT ![p] = Tail(script[p])] /\ UNCHANGED ended
  BY DEF Job!Goes, Job!Rest
<1>4. saved' \in [Commands -> Nat]
  BY DEF Types
<1>5. job' \in [Commands -> Job!Statuses \cup {"none"}] /\ script' \in [Commands -> Seq(Words)]
  BY <1>2, <1>3 DEF Types
<1>6. Types'
  BY <1>2, <1>3, <1>4, <1>5 DEF Types
<1>7. Others(p)
  BY <1>2, <1>3 DEF Types, Others, Same
<1>8. /\ job'[p] = status /\ script'[p] = Tail(script[p]) /\ ended'[p] = ended[p]
      /\ saved'[p] = saved[p] + (IF Head(script[p]) = "save" THEN 1 ELSE 0)
  BY <1>2, <1>3 DEF Types
<1> QED
  BY <1>2, <1>6, <1>7, <1>8 DEF Onward

\* A hunt that neither carries nor says anything at this statement.
LEMMA HuntGoesOn ==
    ASSUME Types, Types', NEW p \in Commands, Course(p), Hunt(p), Onward(p), Later,
           rows'[p] = rows[p], results'[p] = results[p], lost'[p] = lost[p],
           UNCHANGED overtaken, Head(script[p]) \notin Carrying,
           kind[p] = "recon" => \/ job'[p] = job[p] /\ Head(script[p]) \notin {"create", "running"}
                                \/ job'[p] = "queued" /\ Head(script[p]) = "create"
                                \/ job'[p] = "running" /\ Head(script[p]) = "running"
    PROVE  Hunt(p)'
<1> SUFFICES ASSUME kind[p] = "recon" PROVE Hunt(p)'
  BY DEF Hunt, Onward
<1>1. Shape("recon", script[p]) /\ script[p] \in Seq(Words) /\ script'[p] \in Seq(Words)
  BY DEF Course, Types
<1>2. ~Holds(script'[p], Carrying \cup {"create"})
  BY <1>1, HuntRests DEF Onward
<1>3. \A W : Holds(script[p], W) <=> Head(script[p]) \in W \/ Holds(script'[p], W)
  BY <1>1, HoldsTail DEF Onward
<1>4. ~Carries(p)' /\ ~Carries(p)
  <2>1. script'[p] # <<>> => Head(script'[p]) \notin Carrying
    BY <1>1, <1>2, HeadHolds
  <2> QED
    BY <2>1 DEF Carries
<1>5. Behind(p)' = Behind(p)
  BY <1>4 DEF Behind, Marks
<1>6. Harmed(p) => Harmed(p)'
  <2>1. stops > 0 => stops' > 0
    BY DEF Later, Types
  <2> QED
    BY <2>1, BlamedStays DEF Harmed
<1>7. Holds(script'[p], Hunting) => job'[p] = "running" \/ Holds(script'[p], {"running"})
  BY <1>2, <1>3 DEF Hunt
<1>8. results'[p] # <<>> => ~Holds(script'[p], {"running"})
  BY <1>3 DEF Hunt
<1>9. Job!Said(p, {"failed"})' => job'[p] \in {"running", "failed"} /\ Harmed(p)'
  <2>1. Job!Said(p, {"failed"})' <=> Job!Said(p, {"failed"})
    BY DEF Job!Said
  <2> QED
    BY <1>3, <1>6, <2>1 DEF Hunt
<1>10. ended'[p] # "threw"
  BY DEF Onward
<1>11. Cardinality(Executed(results'[p])) =< Cardinality(Behind(p)')
  BY <1>5 DEF Hunt
<1>12. kind'[p] = "recon" => /\ ~Carries(p)' /\ ~Holds(script'[p], {"create"})
  BY <1>2, <1>4 DEF Holds
<1> QED
  BY <1>7, <1>8, <1>9, <1>10, <1>11, <1>12 DEF Hunt

LEMMA CreateKeeps ==
    ASSUME Types, NEW p \in Commands, Path(p), Job!Create(p)
    PROVE  Types' /\ Others(p) /\ Later /\ Path(p)'
<1>1. Job!At(p, "create") /\ Course(p)
  BY DEF Job!Create, Path
<1>2. /\ Types' /\ Others(p) /\ Later /\ Onward(p)
      /\ job'[p] = "queued" /\ script'[p] = Tail(script[p]) /\ ended'[p] = ended[p]
      /\ kind'[p] = kind[p] /\ rows'[p] = rows[p] /\ verdicts'[p] = verdicts[p]
      /\ overtaken' = overtaken
      /\ results'[p] = results[p] /\ lost'[p] = lost[p]
      /\ saved'[p] = saved[p] + (IF Head(script[p]) = "save" THEN 1 ELSE 0)
  <2>1. "queued" \in Job!Statuses
    BY DEF Job!Statuses
  <2>2. /\ Job!Goes(p, Job!Rest(p)) /\ job' = [job EXCEPT ![p] = "queued"]
        /\ UNCHANGED <<rows, verdicts, overtaken, results, lost, written, noting, shared>>
        /\ saved' = IF "create" = "save" THEN [saved EXCEPT ![p] = @ + 1] ELSE saved
    BY DEF Job!Create, Job!queue, Job!log
  <2> QED
    BY <1>1, <2>1, <2>2, JobStatement
<1>3. Head(script[p]) = "create" /\ job[p] \notin Closed /\ UNCHANGED <<decided, stops>>
      /\ Shape(kind[p], script[p])
      /\ \A W : Holds(script[p], W) <=> "create" \in W \/ Holds(script'[p], W)
  BY <1>1, <1>2, AtIs
<1>4. Course(p)'
  BY <1>1, <1>2, <1>3, CourseGoesOn DEF Course, Closed, Settling, Asking
<1>5. Saving(p)'
  BY <1>1, <1>2, <1>3, SavingGoesOn DEF Path
<1>6. Reasons(p)'
  BY <1>2, <1>3 DEF Path, Reasons, Got, Harmed, Blamed
<1>7. Waiting(p)'
  BY <1>2, <1>3 DEF Path, Waiting, Got
<1>8. Hunt(p)'
  BY <1>1, <1>2, <1>3, HuntGoesOn DEF Path, Carrying, Failing
<1> QED
  BY <1>2, <1>4, <1>5, <1>6, <1>7, <1>8 DEF Path

LEMMA SetStatusKeeps ==
    ASSUME Types, NEW p \in Commands, Path(p), NEW status \in {"running", "paused", "completed"},
           Job!SetStatus(p, status)
    PROVE  Types' /\ Others(p) /\ Later /\ Path(p)'
<1>1. Job!At(p, status) /\ Course(p)
  BY DEF Job!SetStatus, Path
<1>2. /\ Types' /\ Others(p) /\ Later /\ Onward(p)
      /\ job'[p] = status /\ script'[p] = Tail(script[p]) /\ ended'[p] = ended[p]
      /\ kind'[p] = kind[p] /\ rows'[p] = rows[p] /\ verdicts'[p] = verdicts[p]
      /\ overtaken' = overtaken
      /\ results'[p] = results[p] /\ lost'[p] = lost[p]
      /\ saved'[p] = saved[p] + (IF Head(script[p]) = "save" THEN 1 ELSE 0)
  <2>1. status \in Job!Statuses /\ status # "note"
    BY DEF Job!Statuses
  <2>2. /\ Job!Goes(p, Job!Rest(p)) /\ job' = [job EXCEPT ![p] = status]
        /\ UNCHANGED <<rows, verdicts, overtaken, results, lost, written, noting, shared>>
        /\ saved' = IF status = "save" THEN [saved EXCEPT ![p] = @ + 1] ELSE saved
    BY DEF Job!SetStatus, Job!queue, Job!log
  <2> QED
    BY <1>1, <2>1, <2>2, JobStatement
<1>3. /\ Head(script[p]) = status /\ job[p] \notin Closed /\ UNCHANGED <<decided, stops>>
      /\ Shape(kind[p], script[p]) /\ ended[p] = "no"
      /\ \A W : Holds(script[p], W) <=> status \in W \/ Holds(script'[p], W)
  BY <1>1, <1>2, AtIs
<1>4. Course(p)'
  <2>1. Len(rows[p]) = Len(verdicts[p])
    BY <1>1 DEF Course
  <2> QED
    BY <1>1, <1>2, <1>3, <2>1, CourseGoesOn DEF Closed, Settling, Asking
<1>5. Saving(p)'
  BY <1>1, <1>2, <1>3, SavingGoesOn DEF Path
<1>6. Reasons(p)'
  <2>1. Reasons(p) /\ status # "catch"
    BY DEF Path
  <2>2. status \in {"paused", "completed"} => ~Holds(script'[p], {"catch"})
    <3>1. status \in {"paused", "completed"} => \A i \in DOMAIN script'[p] : script'[p][i] = "note"
      <4>1. Shape(kind[p], script[p]) /\ script[p] # <<>> /\ script'[p] = Tail(script[p])
        BY <1>2, <1>3 DEF Onward
      <4>2. status \in {"paused", "completed"} => Head(script[p]) \in Settling
        BY <1>3 DEF Settling
      <4>3. Head(script[p]) \in Settling =>
               \A i \in DOMAIN Tail(script[p]) : Tail(script[p])[i] = "note"
        BY <4>1, ShapeOfTail
      <4> QED
        BY <4>1, <4>2, <4>3
    <3> QED
      BY <3>1 DEF Holds
  <2>3. /\ Holds(script[p], {"catch"}) <=> Holds(script'[p], {"catch"})
        /\ Holds(script'[p], {"paused"}) => Holds(script[p], {"paused"})
        /\ status = "paused" => Holds(script[p], {"paused"})
    BY <1>3, <2>1
  <2>4. /\ \A v : Got(p, v)' <=> Got(p, v)
        /\ lost'[p] = lost[p] /\ stops' = stops /\ ended'[p] = "no"
    BY <1>2, <1>3 DEF Got
  <2> QED
    BY <1>2, <1>3, <2>1, <2>2, <2>3, <2>4 DEF Reasons
<1>7. Waiting(p)'
  BY <1>2, <1>3 DEF Path, Waiting, Got
<1>8. kind[p] = "recon" => status = "running"
  BY <1>3 DEF Shape, OfHunt, Aside
<1>9. Hunt(p)'
  BY <1>1, <1>2, <1>3, <1>8, HuntGoesOn DEF Path, Carrying, Failing
<1> QED
  BY <1>2, <1>4, <1>5, <1>6, <1>7, <1>9 DEF Path

LEMMA SaveKeeps ==
    ASSUME Types, NEW p \in Commands, Path(p), Job!Save(p)
    PROVE  Types' /\ Others(p) /\ Later /\ Path(p)'
<1>1. Job!At(p, "save") /\ Course(p)
  BY DEF Job!Save, Path
<1>2. /\ ended[p] = "no" /\ Head(script[p]) = "save" /\ script[p] # <<>> /\ job[p] \notin Closed
      /\ Tail(script[p]) \in Seq(Words) /\ Later /\ UNCHANGED <<kind, deciding, decided, stops>>
      /\ \A W : Holds(script[p], W) <=> "save" \in W \/ Holds(Tail(script[p]), W)
  BY <1>1, AtIs
<1>3. /\ script' = [script EXCEPT ![p] = Tail(@)] /\ saved' = [saved EXCEPT ![p] = @ + 1]
      /\ UNCHANGED <<job, ended, rows, verdicts, overtaken, results, lost, written, noting, shared>>
  BY DEF Job!Save, Job!queue, Job!log, Job!Goes, Job!Rest
<1>4. /\ Types' /\ Others(p) /\ Onward(p)
      /\ job'[p] = job[p] /\ script'[p] = Tail(script[p]) /\ ended'[p] = ended[p]
      /\ kind'[p] = kind[p] /\ rows'[p] = rows[p] /\ verdicts'[p] = verdicts[p]
      /\ overtaken' = overtaken
      /\ results'[p] = results[p] /\ lost'[p] = lost[p] /\ saved'[p] = saved[p] + 1
  BY <1>2, <1>3 DEF Types, Others, Same, Onward
<1>5. Course(p)'
  BY <1>1, <1>2, <1>4, CourseGoesOn DEF Course, Closed, Settling, Asking
<1>6. Saving(p)'
  BY <1>1, <1>2, <1>4, SavingGoesOn DEF Path
<1>7. Reasons(p)'
  BY <1>2, <1>4 DEF Path, Reasons, Got, Harmed, Blamed
<1>8. Waiting(p)'
  BY <1>2, <1>4 DEF Path, Waiting, Got
<1>9. Hunt(p)'
  BY <1>1, <1>2, <1>4, HuntGoesOn DEF Path, Carrying, Failing
<1> QED
  BY <1>2, <1>4, <1>5, <1>6, <1>7, <1>8, <1>9 DEF Path

LEMMA NoteKeeps ==
    ASSUME Types, NEW p \in Commands, Path(p), Job!Note(p), Types'
    PROVE  Others(p) /\ Later /\ Path(p)'
<1>1. Job!At(p, "note") /\ Course(p)
  BY DEF Job!Note, Path
<1>2. /\ ended[p] = "no" /\ Head(script[p]) = "note" /\ script[p] # <<>>
      /\ Tail(script[p]) \in Seq(Words) /\ Later /\ UNCHANGED <<kind, deciding, decided, stops>>
      /\ \A W : Holds(script[p], W) <=> "note" \in W \/ Holds(Tail(script[p]), W)
  BY <1>1, AtIs
<1>3. /\ script' = [script EXCEPT ![p] = Tail(@)]
      /\ UNCHANGED <<job, ended, rows, verdicts, overtaken, results, lost, saved>>
  BY DEF Job!Note, Job!queue, Job!Goes, Job!Rest
<1>4. /\ Others(p) /\ Onward(p)
      /\ job'[p] = job[p] /\ script'[p] = Tail(script[p]) /\ ended'[p] = ended[p]
      /\ kind'[p] = kind[p] /\ rows'[p] = rows[p] /\ verdicts'[p] = verdicts[p]
      /\ overtaken' = overtaken
      /\ results'[p] = results[p] /\ lost'[p] = lost[p] /\ saved'[p] = saved[p]
  BY <1>2, <1>3 DEF Types, Others, Same, Onward
<1>5. Course(p)'
  BY <1>1, <1>2, <1>4, CourseGoesOn DEF Course, Closed, Settling, Asking
<1>6. Saving(p)'
  <2>1. saved'[p] = saved[p] + (IF Head(script[p]) = "save" THEN 1 ELSE 0)
    BY <1>2, <1>4 DEF Types
  <2> QED
    BY <1>1, <1>2, <1>4, <2>1, SavingGoesOn DEF Path
<1>7. Reasons(p)'
  BY <1>2, <1>4 DEF Path, Reasons, Got, Harmed, Blamed
<1>8. Waiting(p)'
  BY <1>2, <1>4 DEF Path, Waiting, Got
<1>9. Hunt(p)'
  BY <1>1, <1>2, <1>4, HuntGoesOn DEF Path, Carrying, Failing
<1> QED
  BY <1>2, <1>4, <1>5, <1>6, <1>7, <1>8, <1>9 DEF Path

LEMMA ReturnKeeps ==
    ASSUME Types, NEW p \in Commands, Path(p), Job!Return(p)
    PROVE  Types' /\ Others(p) /\ Later /\ Path(p)'
<1>1. /\ ended[p] = "no" /\ script[p] = <<>> /\ ended' = [ended EXCEPT ![p] = "returned"]
      /\ UNCHANGED <<kind, job, script, rows, verdicts, overtaken, results, lost, saved, written,
                     noting, shared, deciding, decided, stops>>
  BY DEF Job!Return, Job!queue, Job!log
<1>2. Types' /\ Others(p) /\ Later
  BY <1>1 DEF Types, Others, Same, Later, Ends
<1>3. ended'[p] = "returned" /\ job[p] \in Closed
  BY <1>1, HoldsNothing DEF Types, Path, Course
<1>4. Course(p)'
  BY <1>1, <1>2, <1>3, HoldsNothing, CourseEnds DEF Path, Course, Closed
<1>5. Saving(p)'
  BY <1>1, <1>3 DEF Path, Saving, Job!Artifacts
<1>6. Reasons(p)'
  BY <1>1, <1>3 DEF Path, Reasons, Got, Harmed, Blamed
<1>7. Waiting(p)'
  BY <1>1 DEF Path, Waiting, Got
<1>8. Hunt(p)'
  BY <1>1, <1>3 DEF Path, Hunt, Carries, Behind, Marks, Harmed, Blamed, Job!Said
<1> QED
  BY <1>2, <1>4, <1>5, <1>6, <1>7, <1>8 DEF Path

\* A command that waits for approvals asks once.
LEMMA AsksNoMore ==
    ASSUME NEW s \in Seq(Words), s # <<>>, AsksOnce(s), Head(s) \in Asking
    PROVE  ~Holds(Tail(s), Asking)
  BY TailIs DEF AsksOnce, Holds

LEMMA AppendIs ==
    ASSUME NEW S, NEW s \in Seq(S), NEW x \in S
    PROVE  /\ Append(s, x) \in Seq(S) /\ Len(Append(s, x)) = Len(s) + 1 /\ Append(s, x) # <<>>
           /\ Len(s) \in Nat /\ DOMAIN s = 1 .. Len(s)
           /\ DOMAIN Append(s, x) = 1 .. (Len(s) + 1) /\ Append(s, x)[Len(s) + 1] = x
           /\ \A i \in DOMAIN s : Append(s, x)[i] = s[i]
  OBVIOUS

LEMMA AppendHas ==
    ASSUME NEW S, NEW s \in Seq(S), NEW x \in S, NEW W
    PROVE  Holds(Append(s, x), W) <=> Holds(s, W) \/ x \in W
  BY AppendIs DEF Holds

\* What is proposed joins the queue with its verdict.
LEMMA EnqueueIs ==
    ASSUME Types, NEW p \in Commands, Course(p), NEW v \in Job!Verdicts, Job!Enqueue(p, v)
    PROVE  /\ rows' \in [Commands -> Seq(RowStatuses)]
           /\ verdicts' \in [Commands -> Seq(Job!Verdicts)]
           /\ \A q \in Commands \ {p} : rows'[q] = rows[q] /\ verdicts'[q] = verdicts[q]
           /\ rows'[p] = Append(rows[p], Job!Queued(v)) /\ Len(rows'[p]) = Len(rows[p]) + 1
           /\ verdicts'[p] = Append(verdicts[p], v) /\ Len(verdicts'[p]) = Len(rows'[p])
           /\ rows'[p] # <<>>
           /\ \A w : Got(p, w)' <=> Got(p, w) \/ w = v
           /\ Job!Queued(v) \in RowStatuses /\ overtaken' = overtaken
<1>1. Job!Queued(v) \in RowStatuses
  BY DEF Job!Queued, Job!Verdicts, RowStatuses
<1>2. /\ rows' = [rows EXCEPT ![p] = Append(@, Job!Queued(v))]
      /\ verdicts' = [verdicts EXCEPT ![p] = Append(@, v)] /\ overtaken' = overtaken
  BY DEF Job!Enqueue
<1>3. rows[p] \in Seq(RowStatuses) /\ verdicts[p] \in Seq(Job!Verdicts)
      /\ Len(rows[p]) = Len(verdicts[p])
  BY DEF Types, Course
<1>4. /\ rows'[p] = Append(rows[p], Job!Queued(v)) /\ verdicts'[p] = Append(verdicts[p], v)
      /\ \A q \in Commands \ {p} : rows'[q] = rows[q] /\ verdicts'[q] = verdicts[q]
      /\ rows' \in [Commands -> Seq(RowStatuses)] /\ verdicts' \in [Commands -> Seq(Job!Verdicts)]
  BY <1>1, <1>2, <1>3 DEF Types
<1>5. \A w : Got(p, w)' <=> Got(p, w) \/ w = v
  <2> SUFFICES ASSUME NEW w PROVE Got(p, w)' <=> Got(p, w) \/ w = v
    OBVIOUS
  <2>1. Holds(Append(verdicts[p], v), {w}) <=> Holds(verdicts[p], {w}) \/ v \in {w}
    BY <1>3, AppendHas
  <2> QED
    BY <2>1, <1>4 DEF Got
<1>6. /\ Len(rows'[p]) = Len(rows[p]) + 1 /\ rows'[p] # <<>>
      /\ Len(verdicts'[p]) = Len(verdicts[p]) + 1
  <2>1. /\ Len(Append(rows[p], Job!Queued(v))) = Len(rows[p]) + 1
        /\ Append(rows[p], Job!Queued(v)) # <<>>
    BY <1>1, <1>3, AppendIs
  <2>2. Len(Append(verdicts[p], v)) = Len(verdicts[p]) + 1
    BY <1>3, AppendIs
  <2> QED
    BY <1>4, <2>1, <2>2
<1> QED
  BY <1>1, <1>2, <1>3, <1>4, <1>5, <1>6

LEMMA AskedKeeps ==
    ASSUME Types, NEW p \in Commands, Path(p), NEW w \in Asking, Job!At(p, w),
           NEW v \in Job!Verdicts, Job!Enqueue(p, v), w = "planOrPause" => v = "allow",
           script' = [script EXCEPT ![p] = Tail(@)],
           UNCHANGED <<job, ended, results, lost, saved, written, noting, shared>>
    PROVE  Types' /\ Others(p) /\ Later /\ Path(p)'
<1>1. /\ ended[p] = "no" /\ Head(script[p]) = w /\ script[p] # <<>> /\ job[p] \notin Closed
      /\ Tail(script[p]) \in Seq(Words) /\ Later /\ UNCHANGED <<kind, deciding, decided, stops>>
      /\ \A W : Holds(script[p], W) <=> w \in W \/ Holds(Tail(script[p]), W)
      /\ Shape(kind[p], script[p]) /\ script[p] \in Seq(Words)
  BY AtIs DEF Path, Asking
<1>2. /\ rows' \in [Commands -> Seq(RowStatuses)] /\ verdicts' \in [Commands -> Seq(Job!Verdicts)]
      /\ \A q \in Commands \ {p} : rows'[q] = rows[q] /\ verdicts'[q] = verdicts[q]
      /\ Len(rows'[p]) = Len(rows[p]) + 1
      /\ Len(verdicts'[p]) = Len(rows'[p]) /\ rows'[p] # <<>>
      /\ (\A x : Got(p, x)' <=> Got(p, x) \/ x = v) /\ overtaken' = overtaken
  BY EnqueueIs DEF Path
<1>3. /\ Types' /\ Others(p) /\ Onward(p)
      /\ job'[p] = job[p] /\ script'[p] = Tail(script[p]) /\ ended'[p] = ended[p]
      /\ kind'[p] = kind[p]
      /\ results'[p] = results[p] /\ lost'[p] = lost[p] /\ saved'[p] = saved[p]
  BY <1>1, <1>2 DEF Types, Others, Same, Onward
<1>4. kind[p] # "recon"
  BY <1>1 DEF Shape, OfHunt
<1>5. Course(p)'
  BY <1>1, <1>2, <1>3, CourseGoesOn DEF Path, Closed, Settling, Asking
<1>6. Saving(p)'
  <2>1. saved'[p] = saved[p] + (IF Head(script[p]) = "save" THEN 1 ELSE 0)
    BY <1>1, <1>3 DEF Types, Asking
  <2> QED
    BY <1>1, <1>3, <2>1, SavingGoesOn DEF Path, Asking, Aside
<1>7. Reasons(p)'
  <2>1. Reasons(p) /\ w \notin {"catch", "paused"} /\ job'[p] \notin Closed
    BY <1>1, <1>3 DEF Path, Asking
  <2>2. /\ Holds(script[p], {"catch"}) <=> Holds(script'[p], {"catch"})
        /\ Holds(script[p], {"paused"}) <=> Holds(script'[p], {"paused"})
    BY <1>1, <1>3, <2>1
  <2> QED
    BY <1>1, <1>2, <1>3, <2>1, <2>2 DEF Reasons, Closed
<1>8. Waiting(p)'
  <2> SUFFICES ASSUME kind[p] \in Job!Strict PROVE Waiting(p)'
    BY <1>3 DEF Waiting
  <2>1. AsksOnce(script[p]) /\ Holds(script[p], Asking)
    BY <1>1 DEF Shape
  <2>2. verdicts[p] = <<>> /\ Len(rows[p]) = 0
    BY <2>1 DEF Path, Waiting, Course
  <2>3. Len(verdicts'[p]) =< 1
    BY <1>2, <2>2
  <2>4. ~Holds(script'[p], Asking)
    BY <1>1, <1>3, <2>1, AsksNoMore
  <2>5. ~Got(p, "require") /\ ~Got(p, "block")
    BY <2>2, HoldsNothing DEF Got
  <2>6. (Got(p, "require") \/ Got(p, "block"))' =>
           job'[p] # "completed" /\ ~Holds(script'[p], {"completed"})
    BY <1>1, <1>2, <1>3, <2>1, <2>5 DEF AsksOnce, Asking, Closed
  <2> QED
    BY <2>3, <2>4, <2>6 DEF Waiting
<1>9. Hunt(p)'
  BY <1>3, <1>4 DEF Hunt
<1> QED
  BY <1>1, <1>3, <1>5, <1>6, <1>7, <1>8, <1>9 DEF Path

LEMMA ProposeKeeps ==
    ASSUME Types, NEW p \in Commands, Path(p), Job!Propose(p)
    PROVE  Types' /\ Others(p) /\ Later /\ Path(p)'
<1>1. PICK v \in Job!Verdicts : Job!Enqueue(p, v)
  BY DEF Job!Propose
<1>2. /\ Job!At(p, "propose") /\ script' = [script EXCEPT ![p] = Tail(@)]
      /\ UNCHANGED <<job, ended, results, lost, saved, written, noting, shared>>
  BY DEF Job!Propose, Job!Goes, Job!Rest, Job!log
<1> QED
  BY <1>1, <1>2, AskedKeeps DEF Asking

-----------------------------------------------------------------------------
(***************************************************************************)
(* Exceptions.                                                             *)
(***************************************************************************)
\* The command ends, or is at its catch.
LEMMA ThrowsIs ==
    ASSUME Types, NEW p \in Commands, Course(p), ended[p] = "no", script[p] # <<>>, Job!Throws(p)
    PROVE  /\ script' \in [Commands -> Seq(Words)] /\ ended' \in [Commands -> Ends] /\ job' = job
           /\ \A q \in Commands \ {p} : script'[q] = script[q] /\ ended'[q] = ended[q]
           /\ \/ /\ script'[p] = <<>> /\ ended'[p] = "threw"
                 /\ ~(kind[p] \in Job!Mcp /\ job[p] = "running" /\ Head(script[p]) # "catch")
                 /\ Head(script[p]) \notin Job!Tried
              \/ /\ script'[p] = <<"catch">> /\ ended'[p] = "no"
                 /\ kind[p] \in Job!Mcp /\ job[p] = "running"
              \/ /\ script'[p] = <<"fail">> \o Tail(script[p]) /\ ended'[p] = "no"
                 /\ Head(script[p]) \in Job!Tried
<1>1. /\ script' = [script EXCEPT ![p] = Job!Catch(p)] /\ job' = job
      /\ ended' = IF Job!Catch(p) = <<>> THEN [ended EXCEPT ![p] = "threw"] ELSE ended
  BY DEF Job!Throws
<1>2. "threw" \in Ends /\ <<>> \in Seq(Words) /\ <<"catch">> \in Seq(Words)
  BY DEF Ends, Words, Settling
<1>3. <<"fail">> \o Tail(script[p]) \in Seq(Words) /\ <<"fail">> \o Tail(script[p]) # <<>>
  <2>1. "fail" \in Words /\ Tail(script[p]) \in Seq(Words)
    BY TailIs DEF Types, Words, Hunting, Carrying, Failing
  <2> QED
    BY <2>1, PushIs
<1>4. CASE kind[p] \in Job!Mcp /\ job[p] = "running" /\ Head(script[p]) # "catch"
  <2>1. Job!Catch(p) = <<"catch">> /\ Job!Catch(p) # <<>>
    BY <1>4 DEF Job!Catch
  <2> QED
    BY <1>1, <1>2, <1>4, <2>1 DEF Types
<1>5. CASE /\ ~(kind[p] \in Job!Mcp /\ job[p] = "running" /\ Head(script[p]) # "catch")
           /\ Head(script[p]) \in Job!Tried
  <2>1. Job!Catch(p) = <<"fail">> \o Tail(script[p])
    BY <1>5 DEF Job!Catch, Job!Rest
  <2> HIDE DEF Job!Catch
  <2> QED
    BY <1>1, <1>3, <1>5, <2>1 DEF Types
<1>6. CASE /\ ~(kind[p] \in Job!Mcp /\ job[p] = "running" /\ Head(script[p]) # "catch")
           /\ Head(script[p]) \notin Job!Tried
  <2>1. Job!Catch(p) = <<>>
    BY <1>6 DEF Job!Catch
  <2> QED
    BY <1>1, <1>2, <1>6, <2>1 DEF Types
<1> QED
  BY <1>4, <1>5, <1>6

LEMMA ExecutedAre ==
    ASSUME NEW S, NEW s \in Seq(S)
    PROVE  IsFiniteSet(Executed(s)) /\ Cardinality(Executed(s)) \in Nat
<1>1. Executed(s) \subseteq 1 .. Len(s) /\ Len(s) \in Nat
  BY DEF Executed
<1>2. IsFiniteSet(1 .. Len(s))
  BY <1>1, FS_Interval
<1>3. IsFiniteSet(Executed(s))
  BY <1>1, <1>2, FS_Subset
<1> QED
  BY <1>3, FS_CardinalityType

LEMMA BehindIs ==
    ASSUME Types, NEW p \in Commands
    PROVE  /\ IsFiniteSet(Behind(p)) /\ Cardinality(Behind(p)) \in Nat
           /\ IsFiniteSet(Marks(p)) /\ Cardinality(Marks(p)) \in Nat
           /\ Behind(p) \subseteq Marks(p)
<1>1. Behind(p) \subseteq Marks(p)
  BY DEF Behind
<1>2. Marks(p) \subseteq 1 .. Len(rows[p]) /\ Len(rows[p]) \in Nat
  BY DEF Types, Marks
<1>3. IsFiniteSet(Marks(p))
  <2>1. IsFiniteSet(1 .. Len(rows[p]))
    BY <1>2, FS_Interval
  <2> QED
    BY <1>2, <2>1, FS_Subset
<1>4. IsFiniteSet(Behind(p))
  BY <1>1, <1>3, FS_Subset
<1> QED
  BY <1>1, <1>3, <1>4, FS_CardinalityType

LEMMA BehindWillBe ==
    ASSUME Types', NEW p \in Commands
    PROVE  IsFiniteSet(Behind(p)') /\ Cardinality(Behind(p)') \in Nat
<1>1. Behind(p)' \subseteq 1 .. Len(rows'[p]) /\ Len(rows'[p]) \in Nat
  BY DEF Types, Behind, Marks
<1>2. IsFiniteSet(Behind(p)')
  <2>1. IsFiniteSet(1 .. Len(rows'[p]))
    BY <1>1, FS_Interval
  <2> QED
    BY <1>1, <2>1, FS_Subset
<1> QED
  BY <1>2, FS_CardinalityType

LEMMA BehindGrows ==
    ASSUME Types, Types', NEW p \in Commands, Path(p), kind[p] = "recon",
           Behind(p) \subseteq Behind(p)', Executed(results'[p]) = Executed(results[p])
    PROVE  Cardinality(Executed(results'[p])) =< Cardinality(Behind(p)')
<1>1. /\ Cardinality(Executed(results[p])) =< Cardinality(Behind(p))
      /\ Cardinality(Executed(results[p])) \in Nat /\ Cardinality(Behind(p)) \in Nat
  BY ExecutedAre, BehindIs DEF Path, Hunt, Types
<1>2. Cardinality(Behind(p)) =< Cardinality(Behind(p)') /\ Cardinality(Behind(p)') \in Nat
  BY BehindWillBe, FS_Subset
<1>3. Cardinality(Executed(results'[p])) = Cardinality(Executed(results[p]))
  OBVIOUS
<1> QED
  BY <1>1, <1>2, <1>3

\* After an exception that nobody catches: the reason for it is given, and
\* nothing else is new but, perhaps, a refused proposal.
LEMMA ThrewKeeps ==
    ASSUME Types, Types', NEW p \in Commands, Path(p), ended[p] = "no", Later,
           script'[p] = <<>>, ended'[p] = "threw", job'[p] = job[p],
           kind[p] \in Job!Mcp => stops' > 0,
           kind'[p] = kind[p], saved'[p] = saved[p], results'[p] = results[p],
           lost[p] => lost'[p], Len(rows'[p]) = Len(verdicts'[p]),
           \A x : Got(p, x) => Got(p, x)',
           job'[p] = "completed" => lost'[p] = lost[p] /\ verdicts'[p] = verdicts[p],
           kind[p] \in Job!Strict => Len(verdicts'[p]) =< 1,
           kind[p] = "recon" => /\ rows'[p] = rows[p] /\ overtaken' = overtaken
                                /\ stops' > 0 \/ Blamed(p)'
    PROVE  Path(p)'
<1>1. Blamed(p) => Blamed(p)'
  BY BlamedStays
<1>2. stops > 0 => stops' > 0
  BY DEF Later, Types
<1>3. \A W : ~Holds(script'[p], W)
  BY HoldsNothing
<1>4. Harmed(p) => Harmed(p)'
  BY <1>1, <1>2 DEF Harmed
<1>5. Course(p)'
  <2>1. Course(p)
    BY DEF Path
  <2> QED
    BY <2>1, CourseEnds
<1>6. Saving(p)'
  <2>1. Course(p) /\ Saving(p)
    BY DEF Path
  <2> QED
    BY <2>1, SavingEnds
<1>7. Reasons(p)'
  <2>1. lost'[p] /\ kind'[p] # "recon" => ended'[p] = "threw" /\ job'[p] # "completed"
    BY DEF Path, Reasons
  <2>2. job'[p] = "failed" => Harmed(p)' \/ Got(p, "block")'
    BY <1>4 DEF Path, Reasons
  <2>3. job'[p] = "paused" => kind'[p] = "recon" \/ Got(p, "require")'
    BY DEF Path, Reasons
  <2> QED
    BY <1>3, <2>1, <2>2, <2>3 DEF Reasons
<1>8. Waiting(p)'
  <2>1. job'[p] = "completed" => verdicts'[p] = verdicts[p] /\ job[p] = "completed"
    OBVIOUS
  <2> QED
    BY <1>3, <2>1 DEF Path, Waiting, Got
<1>9. Hunt(p)'
  <2> SUFFICES ASSUME kind[p] = "recon" PROVE Hunt(p)'
    BY DEF Hunt
  <2>1. ~Carries(p)' /\ Behind(p) \subseteq Behind(p)'
    BY DEF Carries, Behind, Marks
  <2>2. Job!Said(p, {"failed"})' => job'[p] \in {"running", "failed"} /\ Harmed(p)'
    BY <1>4 DEF Path, Hunt, Job!Said
  <2>3. Cardinality(Executed(results'[p])) =< Cardinality(Behind(p)')
    BY <2>1, BehindGrows
  <2> QED
    BY <1>3, <2>1, <2>2, <2>3 DEF Hunt
<1> QED
  BY <1>5, <1>6, <1>7, <1>8, <1>9 DEF Path

\* After one that a command of MCP catches.
LEMMA CaughtKeeps ==
    ASSUME Types, Types', NEW p \in Commands, Path(p), ended[p] = "no", kind[p] \in Job!Mcp,
           job[p] = "running", script'[p] = <<"catch">>, ended'[p] = "no", job'[p] = job[p],
           kind'[p] = kind[p], saved'[p] = saved[p], rows'[p] = rows[p],
           verdicts'[p] = verdicts[p], lost'[p] \/ stops' > 0
    PROVE  Path(p)'
<1>1. \A W : Holds(script'[p], W) <=> "catch" \in W
  BY DEF Holds
<1>2. kind[p] # "recon" /\ kind[p] \in Job!Kinds /\ job'[p] \notin Closed
  BY DEF Types, Job!Mcp, Closed
<1>3. Course(p)'
  <2>1. Shape(kind'[p], script'[p])
    BY <1>2, ShortShapes
  <2>2. Holds(script'[p], Settling) /\ ~Holds(script'[p], {"verdict"})
    BY <1>1 DEF Settling
  <2> QED
    BY <1>2, <2>1, <2>2 DEF Course, Path
<1>4. Saving(p)'
  <2>1. Holds(script'[p], Aside) /\ \A i \in DOMAIN script'[p] : script'[p][i] # "save"
    BY <1>1 DEF Aside
  <2>2. Course(p) /\ Saving(p) /\ job'[p] # "completed"
    BY DEF Path
  <2> QED
    BY <2>1, <2>2, SavingEnds
<1>5. Reasons(p)'
  <2>1. Holds(script'[p], {"catch"}) /\ ~Holds(script'[p], {"paused"})
    BY <1>1
  <2> QED
    BY <1>2, <2>1 DEF Reasons
<1>6. Waiting(p)'
  <2>1. ~Holds(script'[p], Asking) /\ ~Holds(script'[p], {"completed"}) /\ job'[p] # "completed"
    BY <1>1 DEF Asking
  <2> QED
    BY <2>1 DEF Path, Waiting
<1>7. Hunt(p)'
  BY <1>2 DEF Hunt
<1> QED
  BY <1>3, <1>4, <1>5, <1>6, <1>7 DEF Path

\* The catch fails the job, and throws on.
LEMMA RethrowKeeps ==
    ASSUME Types, NEW p \in Commands, Path(p), Job!Rethrow(p)
    PROVE  Types' /\ Others(p) /\ Later /\ Path(p)'
<1>1. Job!At(p, "catch") /\ Course(p) /\ Saving(p)
  BY DEF Job!Rethrow, Path
<1>2. /\ ended[p] = "no" /\ script[p] # <<>> /\ Later /\ Shape(kind[p], script[p])
      /\ UNCHANGED <<kind, deciding, decided, stops>>
      /\ \A W : Holds(script[p], W) <=> "catch" \in W \/ Holds(Tail(script[p]), W)
  BY <1>1, AtIs
<1>3. /\ job' = [job EXCEPT ![p] = "failed"] /\ script' = [script EXCEPT ![p] = <<>>]
      /\ ended' = [ended EXCEPT ![p] = "threw"]
      /\ UNCHANGED <<rows, verdicts, overtaken, results, lost, saved, written, noting, shared>>
  BY DEF Job!Rethrow, Job!queue, Job!log
<1>4. "failed" \in Job!Statuses /\ "threw" \in Ends /\ <<>> \in Seq(Words)
  BY DEF Job!Statuses, Ends
<1>5. /\ Types' /\ Others(p) /\ script'[p] = <<>> /\ ended'[p] = "threw" /\ job'[p] = "failed"
  BY <1>2, <1>3, <1>4 DEF Types, Others, Same
<1>6. kind[p] # "recon" /\ Holds(script[p], {"catch"})
  BY <1>2 DEF Shape, OfHunt, Aside
<1>7. Course(p)'
  <2>1. Len(rows'[p]) = Len(verdicts'[p])
    BY <1>1, <1>3 DEF Course
  <2> QED
    BY <1>1, <1>2, <1>5, <2>1, CourseEnds
<1>8. Saving(p)'
  BY <1>1, <1>2, <1>3, <1>5, SavingEnds
<1>9. Reasons(p)'
  <2>1. Harmed(p)'
    BY <1>2, <1>3, <1>6 DEF Path, Reasons, Harmed
  <2> QED
    BY <1>5, <2>1, HoldsNothing DEF Reasons
<1>10. Waiting(p)'
  BY <1>2, <1>3, <1>5, HoldsNothing DEF Path, Waiting
<1>11. Hunt(p)'
  BY <1>2, <1>6 DEF Hunt
<1> QED
  BY <1>2, <1>5, <1>7, <1>8, <1>9, <1>10, <1>11 DEF Path

LEMMA PlanKeeps ==
    ASSUME Types, NEW p \in Commands, Path(p), NEW pauses \in BOOLEAN, Job!Plan(p, pauses)
    PROVE  Types' /\ Others(p) /\ Later /\ Path(p)'
<1> DEFINE w == IF pauses THEN "planOrPause" ELSE "plan"
<1>1. PICK v \in Job!Verdicts :
          /\ Job!Enqueue(p, v)
          /\ IF v = "block" THEN Job!Throws(p)
             ELSE /\ Job!Goes(p, IF v = "require" /\ pauses THEN <<"paused">> ELSE Job!Rest(p))
                  /\ UNCHANGED job
  BY DEF Job!Plan
<1>2. Job!At(p, w) /\ UNCHANGED <<results, lost, saved, written, noting, shared>>
      /\ w \in Asking /\ w # "note" /\ w # "create" /\ w # "save" /\ w \notin Aside
      /\ w \notin Job!Tried
  BY DEF Job!Plan, Job!log, Asking, Aside, Job!Tried
<1>3. /\ ended[p] = "no" /\ Head(script[p]) = w /\ script[p] # <<>> /\ job[p] \notin Closed
      /\ Tail(script[p]) \in Seq(Words) /\ Later /\ UNCHANGED <<kind, deciding, decided, stops>>
      /\ \A W : Holds(script[p], W) <=> w \in W \/ Holds(Tail(script[p]), W)
      /\ Shape(kind[p], script[p]) /\ script[p] \in Seq(Words) /\ kind[p] \in Job!Kinds
  BY <1>2, AtIs DEF Path
<1>4. /\ rows' \in [Commands -> Seq(RowStatuses)] /\ verdicts' \in [Commands -> Seq(Job!Verdicts)]
      /\ \A q \in Commands \ {p} : rows'[q] = rows[q] /\ verdicts'[q] = verdicts[q]
      /\ Len(rows'[p]) = Len(rows[p]) + 1
      /\ Len(verdicts'[p]) = Len(rows'[p]) /\ rows'[p] # <<>>
      /\ (\A x : Got(p, x)' <=> Got(p, x) \/ x = v) /\ overtaken' = overtaken
  BY <1>1, EnqueueIs DEF Path
<1>5. kind[p] # "recon" /\ kind[p] \notin Job!Mcp
  BY <1>2, <1>3 DEF Shape, OfHunt, OfMcp, Words, Asking
<1>6. kind[p] \in Job!Strict => Len(verdicts'[p]) =< 1
  <2> SUFFICES ASSUME kind[p] \in Job!Strict PROVE Len(verdicts'[p]) =< 1
    OBVIOUS
  <2>1. verdicts[p] = <<>> /\ Len(rows[p]) = Len(verdicts[p])
    BY <1>2, <1>3 DEF Path, Waiting, Course
  <2> QED
    BY <1>4, <2>1
<1> HIDE DEF w
<1>7. CASE v = "block"
  <2>1. Job!Throws(p) /\ Course(p)
    BY <1>1, <1>7 DEF Path
  <2>2. /\ script'[p] = <<>> /\ ended'[p] = "threw" /\ job' = job
        /\ script' \in [Commands -> Seq(Words)] /\ ended' \in [Commands -> Ends]
        /\ \A q \in Commands \ {p} : script'[q] = script[q] /\ ended'[q] = ended[q]
    BY <1>2, <1>3, <1>5, <2>1, ThrowsIs
  <2>3. Types' /\ Others(p)
    BY <1>2, <1>3, <1>4, <2>2 DEF Types, Others, Same
  <2>4. Path(p)'
    BY <1>2, <1>3, <1>4, <1>5, <1>6, <2>2, <2>3, ThrewKeeps DEF Closed
  <2> QED
    BY <1>3, <2>3, <2>4
<1>8. CASE v = "require" /\ pauses
  <2>1. script' = [script EXCEPT ![p] = <<"paused">>] /\ UNCHANGED <<ended, job>>
    BY <1>1, <1>8 DEF Job!Goes
  <2>2. /\ <<"paused">> \in Seq(Words) /\ \A W : Holds(<<"paused">>, W) <=> "paused" \in W
        /\ DOMAIN <<"paused">> = {1}
    BY DEF Words, Settling, Holds
  <2>3. /\ Types' /\ Others(p) /\ script'[p] = <<"paused">> /\ ended'[p] = "no"
        /\ job'[p] = job[p] /\ kind'[p] = kind[p] /\ saved'[p] = saved[p] /\ lost'[p] = lost[p]
    BY <1>2, <1>3, <1>4, <2>1, <2>2 DEF Types, Others, Same
  <2>4. Shape(kind'[p], script'[p])
    BY <1>3, <1>5, <2>3, ShortShapes
  <2>5. Course(p)'
    BY <1>3, <1>4, <1>5, <2>2, <2>3, <2>4 DEF Course, Settling, Asking
  <2>6. Saving(p)'
    <3>1. \A i \in DOMAIN script'[p] : script'[p][i] # "save"
      BY <2>2, <2>3
    <3>2. Holds(script'[p], Aside) /\ job'[p] # "completed"
      BY <1>3, <2>2, <2>3 DEF Closed, Aside
    <3> QED
      BY <1>3, <2>3, <3>1, <3>2, SavingEnds DEF Path
  <2>7. Reasons(p)'
    <3>1. ~lost[p]
      BY <1>3, <1>5 DEF Path, Reasons, Shape
    <3>2. ~Holds(script'[p], {"catch"}) /\ Got(p, "require")'
      BY <1>4, <1>8, <2>2, <2>3
    <3> QED
      BY <1>3, <2>3, <3>1, <3>2 DEF Reasons, Closed
  <2>8. Waiting(p)'
    <3>1. ~Holds(script'[p], Asking) /\ ~Holds(script'[p], {"completed"})
      BY <2>2, <2>3 DEF Asking
    <3>2. job'[p] # "completed"
      BY <1>3, <2>3 DEF Closed
    <3>3. kind[p] \in Job!Strict => Len(verdicts'[p]) =< 1
      BY <1>6
    <3> QED
      BY <2>3, <3>1, <3>2, <3>3 DEF Waiting
  <2>9. Hunt(p)'
    BY <1>5, <2>3 DEF Hunt
  <2> QED
    BY <1>3, <2>3, <2>5, <2>6, <2>7, <2>8, <2>9 DEF Path
<1>9. CASE v # "block" /\ ~(v = "require" /\ pauses)
  <2>1. script' = [script EXCEPT ![p] = Tail(@)] /\ UNCHANGED <<ended, job>>
    BY <1>1, <1>9 DEF Job!Goes, Job!Rest
  <2>2. w = "planOrPause" => v = "allow"
    BY <1>9 DEF w, Job!Verdicts
  <2> QED
    BY <1>1, <1>2, <2>1, <2>2, AskedKeeps
<1> QED
  BY <1>7, <1>8, <1>9

LEMMA VerdictKeeps ==
    ASSUME Types, NEW p \in Commands, Path(p), Job!Verdict(p)
    PROVE  Types' /\ Others(p) /\ Later /\ Path(p)'
<1> DEFINE v == verdicts[p][Job!Last(p)]
<1>1. Job!At(p, "verdict") /\ Course(p)
  BY DEF Job!Verdict, Path
<1>2. /\ ended[p] = "no" /\ Head(script[p]) = "verdict" /\ script[p] # <<>> /\ job[p] \notin Closed
      /\ Later /\ UNCHANGED <<kind, deciding, decided, stops>>
      /\ \A W : Holds(script[p], W) <=> "verdict" \in W \/ Holds(Tail(script[p]), W)
      /\ Shape(kind[p], script[p]) /\ script[p] \in Seq(Words)
  BY <1>1, AtIs
<1>3. /\ job' = [job EXCEPT ![p] = Job!Settled(v)] /\ script' = [script EXCEPT ![p] = <<>>]
      /\ ended' = IF v = "block" THEN [ended EXCEPT ![p] = "refused"] ELSE ended
      /\ UNCHANGED <<rows, verdicts, overtaken, results, lost, saved, written, noting, shared>>
  BY DEF Job!Verdict, Job!queue, Job!log
<1>4. \A i \in DOMAIN Tail(script[p]) : Tail(script[p])[i] = "note"
  BY <1>2, ShapeOfTail DEF Settling
<1>5. /\ ~Holds(Tail(script[p]), Asking) /\ ~Holds(script[p], Aside)
      /\ ~Holds(script[p], {"save"})
  BY <1>2, <1>4 DEF Holds, Asking, Aside
<1>6. /\ rows[p] # <<>> /\ Len(verdicts[p]) = Len(rows[p]) /\ rows[p] \in Seq(RowStatuses)
      /\ verdicts[p] \in Seq(Job!Verdicts)
  BY <1>1, <1>2, <1>5 DEF Course, Asking, Types
<1>7. Len(verdicts[p]) \in DOMAIN verdicts[p] /\ v = verdicts[p][Len(verdicts[p])]
      /\ v \in Job!Verdicts /\ DOMAIN verdicts[p] = 1 .. Len(verdicts[p])
  BY <1>6 DEF Job!Last
<1>8. Got(p, v)
  BY <1>7 DEF Got, Holds
<1>9. kind[p] # "recon"
  BY <1>2 DEF Shape, OfHunt
<1>10. kind[p] \in Job!Strict => \A x : Got(p, x) => x = v
  <2> SUFFICES ASSUME kind[p] \in Job!Strict, NEW x, Got(p, x) PROVE x = v
    OBVIOUS
  <2>1. Len(verdicts[p]) =< 1
    BY DEF Path, Waiting
  <2>2. PICK i \in DOMAIN verdicts[p] : verdicts[p][i] \in {x}
    BY DEF Got, Holds
  <2>3. i = Len(verdicts[p])
    BY <1>6, <1>7, <2>1, <2>2
  <2> QED
    BY <1>7, <2>2, <2>3
<1> HIDE DEF v
<1>11. /\ Job!Settled(v) \in Closed /\ Job!Settled(v) \in Job!Statuses /\ "refused" \in Ends
       /\ Job!Settled(v) = "failed" => v = "block"
       /\ Job!Settled(v) = "paused" => v = "require"
       /\ Job!Settled(v) = "completed" => v = "allow"
  BY <1>7 DEF Job!Settled, Job!Verdicts, Closed, Job!Statuses, Ends
<1>12. <<>> \in Seq(Words)
  OBVIOUS
<1>13. /\ Types' /\ Others(p) /\ script'[p] = <<>> /\ ended'[p] \in {"no", "refused"}
       /\ job'[p] = Job!Settled(v) /\ kind'[p] = kind[p] /\ saved'[p] = saved[p]
       /\ lost'[p] = lost[p]
  BY <1>2, <1>3, <1>11, <1>12 DEF Types, Others, Same
<1>14. \A x : Got(p, x)' <=> Got(p, x)
  BY <1>3 DEF Got
<1>15. Course(p)'
  BY <1>1, <1>3, <1>6, <1>11, <1>13, CourseEnds DEF Closed
<1>16. Saving(p)'
  <2>1. \A i \in DOMAIN script[p] : script[p][i] # "save"
    BY <1>5 DEF Holds
  <2>2. job[p] \notin {"paused", "failed"} /\ \A i \in DOMAIN script'[p] : script'[p][i] # "save"
    BY <1>2, <1>13 DEF Closed
  <2> QED
    BY <1>1, <1>2, <1>5, <1>13, <2>1, <2>2, SavingEnds DEF Path
<1>17. Reasons(p)'
  <2>1. ~lost[p]
    BY <1>2, <1>5, <1>9 DEF Path, Reasons, Aside, Holds
  <2> QED
    BY <1>8, <1>9, <1>11, <1>13, <1>14, <2>1, HoldsNothing DEF Reasons
<1>18. Waiting(p)'
  BY <1>3, <1>10, <1>11, <1>13, <1>14, HoldsNothing DEF Path, Waiting
<1>19. Hunt(p)'
  BY <1>9, <1>13 DEF Hunt
<1> QED
  BY <1>2, <1>13, <1>15, <1>16, <1>17, <1>18, <1>19 DEF Path

LEMMA WorkKeeps ==
    ASSUME Types, NEW p \in Commands, Path(p), NEW w \in Working, Job!Work(p, w)
    PROVE  Types' /\ Others(p) /\ Later /\ Path(p)'
<1>1. Job!At(p, w) /\ Course(p)
      /\ UNCHANGED <<rows, verdicts, overtaken, results, saved, written, noting, shared>>
  BY DEF Job!Work, Job!queue, Job!log, Path
<1>2. /\ ended[p] = "no" /\ Head(script[p]) = w /\ script[p] # <<>> /\ job[p] \notin Closed
      /\ Tail(script[p]) \in Seq(Words) /\ Later /\ UNCHANGED <<kind, deciding, decided, stops>>
      /\ \A W : Holds(script[p], W) <=> w \in W \/ Holds(Tail(script[p]), W)
      /\ Shape(kind[p], script[p])
  BY <1>1, AtIs DEF Working
<1>3. kind[p] # "recon"
  BY <1>2 DEF Shape, OfHunt
<1>4. CASE Job!Goes(p, Job!Rest(p)) /\ UNCHANGED <<job, lost>>
  <2>1. script' = [script EXCEPT ![p] = Tail(@)] /\ UNCHANGED <<ended, job, lost>>
    BY <1>4 DEF Job!Goes, Job!Rest
  <2>2. /\ Types' /\ Others(p) /\ Onward(p)
        /\ job'[p] = job[p] /\ script'[p] = Tail(script[p]) /\ ended'[p] = ended[p]
        /\ kind'[p] = kind[p] /\ rows'[p] = rows[p] /\ verdicts'[p] = verdicts[p]
        /\ overtaken' = overtaken
        /\ results'[p] = results[p] /\ lost'[p] = lost[p] /\ saved'[p] = saved[p]
    BY <1>1, <1>2, <2>1 DEF Types, Others, Same, Onward
  <2>3. Course(p)'
    <3>1. Len(rows[p]) = Len(verdicts[p])
      BY <1>1 DEF Course
    <3> QED
      BY <1>1, <1>2, <2>2, <3>1, CourseGoesOn DEF Closed, Settling, Asking, Working
  <2>4. Saving(p)'
    <3>1. saved'[p] = saved[p] + (IF Head(script[p]) = "save" THEN 1 ELSE 0)
      BY <1>2, <2>2 DEF Types, Working
    <3> QED
      BY <1>1, <1>2, <2>2, <3>1, SavingGoesOn DEF Path, Working, Aside
  <2>5. Reasons(p)'
    BY <1>2, <2>2 DEF Path, Reasons, Got, Harmed, Blamed, Working
  <2>6. Waiting(p)'
    BY <1>2, <2>2 DEF Path, Waiting, Got
  <2>7. Hunt(p)'
    BY <1>3, <2>2 DEF Hunt
  <2> QED
    BY <1>2, <2>2, <2>3, <2>4, <2>5, <2>6, <2>7 DEF Path
<1>5. CASE Job!Throws(p) /\ lost' = [lost EXCEPT ![p] = TRUE]
  <2>1. /\ script' \in [Commands -> Seq(Words)] /\ ended' \in [Commands -> Ends] /\ job' = job
        /\ \A q \in Commands \ {p} : script'[q] = script[q] /\ ended'[q] = ended[q]
        /\ \/ script'[p] = <<>> /\ ended'[p] = "threw" /\ ~(kind[p] \in Job!Mcp /\ job[p] = "running")
           \/ /\ script'[p] = <<"catch">> /\ ended'[p] = "no"
              /\ kind[p] \in Job!Mcp /\ job[p] = "running"
    BY <1>1, <1>2, <1>5, ThrowsIs DEF Working, Job!Tried
  <2>2. /\ lost' \in [Commands -> BOOLEAN] /\ lost'[p]
        /\ \A q \in Commands \ {p} : lost'[q] = lost[q]
    BY <1>5 DEF Types
  <2>3. Types' /\ Others(p) /\ kind'[p] = kind[p] /\ saved'[p] = saved[p]
        /\ results'[p] = results[p] /\ rows'[p] = rows[p] /\ verdicts'[p] = verdicts[p]
    BY <1>1, <1>2, <2>1, <2>2 DEF Types, Others, Same
  <2>4. /\ Len(rows'[p]) = Len(verdicts'[p]) /\ \A x : Got(p, x)' <=> Got(p, x)
        /\ kind[p] \in Job!Strict => Len(verdicts'[p]) =< 1
    BY <1>1, <2>3 DEF Path, Course, Waiting, Got
  <2>5. job'[p] = job[p] /\ job'[p] # "completed"
    BY <1>2, <2>1 DEF Closed
  <2>6. CASE script'[p] = <<"catch">>
    <3>1. /\ kind[p] \in Job!Mcp /\ job[p] = "running" /\ ended'[p] = "no"
      BY <2>1, <2>6
    <3>2. Path(p)'
      BY <1>2, <2>2, <2>3, <2>5, <2>6, <3>1, CaughtKeeps
    <3> QED
      BY <1>2, <2>3, <3>2
  <2>7. CASE script'[p] = <<>>
    <3>1. ended'[p] = "threw" /\ ~(kind[p] \in Job!Mcp /\ job[p] = "running")
      BY <2>1, <2>7
    <3>2. kind[p] \notin Job!Mcp
      <4> SUFFICES ASSUME kind[p] \in Job!Mcp PROVE FALSE
        OBVIOUS
      <4>1. Holds(script[p], {"running"}) /\ w # "create" /\ w # "running"
        BY <1>1, <1>2, <3>1 DEF Course, Working
      <4>2. PICK k \in DOMAIN script[p] : script[p][k] = "running"
        BY <4>1 DEF Holds
      <4>3. /\ script[p][1] = w /\ 1 \in DOMAIN script[p]
            /\ DOMAIN script[p] = 1 .. Len(script[p]) /\ Len(script[p]) \in Nat
        BY <1>2, TailIs DEF Types
      <4>4. k # 1 /\ 1 < k
        BY <4>1, <4>2, <4>3
      <4> QED
        BY <1>2, <4>1, <4>2, <4>3, <4>4 DEF Shape, OfMcp
    <3>3. Path(p)'
      BY <1>2, <1>3, <2>2, <2>3, <2>4, <2>5, <2>7, <3>1, <3>2, ThrewKeeps
    <3> QED
      BY <1>2, <2>3, <3>3
  <2> QED
    BY <2>1, <2>6, <2>7
<1> QED
  BY <1>4, <1>5 DEF Job!Work

-----------------------------------------------------------------------------
(***************************************************************************)
(* Hunts, and the people who decide about their actions.                   *)
(***************************************************************************)
LEMMA SumKeeps ==
    ASSUME Types, NEW p \in Commands, Path(p), Job!Sum(p)
    PROVE  Types' /\ Others(p) /\ Later /\ Path(p)'
<1> DEFINE status == Job!Summary(p)
<1>1. Job!At(p, "sum") /\ Course(p)
  BY DEF Job!Sum, Path
<1>2. /\ status \in {"failed", "paused", "completed"}
      /\ status = "failed" <=> Job!Said(p, {"failed"})
  BY DEF Job!Summary
<1>3. /\ Job!Goes(p, Job!Rest(p)) /\ job' = [job EXCEPT ![p] = status]
      /\ UNCHANGED <<rows, verdicts, overtaken, results, lost, saved, written, noting, shared>>
  BY DEF Job!Sum, Job!queue, Job!log
<1> HIDE DEF status
<1>4. /\ Types' /\ Others(p) /\ Later /\ Onward(p)
      /\ job'[p] = status /\ script'[p] = Tail(script[p]) /\ ended'[p] = ended[p]
      /\ kind'[p] = kind[p] /\ rows'[p] = rows[p] /\ verdicts'[p] = verdicts[p]
      /\ overtaken' = overtaken
      /\ results'[p] = results[p] /\ lost'[p] = lost[p]
      /\ saved'[p] = saved[p] + (IF Head(script[p]) = "save" THEN 1 ELSE 0)
  <2>1. status \in Job!Statuses
    BY <1>2 DEF Job!Statuses
  <2>2. saved' = IF "sum" = "save" THEN [saved EXCEPT ![p] = @ + 1] ELSE saved
    BY <1>3
  <2> QED
    BY <1>1, <1>3, <2>1, <2>2, JobStatement
<1>5. /\ Head(script[p]) = "sum" /\ job[p] \notin Closed /\ UNCHANGED <<decided, stops>>
      /\ Shape(kind[p], script[p]) /\ ended[p] = "no" /\ script[p] # <<>>
      /\ \A W : Holds(script[p], W) <=> "sum" \in W \/ Holds(script'[p], W)
  <2>1. \A W : Holds(script[p], W) <=> "sum" \in W \/ Holds(Tail(script[p]), W)
    BY <1>1, AtIs
  <2>2. script'[p] = Tail(script[p])
    BY <1>4
  <2>3. \A W : Holds(script[p], W) <=> "sum" \in W \/ Holds(script'[p], W)
    BY <2>1, <2>2
  <2>4. /\ Head(script[p]) = "sum" /\ job[p] \notin Closed /\ UNCHANGED <<decided, stops>>
        /\ Shape(kind[p], script[p]) /\ ended[p] = "no" /\ script[p] # <<>>
    BY <1>1, AtIs
  <2> QED
    BY <2>3, <2>4
<1>6. kind[p] = "recon"
  BY <1>5 DEF Shape, Hunting
<1>7. \A i \in DOMAIN script'[p] : script'[p][i] = "note"
  <2>1. Head(script[p]) \in Settling
    BY <1>5 DEF Settling
  <2>2. \A i \in DOMAIN Tail(script[p]) : Tail(script[p])[i] = "note"
    BY <1>5, <2>1, ShapeOfTail
  <2> QED
    BY <1>4, <2>2
<1>8. Course(p)'
  <2>1. Len(rows[p]) = Len(verdicts[p])
    BY <1>1 DEF Course
  <2> QED
    BY <1>1, <1>2, <1>4, <1>5, <2>1, CourseGoesOn DEF Closed, Settling, Asking
<1>9. Saving(p)'
  BY <1>1, <1>4, <1>5, SavingGoesOn DEF Path
<1>10. Reasons(p)'
  <2>1. job'[p] = "failed" => Harmed(p)'
    BY <1>2, <1>4, <1>5, <1>6 DEF Path, Hunt, Harmed, Blamed
  <2>2. ~Holds(script'[p], {"paused"}) /\ ~Holds(script'[p], {"catch"})
    BY <1>7 DEF Holds
  <2> QED
    BY <1>4, <1>6, <2>1, <2>2 DEF Reasons
<1>11. Waiting(p)'
  BY <1>4, <1>6 DEF Waiting, Job!Strict
<1>12. Hunt(p)'
  <2>1. /\ ~Holds(script'[p], Hunting) /\ ~Holds(script'[p], {"running"})
        /\ ~Holds(script'[p], {"create"}) /\ ~Holds(script'[p], Carrying)
    BY <1>7 DEF Holds, Hunting, Carrying, Failing
  <2>2. ~Carries(p)' /\ ~Carries(p)
    <3>1. script'[p] # <<>> => Head(script'[p]) \notin Carrying
      BY <1>4, <2>1, HoldsTail DEF Types
    <3> QED
      BY <1>5, <3>1 DEF Carries, Carrying, Failing
  <2>3. Behind(p)' = Behind(p)
    BY <1>4, <2>2 DEF Behind, Marks
  <2>4. Job!Said(p, {"failed"})' => job'[p] \in {"running", "failed"} /\ Harmed(p)'
    BY <1>2, <1>4, <1>5, <1>6 DEF Path, Hunt, Job!Said, Harmed, Blamed
  <2>5. Cardinality(Executed(results'[p])) =< Cardinality(Behind(p)')
    BY <1>4, <1>6, <2>3 DEF Path, Hunt
  <2> QED
    BY <1>4, <1>5, <2>1, <2>2, <2>4, <2>5 DEF Hunt
<1> QED
  BY <1>4, <1>8, <1>9, <1>10, <1>11, <1>12 DEF Path

LEMMA ReplaceIs ==
    ASSUME NEW S, NEW s \in Seq(S), NEW i \in DOMAIN s, NEW x \in S
    PROVE  LET t == [s EXCEPT ![i] = x]
           IN  /\ t \in Seq(S) /\ Len(t) = Len(s) /\ DOMAIN t = DOMAIN s /\ t[i] = x
               /\ \A k \in DOMAIN s : k # i => t[k] = s[k]
  OBVIOUS

LEMMA ExecutedOfAppended ==
    ASSUME NEW S, NEW s \in Seq(S), NEW x \in S
    PROVE  Executed(Append(s, x)) =
              IF x = "executed" THEN Executed(s) \cup {Len(s) + 1} ELSE Executed(s)
  BY AppendIs DEF Executed

LEMMA SaidIs == \A p, W : Job!Said(p, W) <=> Holds(results[p], W)
  BY DEF Job!Said, Holds

\* A hunt that is at a tool runs.
LEMMA HuntIsAt ==
    ASSUME Types, NEW p \in Commands, Path(p), NEW w \in {"tool"} \cup Carrying, Handles(p, w)
    PROVE  /\ kind[p] = "recon" /\ job[p] = "running" /\ ended[p] = "no"
           /\ script[p] # <<>> /\ Head(script[p]) = w /\ Later
           /\ script[p] \in Seq(Words) /\ Tail(script[p]) \in Seq(Words)
           /\ Shape("recon", script[p]) /\ Shape("recon", Tail(script[p]))
           /\ UNCHANGED kind
           /\ \A W : Holds(script[p], W) <=> w \in W \/ Holds(Tail(script[p]), W)
           /\ ~Holds(Tail(script[p]), Carrying \cup {"create", "running"})
<1>1. /\ ended[p] = "no" /\ script[p] # <<>> /\ Head(script[p]) = w /\ Later
      /\ script[p] \in Seq(Words) /\ Tail(script[p]) \in Seq(Words)
      /\ Shape(kind[p], script[p]) /\ Shape(kind[p], Tail(script[p]))
      /\ UNCHANGED kind
      /\ \A W : Holds(script[p], W) <=> w \in W \/ Holds(Tail(script[p]), W)
      /\ kind[p] = "recon" => ~Holds(Tail(script[p]), Carrying \cup {"create"})
  BY HandlesIs DEF Path, Handles
<1>2. kind[p] = "recon"
  BY <1>1 DEF Shape, Hunting
<1>3. ~Holds(script[p], {"running"})
  <2> SUFFICES ASSUME NEW k \in DOMAIN script[p], script[p][k] = "running" PROVE FALSE
    BY DEF Holds
  <2>1. /\ script[p][1] = w /\ 1 \in DOMAIN script[p] /\ DOMAIN script[p] = 1 .. Len(script[p])
        /\ Len(script[p]) \in Nat
    BY <1>1, TailIs
  <2>2. k # 1 /\ 1 < k
    BY <2>1 DEF Carrying, Failing
  <2> QED
    BY <1>1, <1>2, <2>1, <2>2 DEF Shape, OfHunt, Carrying, Failing
<1>4. job[p] = "running"
  BY <1>1, <1>2, <1>3 DEF Path, Hunt, Hunting
<1>5. ~Holds(Tail(script[p]), Carrying \cup {"create", "running"})
  BY <1>1, <1>2, <1>3 DEF Holds
<1> QED
  BY <1>1, <1>2, <1>4, <1>5

\* The rest comes next, or one more statement about the same tool.
Next2(p) == \/ script'[p] = Tail(script[p])
            \/ \E c \in Carrying : script'[p] = <<c>> \o Tail(script[p])

LEMMA HuntMoves ==
    ASSUME Types, Types', NEW p \in Commands, Path(p), NEW w \in {"tool"} \cup Carrying,
           Handles(p, w), Next2(p), ended'[p] = "no", job'[p] = job[p], saved'[p] = saved[p],
           Len(rows'[p]) = Len(verdicts'[p]), lost[p] => lost'[p], \A x : Got(p, x) => Got(p, x)'
    PROVE  /\ Course(p)' /\ Saving(p)' /\ Reasons(p)' /\ Waiting(p)' /\ kind'[p] = "recon"
           /\ ~Holds(script'[p], {"create"}) /\ ~Holds(script'[p], {"running"})
           /\ script'[p] = Tail(script[p]) => ~Carries(p)'
           /\ \A c \in Carrying :
                 script'[p] = <<c>> \o Tail(script[p]) => Carries(p)' /\ Head(script'[p]) = c
<1> DEFINE t == Tail(script[p])
<1>1. /\ kind[p] = "recon" /\ job[p] = "running" /\ ended[p] = "no"
      /\ script[p] # <<>> /\ Head(script[p]) = w /\ Later
      /\ script[p] \in Seq(Words) /\ t \in Seq(Words)
      /\ Shape("recon", script[p]) /\ Shape("recon", t)
      /\ UNCHANGED kind
      /\ \A W : Holds(script[p], W) <=> w \in W \/ Holds(t, W)
      /\ ~Holds(t, Carrying \cup {"create", "running"})
  BY HuntIsAt
<1>2. Saves(script[p]) = Saves(t) /\ Saves(t) \in Nat
  <2>1. Saves(t) \in Nat
    BY <1>1, SavesAre
  <2>2. Saves(script[p]) = Saves(t) + (IF Head(script[p]) = "save" THEN 1 ELSE 0)
    BY <1>1, SavesOfTail
  <2>3. Head(script[p]) # "save"
    BY <1>1 DEF Carrying, Failing
  <2> HIDE DEF t
  <2> QED
    BY <2>1, <2>2, <2>3
<1>3. ASSUME NEW c \in Carrying
      PROVE  LET u == <<c>> \o t
             IN  /\ u \in Seq(Words) /\ u # <<>> /\ Head(u) = c /\ Shape("recon", u)
                 /\ Saves(u) = Saves(t) /\ \A W : Holds(u, W) <=> c \in W \/ Holds(t, W)
  <2> DEFINE u == <<c>> \o t
  <2>1. c \in Words /\ c # "save"
    BY DEF Carrying, Failing, Words, Hunting
  <2>2. u \in Seq(Words) /\ u # <<>> /\ Head(u) = c /\ Tail(u) = t
    BY <1>1, <2>1, PushIs
  <2>3. Shape("recon", u)
    BY <1>1, ShapeOfCarry
  <2> HIDE DEF t, u
  <2>4. Saves(u) = Saves(t)
    <3>1. Saves(u) = Saves(Tail(u)) + (IF Head(u) = "save" THEN 1 ELSE 0)
      BY <2>2, SavesOfTail
    <3>2. Saves(u) = Saves(t) + (IF Head(u) = "save" THEN 1 ELSE 0)
      BY <2>2, <3>1, Zenon
    <3>3. Head(u) # "save"
      BY <2>1, <2>2
    <3> QED
      BY <1>2, <3>2, <3>3
  <2>5. \A W : Holds(u, W) <=> c \in W \/ Holds(t, W)
    BY <2>2, HoldsTail
  <2> QED
    BY <2>2, <2>3, <2>4, <2>5 DEF u
<1> HIDE DEF t
<1>4. /\ Shape("recon", script'[p]) /\ Saves(script'[p]) = Saves(script[p])
      /\ \A W : Holds(script'[p], W) => Holds(t, W) \/ \E c \in Carrying : c \in W
      /\ \A W : Holds(t, W) => Holds(script'[p], W)
  <2>1. CASE script'[p] = t
    BY <1>1, <1>2, <2>1
  <2>2. CASE \E c \in Carrying : script'[p] = <<c>> \o t
    <3>1. PICK c \in Carrying : script'[p] = <<c>> \o t
      BY <2>2
    <3>2. /\ Shape("recon", script'[p]) /\ Saves(script'[p]) = Saves(t)
          /\ \A W : Holds(script'[p], W) <=> c \in W \/ Holds(t, W)
      BY <1>3, <3>1
    <3> QED
      BY <1>2, <3>2
  <2> QED
    BY <2>1, <2>2 DEF Next2, t
<1>5. job'[p] \notin Closed /\ kind'[p] = "recon"
  BY <1>1 DEF Closed
<1>6. Course(p)'
  <2>1. Holds(script'[p], Settling)
    BY <1>1, <1>4, <1>5 DEF Path, Course, Settling, Carrying, Failing
  <2>2. ~Holds(script'[p], {"verdict"})
    BY <1>4 DEF Shape, OfHunt, Holds
  <2> QED
    BY <1>4, <1>5, <2>1, <2>2 DEF Course, Job!Mcp
<1>7. Saving(p)'
  <2>1. Job!Artifacts(p)' = Job!Artifacts(p)
    BY <1>1 DEF Job!Artifacts
  <2>2. ~Holds(script[p], Aside) /\ job'[p] # "completed"
    BY <1>1 DEF Shape, OfHunt, Holds
  <2> QED
    BY <1>1, <1>4, <2>1, <2>2 DEF Path, Saving
<1>8. Reasons(p)'
  <2>1. ~Holds(script'[p], {"paused"}) /\ ~Holds(script'[p], {"catch"})
    BY <1>4 DEF Shape, OfHunt, Holds, Aside
  <2> QED
    BY <1>1, <1>5, <2>1 DEF Reasons
<1>9. Waiting(p)'
  BY <1>5 DEF Waiting, Job!Strict
<1>10. ~Holds(script'[p], {"create"}) /\ ~Holds(script'[p], {"running"})
  <2>1. ~Holds(t, {"create"}) /\ ~Holds(t, {"running"})
    BY <1>1 DEF Holds
  <2> QED
    BY <1>4, <2>1 DEF Carrying, Failing
<1>11. script'[p] = t => ~Carries(p)'
  <2>1. t # <<>> => Head(t) \notin Carrying \cup {"create", "running"}
    BY <1>1, HeadHolds
  <2> QED
    BY <2>1 DEF Carries
<1>12. ASSUME NEW c \in Carrying, script'[p] = <<c>> \o t
       PROVE  Carries(p)' /\ Head(script'[p]) = c
  BY <1>3, <1>12 DEF Carries
<1> QED
  BY <1>5, <1>6, <1>7, <1>8, <1>9, <1>10, <1>11, <1>12 DEF t

\* What a hunt says and does at a tool, as far as the counts go.
LEMMA HuntAfter ==
    ASSUME Types, Types', NEW p \in Commands, Path(p), NEW w \in {"tool"} \cup Carrying,
           Handles(p, w), Next2(p), ended'[p] = "no", job'[p] = job[p], saved'[p] = saved[p],
           Len(rows'[p]) = Len(verdicts'[p]), lost[p] => lost'[p], \A x : Got(p, x) => Got(p, x)',
           Carries(p)' => rows'[p] # <<>> /\ (rows'[p][Len(rows'[p])] = "approved" \/ Blamed(p)'),
           Carries(p)' /\ Head(script'[p]) \in Failing => Harmed(p)',
           Holds(results'[p], {"failed"}) => Holds(results[p], {"failed"}) \/ Harmed(p)',
           Cardinality(Executed(results'[p])) =< Cardinality(Behind(p)')
    PROVE  Path(p)'
<1>1. /\ kind[p] = "recon" /\ job[p] = "running" /\ Later
  BY HuntIsAt
<1>2. /\ Course(p)' /\ Saving(p)' /\ Reasons(p)' /\ Waiting(p)' /\ kind'[p] = "recon"
      /\ ~Holds(script'[p], {"create"}) /\ ~Holds(script'[p], {"running"})
  BY HuntMoves
<1>3. Harmed(p) => Harmed(p)'
  <2>1. stops > 0 => stops' > 0
    BY <1>1 DEF Later, Types
  <2> QED
    BY <1>1, <2>1, BlamedStays DEF Harmed
<1>4. Job!Said(p, {"failed"})' => job'[p] \in {"running", "failed"} /\ Harmed(p)'
  <2>1. Holds(results[p], {"failed"}) => Harmed(p)
    BY <1>1, SaidIs DEF Path, Hunt
  <2>2. Job!Said(p, {"failed"})' <=> Holds(results'[p], {"failed"})
    BY DEF Job!Said, Holds
  <2> QED
    BY <1>1, <1>3, <2>1, <2>2
<1>5. Hunt(p)'
  BY <1>1, <1>2, <1>4 DEF Hunt
<1> QED
  BY <1>2, <1>5 DEF Path

\* A result is appended.
LEMMA SaysIs ==
    ASSUME Types, NEW p \in Commands, NEW result \in Outcomes,
           results' = [results EXCEPT ![p] = Append(@, result)]
    PROVE  /\ results' \in [Commands -> Seq(Outcomes)]
           /\ \A q \in Commands \ {p} : results'[q] = results[q]
           /\ results'[p] = Append(results[p], result)
           /\ Holds(results'[p], {"failed"}) => Holds(results[p], {"failed"}) \/ result = "failed"
           /\ result # "executed" => Executed(results'[p]) = Executed(results[p])
           /\ result = "executed" =>
                 Cardinality(Executed(results'[p])) = Cardinality(Executed(results[p])) + 1
<1>1. results[p] \in Seq(Outcomes)
  BY DEF Types
<1>2. /\ results' \in [Commands -> Seq(Outcomes)] /\ results'[p] = Append(results[p], result)
      /\ \A q \in Commands \ {p} : results'[q] = results[q]
  BY <1>1, AppendIs DEF Types
<1>3. Holds(results'[p], {"failed"}) => Holds(results[p], {"failed"}) \/ result = "failed"
  <2>1. Holds(Append(results[p], result), {"failed"}) <=>
           Holds(results[p], {"failed"}) \/ result \in {"failed"}
    BY <1>1, AppendHas
  <2> QED
    BY <1>2, <2>1
<1>4. Executed(results'[p]) =
         IF result = "executed" THEN Executed(results[p]) \cup {Len(results[p]) + 1}
                              ELSE Executed(results[p])
  BY <1>1, <1>2, ExecutedOfAppended
<1>5. result = "executed" =>
         Cardinality(Executed(results'[p])) = Cardinality(Executed(results[p])) + 1
  <2>1. IsFiniteSet(Executed(results[p])) /\ Len(results[p]) + 1 \notin Executed(results[p])
    BY <1>1, ExecutedAre DEF Executed
  <2> QED
    BY <1>4, <2>1, FS_AddElement
<1> QED
  BY <1>2, <1>3, <1>4, <1>5

LEMMA HuntCounts ==
    ASSUME Types, NEW p \in Commands, Path(p), kind[p] = "recon"
    PROVE  /\ Cardinality(Executed(results[p])) =< Cardinality(Behind(p))
           /\ Cardinality(Executed(results[p])) \in Nat /\ Cardinality(Behind(p)) \in Nat
  BY ExecutedAre, BehindIs DEF Path, Hunt, Types

\* What is proposed comes after what is there.
LEMMA EnqueuedCounts ==
    ASSUME Types, NEW p \in Commands, Path(p), NEW v \in Job!Verdicts, Job!Enqueue(p, v)
    PROVE  /\ rows' \in [Commands -> Seq(RowStatuses)]
           /\ verdicts' \in [Commands -> Seq(Job!Verdicts)]
           /\ \A q \in Commands \ {p} : rows'[q] = rows[q] /\ verdicts'[q] = verdicts[q]
           /\ Len(rows'[p]) = Len(verdicts'[p]) /\ (\A x : Got(p, x) => Got(p, x)')
           /\ Marks(p) \subseteq Marks(p)' /\ overtaken' = overtaken
           /\ rows'[p] = Append(rows[p], Job!Queued(v)) /\ rows'[p] # <<>>
<1>1. /\ rows' \in [Commands -> Seq(RowStatuses)]
      /\ verdicts' \in [Commands -> Seq(Job!Verdicts)]
      /\ \A q \in Commands \ {p} : rows'[q] = rows[q] /\ verdicts'[q] = verdicts[q]
      /\ Len(rows'[p]) = Len(verdicts'[p]) /\ (\A x : Got(p, x) => Got(p, x)')
      /\ rows'[p] = Append(rows[p], Job!Queued(v)) /\ rows'[p] # <<>>
      /\ Job!Queued(v) \in RowStatuses /\ overtaken' = overtaken
  BY EnqueueIs DEF Path
<1>2. \A i \in DOMAIN rows[p] : i \in DOMAIN rows'[p] /\ rows'[p][i] = rows[p][i]
  BY <1>1, AppendIs DEF Types
<1>3. Marks(p) \subseteq Marks(p)'
  BY <1>1, <1>2 DEF Marks
<1> QED
  BY <1>1, <1>3

LEMMA ToolKeeps ==
    ASSUME Types, NEW p \in Commands, Path(p), Job!Tool(p)
    PROVE  Types' /\ Others(p) /\ Later /\ Path(p)'
<1>1. Job!At(p, "tool") /\ UNCHANGED <<job, lost, saved, written, noting, shared>>
  BY DEF Job!Tool, Job!log
<1>2. /\ kind[p] = "recon" /\ ended[p] = "no" /\ Head(script[p]) = "tool" /\ Later
      /\ script[p] # <<>> /\ script[p] \in Seq(Words) /\ Tail(script[p]) \in Seq(Words)
      /\ UNCHANGED <<kind, deciding, decided, stops>> /\ Handles(p, "tool")
      /\ "tool" \in {"tool"} \cup Carrying
  BY <1>1, AtHandles, HuntIsAt
<1>3. ~Carries(p) /\ Behind(p) = Marks(p)
  BY <1>2 DEF Carries, Behind, Carrying, Failing, Marks
<1>4. Len(rows[p]) = Len(verdicts[p]) /\ rows[p] \in Seq(RowStatuses)
  BY DEF Path, Course, Types
<1>5. ASSUME NEW result \in Outcomes \ {"executed", "failed"},
             Job!Says(p, result, Job!Rest(p)),
             \/ UNCHANGED <<rows, verdicts, overtaken>>
             \/ \E v \in Job!Verdicts : Job!Enqueue(p, v)
      PROVE  Types' /\ Others(p) /\ Path(p)'
  <2>1. /\ results' = [results EXCEPT ![p] = Append(@, result)] /\ UNCHANGED ended
        /\ script' = [script EXCEPT ![p] = Tail(@)]
    BY <1>5 DEF Job!Says, Job!Goes, Job!Rest
  <2>2. /\ results' \in [Commands -> Seq(Outcomes)]
        /\ \A q \in Commands \ {p} : results'[q] = results[q]
        /\ Holds(results'[p], {"failed"}) => Holds(results[p], {"failed"})
        /\ Executed(results'[p]) = Executed(results[p])
    BY <2>1, SaysIs
  <2>3. /\ rows' \in [Commands -> Seq(RowStatuses)]
        /\ verdicts' \in [Commands -> Seq(Job!Verdicts)]
        /\ \A q \in Commands \ {p} : rows'[q] = rows[q] /\ verdicts'[q] = verdicts[q]
        /\ Len(rows'[p]) = Len(verdicts'[p]) /\ \A x : Got(p, x) => Got(p, x)'
        /\ Marks(p) \subseteq Marks(p)' /\ overtaken' = overtaken
    <3>1. CASE UNCHANGED <<rows, verdicts, overtaken>>
      BY <1>4, <3>1 DEF Types, Got, Marks
    <3>2. CASE \E v \in Job!Verdicts : Job!Enqueue(p, v)
      BY <3>2, EnqueuedCounts
    <3> QED
      BY <1>5, <3>1, <3>2
  <2>4. Types' /\ Others(p) /\ script'[p] = Tail(script[p])
    BY <1>1, <1>2, <2>1, <2>2, <2>3 DEF Types, Others, Same
  <2>5. Next2(p) /\ ended'[p] = "no" /\ job'[p] = job[p] /\ saved'[p] = saved[p]
        /\ lost'[p] = lost[p]
    BY <1>1, <1>2, <2>1, <2>4 DEF Next2
  <2>6. ~Carries(p)'
    BY <1>2, <2>3, <2>4, <2>5, HuntMoves
  <2>7. Behind(p) \subseteq Behind(p)'
    BY <1>3, <2>3, <2>6 DEF Behind
  <2>8. Cardinality(Executed(results'[p])) =< Cardinality(Behind(p)')
    BY <1>2, <2>2, <2>4, <2>7, BehindGrows
  <2>9. Path(p)'
    BY <1>2, <2>2, <2>3, <2>4, <2>5, <2>6, <2>8, HuntAfter
  <2> QED
    BY <2>4, <2>9
<1>6. ASSUME Job!Enqueue(p, "allow"), Job!Goes(p, <<"execute">> \o Job!Rest(p)), UNCHANGED results
      PROVE  Types' /\ Others(p) /\ Path(p)'
  <2>1. script' = [script EXCEPT ![p] = <<"execute">> \o Tail(@)] /\ UNCHANGED <<ended, results>>
    BY <1>6 DEF Job!Goes, Job!Rest
  <2>2. /\ rows' \in [Commands -> Seq(RowStatuses)]
        /\ verdicts' \in [Commands -> Seq(Job!Verdicts)]
        /\ \A q \in Commands \ {p} : rows'[q] = rows[q] /\ verdicts'[q] = verdicts[q]
        /\ Len(rows'[p]) = Len(verdicts'[p]) /\ (\A x : Got(p, x) => Got(p, x)')
        /\ Marks(p) \subseteq Marks(p)' /\ overtaken' = overtaken
        /\ rows'[p] = Append(rows[p], "approved") /\ rows'[p] # <<>>
    <3>1. "allow" \in Job!Verdicts /\ Job!Queued("allow") = "approved"
      BY DEF Job!Verdicts, Job!Queued
    <3> QED
      BY <1>6, <3>1, EnqueuedCounts
  <2>3. /\ <<"execute">> \o Tail(script[p]) \in Seq(Words) /\ "execute" \in Carrying
    <3>1. "execute" \in Words /\ "execute" \in Carrying
      BY DEF Words, Hunting, Carrying, Failing
    <3> QED
      BY <1>2, <3>1, PushIs
  <2>4. Types' /\ Others(p) /\ script'[p] = <<"execute">> \o Tail(script[p])
    BY <1>1, <1>2, <2>1, <2>2, <2>3 DEF Types, Others, Same
  <2>5. Next2(p) /\ ended'[p] = "no" /\ job'[p] = job[p] /\ saved'[p] = saved[p]
        /\ lost'[p] = lost[p] /\ results'[p] = results[p]
    BY <1>1, <1>2, <2>1, <2>3, <2>4 DEF Next2
  <2>6. Carries(p)' /\ Head(script'[p]) = "execute"
    BY <1>2, <2>2, <2>3, <2>4, <2>5, HuntMoves
  <2>7. rows'[p][Len(rows'[p])] = "approved" /\ Len(rows'[p]) \notin Marks(p)
    <3>1. "approved" \in RowStatuses
      BY DEF RowStatuses
    <3> QED
      BY <1>4, <2>2, <3>1, AppendIs DEF Marks
  <2>8. Behind(p) \subseteq Behind(p)'
    BY <1>3, <2>2, <2>7 DEF Behind
  <2>9. Cardinality(Executed(results'[p])) =< Cardinality(Behind(p)')
    BY <1>2, <2>4, <2>5, <2>8, BehindGrows
  <2>10. Path(p)'
    <3>1. "execute" \notin Failing /\ (lost[p] => lost'[p])
      BY <2>5 DEF Failing
    <3> QED
      BY <1>2, <2>2, <2>4, <2>5, <2>6, <2>7, <2>9, <3>1, HuntAfter
  <2> QED
    BY <2>4, <2>10
<1>7. {"skipped", "blocked", "pending", "planned"} = Outcomes \ {"executed", "failed"}
      /\ {"block", "require", "allow"} = Job!Verdicts
  BY DEF Outcomes, Job!Verdicts
<1>8. Types' /\ Others(p) /\ Path(p)'
  BY <1>5, <1>6, <1>7 DEF Job!Tool, Job!queue
<1> QED
  BY <1>2, <1>8

\* One more statement about the same tool.
LEMMA CarriesOn ==
    ASSUME Types, Types', NEW p \in Commands, Path(p), NEW w \in Carrying, Handles(p, w),
           NEW c \in Carrying, script'[p] = <<c>> \o Tail(script[p]), ended'[p] = "no",
           job'[p] = job[p], saved'[p] = saved[p], results'[p] = results[p],
           rows'[p] = rows[p], verdicts'[p] = verdicts[p], overtaken' = overtaken,
           lost[p] => lost'[p], c \in Failing => Harmed(p)'
    PROVE  Path(p)'
<1>1. /\ kind[p] = "recon" /\ script[p] # <<>> /\ Head(script[p]) = w /\ Later
      /\ w \in {"tool"} \cup Carrying
  BY HuntIsAt
<1>2. Carries(p)
  BY <1>1 DEF Carries
<1>3. Next2(p)
  BY DEF Next2
<1>4. Len(rows'[p]) = Len(verdicts'[p]) /\ \A x : Got(p, x) => Got(p, x)'
  BY DEF Path, Course, Got
<1>5. Carries(p)' /\ Head(script'[p]) = c
  <2>1. \A d \in Carrying :
           script'[p] = <<d>> \o Tail(script[p]) => Carries(p)' /\ Head(script'[p]) = d
    BY <1>1, <1>3, <1>4, HuntMoves
  <2> QED
    BY <2>1
<1>6. Behind(p) \subseteq Behind(p)'
  BY <1>2, <1>5 DEF Behind, Marks
<1>7. Cardinality(Executed(results'[p])) =< Cardinality(Behind(p)')
  BY <1>1, <1>6, BehindGrows
<1>8. rows'[p] # <<>> /\ (rows'[p][Len(rows'[p])] = "approved" \/ Blamed(p)')
  <2>1. rows[p] # <<>> /\ (rows[p][Len(rows[p])] = "approved" \/ Blamed(p))
    BY <1>1, <1>2 DEF Path, Hunt
  <2> QED
    BY <1>1, <2>1, BlamedStays
<1>9. Holds(results'[p], {"failed"}) => Holds(results[p], {"failed"})
  OBVIOUS
<1> QED
  BY <1>1, <1>3, <1>4, <1>5, <1>7, <1>8, <1>9, HuntAfter

\* The hunt says what became of the tool, and goes on.
LEMMA SpeaksOn ==
    ASSUME Types, Types', NEW p \in Commands, Path(p), NEW w \in Carrying, Handles(p, w),
           script'[p] = Tail(script[p]), ended'[p] = "no", job'[p] = job[p],
           saved'[p] = saved[p], lost'[p] = lost[p], verdicts'[p] = verdicts[p],
           NEW to \in {"executed", "failed"},
           results' = [results EXCEPT ![p] = Append(@, to)],
           Len(rows'[p]) = Len(rows[p]), Marks(p) \subseteq Marks(p)',
           to = "executed" => Len(rows[p]) \in Marks(p)', to = "failed" => Harmed(p)'
    PROVE  Path(p)'
<1>1. /\ kind[p] = "recon" /\ script[p] # <<>> /\ Head(script[p]) = w /\ Later
      /\ w \in {"tool"} \cup Carrying
  BY HuntIsAt
<1>2. Carries(p) /\ Next2(p)
  BY <1>1 DEF Carries, Next2
<1>3. Len(rows'[p]) = Len(verdicts'[p]) /\ \A x : Got(p, x) => Got(p, x)'
  BY DEF Path, Course, Got
<1>4. ~Carries(p)'
  BY <1>1, <1>2, <1>3, HuntMoves
<1>5. Behind(p)' = Marks(p)'
  BY <1>4 DEF Behind, Marks
<1>6. /\ Holds(results'[p], {"failed"}) => Holds(results[p], {"failed"}) \/ to = "failed"
      /\ to # "executed" => Executed(results'[p]) = Executed(results[p])
      /\ to = "executed" =>
            Cardinality(Executed(results'[p])) = Cardinality(Executed(results[p])) + 1
  <2>1. to \in Outcomes
    BY DEF Outcomes
  <2> QED
    BY <2>1, SaysIs
<1>7. Behind(p) \subseteq Behind(p)' /\ Len(rows[p]) \notin Behind(p)
  BY <1>2, <1>5 DEF Behind
<1>8. Cardinality(Executed(results'[p])) =< Cardinality(Behind(p)')
  <2>1. CASE to = "failed"
    BY <1>1, <1>6, <1>7, <2>1, BehindGrows
  <2>2. CASE to = "executed"
    <3> DEFINE n == Len(rows[p])
    <3>1. Behind(p) \cup {n} \subseteq Behind(p)'
      BY <1>5, <1>7, <2>2
    <3>2. IsFiniteSet(Behind(p)) /\ IsFiniteSet(Behind(p)') /\ Cardinality(Behind(p)') \in Nat
      BY BehindIs, BehindWillBe
    <3> HIDE DEF n
    <3>3. Cardinality(Behind(p) \cup {n}) =< Cardinality(Behind(p)')
      BY <3>1, <3>2, FS_Subset
    <3>4. Cardinality(Behind(p) \cup {n}) = Cardinality(Behind(p)) + 1
      BY <1>7, <3>2, FS_AddElement DEF n
    <3> QED
      BY <1>1, <1>6, <2>2, <3>2, <3>3, <3>4, HuntCounts
  <2> QED
    BY <2>1, <2>2
<1> QED
  BY <1>1, <1>2, <1>3, <1>4, <1>6, <1>8, HuntAfter

LEMMA ExecuteKeeps ==
    ASSUME Types, NEW p \in Commands, Path(p), Job!Execute(p)
    PROVE  Types' /\ Others(p) /\ Later /\ Path(p)'
<1>1. /\ Job!At(p, "execute") /\ "execute" \in Carrying
      /\ UNCHANGED <<job, rows, verdicts, overtaken, results, saved, written, noting, shared>>
  BY DEF Job!Execute, Job!queue, Job!log, Carrying
<1>2. PICK c \in {"mark", "miss", "fail"} :
          /\ script' = [script EXCEPT ![p] = <<c>> \o Tail(@)] /\ UNCHANGED ended
          /\ IF c = "mark" THEN lost' = lost ELSE lost' = [lost EXCEPT ![p] = TRUE]
  BY DEF Job!Execute, Job!Goes, Job!Rest
<1>3. /\ ended[p] = "no" /\ Later /\ Tail(script[p]) \in Seq(Words)
      /\ UNCHANGED <<kind, deciding, decided, stops>> /\ Handles(p, "execute")
  BY <1>1, AtHandles, HuntIsAt
<1>4. c \in Carrying /\ <<c>> \o Tail(script[p]) \in Seq(Words)
  <2>1. c \in Words /\ c \in Carrying
    BY DEF Words, Hunting, Carrying, Failing
  <2> QED
    BY <1>3, <2>1, PushIs
<1>5. /\ Types' /\ Others(p) /\ script'[p] = <<c>> \o Tail(script[p]) /\ ended'[p] = "no"
      /\ (lost[p] => lost'[p]) /\ (c # "mark" => lost'[p])
  BY <1>1, <1>2, <1>3, <1>4 DEF Types, Others, Same
<1>6. c \in Failing => Harmed(p)'
  BY <1>5 DEF Failing, Harmed
<1>7. Path(p)'
  BY <1>1, <1>3, <1>4, <1>5, <1>6, CarriesOn
<1> QED
  BY <1>3, <1>5, <1>7

\* An action gets a status, whatever it has: what was read as executed is not
\* changed, and what is changed then has been overtaken.
LEMMA SetRowIs ==
    ASSUME Types, NEW p \in Commands, NEW i \in Nat, NEW from, from # "executed",
           NEW to \in RowStatuses, Job!SetRow(p, i, from, to)
    PROVE  /\ rows' \in [Commands -> Seq(RowStatuses)] /\ verdicts' = verdicts
           /\ overtaken' \subseteq Commands \X Nat
           /\ \A q \in Commands \ {p} :
                 /\ rows'[q] = rows[q]
                 /\ \A k \in Nat : <<q, k>> \in overtaken' <=> <<q, k>> \in overtaken
           /\ Len(rows'[p]) = Len(rows[p]) /\ Marks(p) \subseteq Marks(p)'
           /\ to = "executed" /\ i \in DOMAIN rows[p] => i \in Marks(p)'
<1> DEFINE s == rows[p]
           t == [s EXCEPT ![i] = to]
<1>1. /\ rows' = [rows EXCEPT ![p] = t] /\ verdicts' = verdicts
      /\ overtaken' = IF s[i] = from THEN overtaken ELSE overtaken \cup {<<p, i>>}
  BY DEF Job!SetRow
<1>2. s \in Seq(RowStatuses)
  BY DEF Types
<1> HIDE DEF s
<1>3. /\ t \in Seq(RowStatuses) /\ Len(t) = Len(s) /\ DOMAIN t = DOMAIN s
      /\ i \in DOMAIN s => t[i] = to
      /\ \A k \in DOMAIN s : k # i => t[k] = s[k]
  <2>1. DOMAIN t = DOMAIN s /\ DOMAIN s = 1 .. Len(s) /\ Len(s) \in Nat
    BY <1>2
  <2>2. \A k \in DOMAIN s : t[k] = IF k = i THEN to ELSE s[k]
    BY <2>1
  <2>3. ASSUME i \in DOMAIN s PROVE t \in Seq(RowStatuses)
    BY <1>2, <2>1, <2>3
  <2>4. ASSUME i \notin DOMAIN s PROVE t \in Seq(RowStatuses)
    <3>1. \A k \in DOMAIN s : t[k] = s[k]
      BY <2>2, <2>4
    <3>2. s \in [1 .. Len(s) -> RowStatuses]
      BY <1>2
    <3>3. s = [k \in DOMAIN s |-> s[k]]
      BY <3>2
    <3>4. t = [k \in DOMAIN s |-> t[k]]
      BY <3>2
    <3> HIDE DEF t
    <3>5. t = s
      BY <3>1, <3>3, <3>4
    <3> QED
      BY <1>2, <3>5
  <2>5. t \in Seq(RowStatuses)
    BY <2>3, <2>4
  <2>6. Len(t) = Len(s)
    BY <2>1, <2>5
  <2> QED
    BY <2>1, <2>2, <2>5, <2>6
<1> HIDE DEF t
<1>4. /\ rows'[p] = t /\ rows' \in [Commands -> Seq(RowStatuses)]
      /\ \A q \in Commands \ {p} : rows'[q] = rows[q]
  BY <1>1, <1>3 DEF Types
<1>5. /\ overtaken' \subseteq Commands \X Nat /\ overtaken \subseteq overtaken'
      /\ s[i] # from => <<p, i>> \in overtaken'
  BY <1>1 DEF Types
<1>6. \A q \in Commands \ {p}, k \in Nat : <<q, k>> \in overtaken' <=> <<q, k>> \in overtaken
  BY <1>1
<1>7. \A k : k \in Marks(p) <=> k \in DOMAIN s /\ (s[k] = "executed" \/ <<p, k>> \in overtaken)
  BY DEF Marks, s
<1>8. \A k : k \in Marks(p)' <=> k \in DOMAIN t /\ (t[k] = "executed" \/ <<p, k>> \in overtaken')
  BY <1>4 DEF Marks
<1>9. Marks(p) \subseteq Marks(p)'
  <2> SUFFICES ASSUME NEW k \in Marks(p) PROVE k \in Marks(p)'
    OBVIOUS
  <2> QED
    BY <1>3, <1>5, <1>7, <1>8
<1>10. to = "executed" /\ i \in DOMAIN s => i \in Marks(p)'
  BY <1>3, <1>8
<1> QED
  BY <1>1, <1>3, <1>4, <1>5, <1>6, <1>9, <1>10 DEF s

\* The calls of the queue that a hunt makes: a SELECT with its check, and an
\* UPDATE.
LEMMA LooksKeeps ==
    ASSUME Types, NEW p \in Commands, Path(p), NEW what, NEW then, NEW to,
           \/ what = "mark" /\ then = "marked" /\ to = "executed"
           \/ what \in {"miss", "fail"} /\ then \in {"missed", "failed"} /\ to = "failed",
           Job!Looks(p, what, then, to)
    PROVE  Types' /\ Others(p) /\ Later /\ Path(p)'
<1> DEFINE n == Len(rows[p])
<1>1. /\ Job!At(p, what) /\ UNCHANGED <<rows, verdicts, overtaken, lost, saved, written>>
      /\ UNCHANGED <<noting, shared>>
      /\ what \in Carrying /\ then \in Carrying /\ to \in {"executed", "failed"} /\ to \in Outcomes
      /\ what # "mark" => what \in Failing /\ to = "failed"
      /\ what = "mark" => then \notin Failing /\ to = "executed"
  BY DEF Job!Looks, Job!queue, Job!log, Carrying, Failing, Outcomes
<1>2. /\ kind[p] = "recon" /\ ended[p] = "no" /\ Head(script[p]) = what /\ Later
      /\ script[p] # <<>> /\ script[p] \in Seq(Words) /\ Tail(script[p]) \in Seq(Words)
      /\ UNCHANGED <<kind, deciding, decided, stops>> /\ job[p] = "running" /\ Handles(p, what)
  BY <1>1, AtHandles, HuntIsAt
<1>3. /\ Carries(p) /\ rows[p] # <<>> /\ (rows[p][n] = "approved" \/ Blamed(p))
      /\ what # "mark" => Harmed(p)
  BY <1>1, <1>2 DEF Carries, Path, Hunt
<1>4. Blamed(p)' <=> Blamed(p)
  BY <1>2 DEF Blamed
<1>5. Harmed(p) => Harmed(p)'
  BY <1>1, <1>2, <1>4 DEF Harmed
<1>6. Len(rows[p]) \in DOMAIN rows[p]
  BY <1>3 DEF Types
<1>7. CASE rows[p][n] = to /\ Job!Says(p, to, Job!Rest(p)) /\ UNCHANGED job
  <2>1. /\ results' = [results EXCEPT ![p] = Append(@, to)] /\ UNCHANGED <<ended, job>>
        /\ script' = [script EXCEPT ![p] = Tail(@)]
    BY <1>7 DEF Job!Says, Job!Goes, Job!Rest
  <2>2. /\ results' \in [Commands -> Seq(Outcomes)]
        /\ \A q \in Commands \ {p} : results'[q] = results[q]
    BY <1>1, <2>1, SaysIs
  <2>3. Types' /\ Others(p) /\ script'[p] = Tail(script[p]) /\ ended'[p] = "no"
    BY <1>1, <1>2, <2>1, <2>2 DEF Types, Others, Same
  <2>4. /\ Marks(p) \subseteq Marks(p)'
        /\ to = "executed" => Len(rows[p]) \in Marks(p)'
    BY <1>1, <1>6, <1>7 DEF Marks
  <2>5. to = "failed" => Harmed(p)'
    BY <1>1, <1>3, <1>5
  <2>6. Path(p)'
    BY <1>1, <1>2, <2>1, <2>3, <2>4, <2>5, SpeaksOn
  <2> QED
    BY <1>2, <2>3, <2>6
<1>8. CASE Job!Goes(p, <<then>> \o Job!Rest(p)) /\ UNCHANGED <<job, results>>
  <2>1. script' = [script EXCEPT ![p] = <<then>> \o Tail(@)] /\ UNCHANGED <<ended, job, results>>
    BY <1>8 DEF Job!Goes, Job!Rest
  <2>2. <<then>> \o Tail(script[p]) \in Seq(Words)
    BY <1>1, <1>2, PushIs DEF Words, Hunting
  <2>3. Types' /\ Others(p) /\ script'[p] = <<then>> \o Tail(script[p]) /\ ended'[p] = "no"
    BY <1>1, <1>2, <2>1, <2>2 DEF Types, Others, Same
  <2>4. then \in Failing => Harmed(p)'
    BY <1>1, <1>3, <1>5
  <2>5. Path(p)'
    BY <1>1, <1>2, <2>1, <2>3, <2>4, CarriesOn
  <2> QED
    BY <1>2, <2>3, <2>5
<1>9. CASE ~Job!RowMay(rows[p][n], to) /\ Job!Throws(p) /\ UNCHANGED results
  <2>1. Blamed(p) /\ Harmed(p)' /\ Blamed(p)'
    BY <1>1, <1>3, <1>4, <1>5, <1>9 DEF Job!RowMay, Harmed
  <2>2. /\ script' \in [Commands -> Seq(Words)] /\ ended' \in [Commands -> Ends] /\ job' = job
        /\ \A q \in Commands \ {p} : script'[q] = script[q] /\ ended'[q] = ended[q]
        /\ \/ script'[p] = <<>> /\ ended'[p] = "threw"
           \/ script'[p] = <<"fail">> \o Tail(script[p]) /\ ended'[p] = "no"
    BY <1>2, <1>9, ThrowsIs DEF Path, Job!Mcp
  <2>3. Types' /\ Others(p) /\ results' = results
    BY <1>1, <1>2, <1>9, <2>2 DEF Types, Others, Same
  <2>4. CASE script'[p] = <<"fail">> \o Tail(script[p]) /\ ended'[p] = "no"
    <3>1. "fail" \in Carrying
      BY DEF Carrying, Failing
    <3>2. Path(p)'
      BY <1>1, <1>2, <2>1, <2>2, <2>3, <2>4, <3>1, CarriesOn
    <3> QED
      BY <1>2, <2>3, <3>2
  <2>5. CASE script'[p] = <<>> /\ ended'[p] = "threw"
    <3>1. /\ Len(rows'[p]) = Len(verdicts'[p]) /\ \A x : Got(p, x) => Got(p, x)'
          /\ kind[p] \notin Job!Strict /\ kind[p] \notin Job!Mcp
      BY <1>1, <1>2 DEF Path, Course, Got, Job!Strict, Job!Mcp
    <3>2. job'[p] = job[p] /\ kind'[p] = kind[p] /\ saved'[p] = saved[p] /\ lost'[p] = lost[p]
          /\ results'[p] = results[p] /\ rows'[p] = rows[p] /\ verdicts'[p] = verdicts[p]
      BY <1>1, <1>2, <2>2, <2>3
    <3>3. Path(p)'
      BY <1>1, <1>2, <2>1, <2>3, <2>5, <3>1, <3>2, ThrewKeeps
    <3> QED
      BY <1>2, <2>3, <3>3
  <2> QED
    BY <2>2, <2>4, <2>5
<1> QED
  BY <1>7, <1>8, <1>9 DEF Job!Looks, Job!Last

LEMMA PutsKeeps ==
    ASSUME Types, NEW p \in Commands, Path(p), NEW what, NEW to,
           \/ what = "marked" /\ to = "executed"
           \/ what \in {"missed", "failed"} /\ to = "failed",
           Job!Puts(p, what, to)
    PROVE  Types' /\ Others(p) /\ Later /\ Path(p)'
<1> DEFINE n == Len(rows[p])
<1>1. /\ Job!At(p, what) /\ UNCHANGED <<job, lost, saved, written, noting, shared>>
      /\ what \in Carrying /\ to \in {"executed", "failed"} /\ to \in Outcomes /\ to \in RowStatuses
      /\ to = "failed" => what \in Failing
      /\ Job!SetRow(p, n, "approved", to)
  BY DEF Job!Puts, Job!log, Job!Last, Carrying, Failing, Outcomes, RowStatuses
<1>2. /\ kind[p] = "recon" /\ ended[p] = "no" /\ Head(script[p]) = what /\ Later
      /\ script[p] # <<>> /\ script[p] \in Seq(Words) /\ Tail(script[p]) \in Seq(Words)
      /\ UNCHANGED <<kind, deciding, decided, stops>> /\ Handles(p, what)
  BY <1>1, AtHandles, HuntIsAt
<1>3. /\ Carries(p) /\ rows[p] # <<>>
      /\ what \in Failing => Harmed(p)
  BY <1>1, <1>2 DEF Carries, Path, Hunt
<1>4. n \in DOMAIN rows[p] /\ n \in Nat
  BY <1>3 DEF Types
<1>5. /\ results' = [results EXCEPT ![p] = Append(@, to)] /\ UNCHANGED ended
      /\ script' = [script EXCEPT ![p] = Tail(@)]
  BY DEF Job!Puts, Job!Says, Job!Goes, Job!Rest
<1>6. /\ results' \in [Commands -> Seq(Outcomes)]
      /\ \A q \in Commands \ {p} : results'[q] = results[q]
  BY <1>1, <1>5, SaysIs
<1>7. /\ rows' \in [Commands -> Seq(RowStatuses)] /\ verdicts' = verdicts
      /\ overtaken' \subseteq Commands \X Nat
      /\ \A q \in Commands \ {p} :
            /\ rows'[q] = rows[q]
            /\ \A k \in Nat : <<q, k>> \in overtaken' <=> <<q, k>> \in overtaken
      /\ Len(rows'[p]) = Len(rows[p]) /\ Marks(p) \subseteq Marks(p)'
      /\ to = "executed" => Len(rows[p]) \in Marks(p)'
  <2> HIDE DEF n
  <2>1. /\ rows' \in [Commands -> Seq(RowStatuses)] /\ verdicts' = verdicts
        /\ overtaken' \subseteq Commands \X Nat
        /\ \A q \in Commands \ {p} :
              /\ rows'[q] = rows[q]
              /\ \A k \in Nat : <<q, k>> \in overtaken' <=> <<q, k>> \in overtaken
        /\ Len(rows'[p]) = Len(rows[p]) /\ Marks(p) \subseteq Marks(p)'
        /\ to = "executed" /\ n \in DOMAIN rows[p] => n \in Marks(p)'
    BY <1>1, <1>4, SetRowIs
  <2> QED
    BY <1>4, <2>1 DEF n
<1>8. Types' /\ Others(p) /\ script'[p] = Tail(script[p]) /\ ended'[p] = "no"
  BY <1>1, <1>2, <1>5, <1>6, <1>7 DEF Types, Others, Same
<1>9. to = "failed" => Harmed(p)'
  BY <1>1, <1>2, <1>3 DEF Harmed, Blamed
<1>10. Path(p)'
  BY <1>1, <1>2, <1>5, <1>7, <1>8, <1>9, SpeaksOn
<1> QED
  BY <1>2, <1>8, <1>10

LEMMA MarkKeeps ==
    ASSUME Types, NEW p \in Commands, Path(p), Job!Mark(p)
    PROVE  Types' /\ Others(p) /\ Later /\ Path(p)'
  BY LooksKeeps, PutsKeeps DEF Job!Mark

LEMMA FailKeeps ==
    ASSUME Types, NEW p \in Commands, Path(p), Job!FailTool(p)
    PROVE  Types' /\ Others(p) /\ Later /\ Path(p)'
  BY LooksKeeps, PutsKeeps DEF Job!FailTool

\* A statement fails or the process is stopped: its note is not written.
LEMMA FaultKeeps ==
    ASSUME Types, NEW p \in Commands, Path(p), Job!Fault(p)
    PROVE  Types' /\ Others(p) /\ Later /\ Path(p)'
<1>1. /\ stops < MaxStops /\ stops' = stops + 1 /\ ended[p] = "no" /\ script[p] # <<>>
      /\ noting' = [noting EXCEPT ![p] = Nothing]
      /\ UNCHANGED <<kind, rows, verdicts, overtaken, results, lost, saved, written, shared,
                     deciding, decided>>
      /\ \/ Job!Throws(p)
         \/ /\ script' = [script EXCEPT ![p] = <<>>] /\ ended' = [ended EXCEPT ![p] = "stopped"]
            /\ UNCHANGED job
  BY DEF Job!Fault, Job!queue
<1>2. /\ Later /\ stops' \in 0 .. MaxStops /\ stops' > 0
      /\ noting' \in [Commands \cup People -> Notes \cup {Nothing}]
  BY <1>1, CommandsAssumption DEF Later, Types
<1>3. (\A x : Got(p, x)' <=> Got(p, x)) /\ Harmed(p)'
  BY <1>1, <1>2 DEF Got, Harmed
<1>4. CASE Job!Throws(p)
  <2>1. /\ script' \in [Commands -> Seq(Words)] /\ ended' \in [Commands -> Ends] /\ job' = job
        /\ \A q \in Commands \ {p} : script'[q] = script[q] /\ ended'[q] = ended[q]
        /\ \/ script'[p] = <<>> /\ ended'[p] = "threw"
           \/ /\ script'[p] = <<"catch">> /\ ended'[p] = "no"
              /\ kind[p] \in Job!Mcp /\ job[p] = "running"
           \/ /\ script'[p] = <<"fail">> \o Tail(script[p]) /\ ended'[p] = "no"
              /\ Head(script[p]) \in Job!Tried
    BY <1>1, <1>4, ThrowsIs DEF Path
  <2>2. /\ Types' /\ Others(p) /\ kind'[p] = kind[p] /\ saved'[p] = saved[p] /\ lost'[p] = lost[p]
        /\ results'[p] = results[p] /\ rows'[p] = rows[p] /\ verdicts'[p] = verdicts[p]
        /\ overtaken' = overtaken /\ job'[p] = job[p]
    BY <1>1, <1>2, <2>1 DEF Types, Others, Same
  <2>3. /\ Len(rows'[p]) = Len(verdicts'[p])
        /\ kind[p] \in Job!Strict => Len(verdicts'[p]) =< 1
    BY <2>2 DEF Path, Course, Waiting
  <2>4. CASE script'[p] = <<>> /\ ended'[p] = "threw"
    <3>1. Path(p)'
      BY <1>1, <1>2, <1>3, <2>2, <2>3, <2>4, ThrewKeeps
    <3> QED
      BY <1>2, <2>2, <3>1
  <2>5. CASE /\ script'[p] = <<"catch">> /\ ended'[p] = "no"
             /\ kind[p] \in Job!Mcp /\ job[p] = "running"
    <3>1. Path(p)'
      BY <1>1, <1>2, <2>2, <2>5, CaughtKeeps
    <3> QED
      BY <1>2, <2>2, <3>1
  <2>6. CASE /\ script'[p] = <<"fail">> \o Tail(script[p]) /\ ended'[p] = "no"
             /\ Head(script[p]) \in Job!Tried
    <3> DEFINE w == Head(script[p])
    <3>1. w \in Carrying /\ "fail" \in Carrying
      BY <2>6 DEF Carrying, Failing, Job!Tried
    <3>2. Handles(p, w)
      BY <1>1, <1>2 DEF Handles
    <3> HIDE DEF w
    <3>3. Path(p)'
      BY <1>1, <1>3, <2>2, <2>6, <3>1, <3>2, CarriesOn
    <3> QED
      BY <1>2, <2>2, <3>3
  <2> QED
    BY <2>1, <2>4, <2>5, <2>6
<1>5. CASE /\ script' = [script EXCEPT ![p] = <<>>] /\ ended' = [ended EXCEPT ![p] = "stopped"]
           /\ UNCHANGED job
  <2>1. <<>> \in Seq(Words) /\ "stopped" \in Ends
    BY DEF Ends
  <2>2. Types' /\ Others(p) /\ script'[p] = <<>> /\ ended'[p] = "stopped"
    BY <1>1, <1>2, <1>5, <2>1 DEF Types, Others, Same
  <2>3. Course(p)'
    <3>1. Len(rows'[p]) = Len(verdicts'[p]) /\ Course(p)
      BY <1>1 DEF Path, Course
    <3> QED
      BY <1>1, <2>2, <3>1, CourseEnds
  <2>4. Saving(p)'
    BY <1>1, <1>5, <2>2, SavingEnds DEF Path
  <2>5. Reasons(p)'
    BY <1>1, <1>3, <1>5, <2>2, HoldsNothing DEF Path, Reasons
  <2>6. Waiting(p)'
    BY <1>1, <1>3, <1>5, <2>2, HoldsNothing DEF Path, Waiting
  <2>7. Hunt(p)'
    <3> SUFFICES ASSUME kind[p] = "recon" PROVE Hunt(p)'
      BY <1>1 DEF Hunt
    <3>1. ~Carries(p)' /\ Behind(p) \subseteq Behind(p)'
      BY <1>1, <2>2 DEF Carries, Behind, Marks
    <3>2. Job!Said(p, {"failed"})' => job'[p] \in {"running", "failed"} /\ Harmed(p)'
      BY <1>1, <1>3, <1>5 DEF Path, Hunt, Job!Said
    <3>3. Cardinality(Executed(results'[p])) =< Cardinality(Behind(p)')
      BY <1>1, <2>2, <3>1, BehindGrows
    <3> QED
      BY <2>2, <3>1, <3>2, <3>3, HoldsNothing DEF Hunt
  <2> QED
    BY <1>2, <2>2, <2>3, <2>4, <2>5, <2>6, <2>7 DEF Path
<1> QED
  BY <1>1, <1>4, <1>5

\* A decision begins, and changes no action yet.
LEMMA DecideKeeps ==
    ASSUME Types, Types', NEW x \in People, Job!Decide(x), NEW q \in Commands, Path(q)
    PROVE  Path(q)'
<1>1. UNCHANGED <<kind, job, script, ended, rows, verdicts, overtaken, results, lost, saved, stops>>
  BY DEF Job!Decide, Job!queue
<1>2. decided' = decided \/ \E p \in Commands : decided' = [decided EXCEPT ![p] = @ + 1]
  BY DEF Job!Decide
<1>3. Later
  <2>1. ASSUME NEW r \in Commands PROVE decided[r] =< decided'[r]
    <3>1. decided \in [Commands -> Nat] /\ decided[r] \in Nat
      BY DEF Types
    <3>2. decided'[r] = decided[r] \/ decided'[r] = decided[r] + 1
      BY <1>2, <3>1
    <3> QED
      BY <3>1, <3>2
  <2>2. stops \in Nat /\ stops' = stops
    BY <1>1 DEF Types
  <2> QED
    BY <2>1, <2>2 DEF Later
<1>4. Same(q)
  BY <1>1 DEF Same
<1> QED
  BY <1>3, <1>4, PathStays

\* What a person decides is not executed when it is read, and is remembered.
LEMMA ChoiceIs ==
    ASSUME Types, NEW x \in People, Job!Settle(x)
    PROVE  \E p \in Commands, i \in Nat, from \in {"pending", "approved"}, to \in RowStatuses :
              /\ Job!SetRow(p, i, from, to) /\ decided' = [decided EXCEPT ![p] = @ + 1]
              /\ Job!BeginNote(x, p, to)
<1>1. deciding[x] \in Choices
  BY DEF Job!Settle, Types
<1>2. /\ deciding[x].job \in Commands /\ deciding[x].action \in Nat
      /\ deciding[x].from \in {"pending", "approved"} /\ deciding[x].to \in RowStatuses
  BY <1>1 DEF Choices
<1> QED
  BY <1>2 DEF Job!Settle

LEMMA SettleKeeps ==
    ASSUME Types, Types', NEW x \in People, Job!Settle(x), NEW q \in Commands, Path(q)
    PROVE  Path(q)'
<1>1. PICK p \in Commands, i \in Nat, from \in {"pending", "approved"}, to \in RowStatuses :
          Job!SetRow(p, i, from, to) /\ decided' = [decided EXCEPT ![p] = @ + 1]
  BY ChoiceIs
<1>2. /\ verdicts' = verdicts
      /\ \A r \in Commands \ {p} :
            /\ rows'[r] = rows[r]
            /\ \A k \in Nat : <<r, k>> \in overtaken' <=> <<r, k>> \in overtaken
      /\ Len(rows'[p]) = Len(rows[p]) /\ Marks(p) \subseteq Marks(p)'
  <2>1. from # "executed"
    OBVIOUS
  <2> QED
    BY <1>1, <2>1, SetRowIs
<1>3. UNCHANGED <<kind, job, script, ended, results, lost, saved, stops>>
  BY DEF Job!Settle
<1>4. Later /\ Blamed(p)'
  <2>1. decided \in [Commands -> Nat] /\ stops \in Nat /\ stops' = stops
    BY <1>3 DEF Types
  <2>2. \A r \in Commands : decided[r] \in Nat
    BY <2>1
  <2>3. decided'[p] = decided[p] + 1 /\ \A r \in Commands \ {p} : decided'[r] = decided[r]
    BY <1>1, <2>1
  <2>4. decided'[p] > 0 /\ \A r \in Commands : decided[r] =< decided'[r]
    BY <2>2, <2>3
  <2> QED
    BY <2>1, <2>4 DEF Later, Blamed
<1>5. CASE q # p
  <2>1. Same(q)
    BY <1>2, <1>3, <1>5 DEF Same
  <2> QED
    BY <1>4, <2>1, PathStays
<1>6. CASE q = p
  <2>1. rows[p] # <<>> <=> rows'[p] # <<>>
    <3>1. rows[p] \in Seq(RowStatuses) /\ rows'[p] \in Seq(RowStatuses)
      BY DEF Types
    <3>2. Len(rows'[p]) = Len(rows[p])
      BY <1>2
    <3> QED
      BY <3>1, <3>2
  <2>2. Course(p)'
    BY <1>2, <1>3, <1>6, <2>1 DEF Path, Course
  <2>3. Saving(p)'
    BY <1>3, <1>6 DEF Path, Saving, Job!Artifacts
  <2>4. Reasons(p)'
    BY <1>2, <1>3, <1>4, <1>6 DEF Path, Reasons, Got, Harmed
  <2>5. Waiting(p)'
    BY <1>2, <1>3, <1>6 DEF Path, Waiting, Got
  <2>6. kind[p] = "recon" => Cardinality(Executed(results'[p])) =< Cardinality(Behind(p)')
    <3>1. Behind(p) \subseteq Behind(p)'
      BY <1>2, <1>3 DEF Behind, Carries
    <3> QED
      BY <1>3, <1>6, <3>1, BehindGrows
  <2>7. Hunt(p)'
    BY <1>3, <1>4, <1>6, <2>1, <2>6 DEF Path, Hunt, Carries, Job!Said, Harmed
  <2> QED
    BY <1>6, <2>2, <2>3, <2>4, <2>5, <2>7 DEF Path
<1> QED
  BY <1>5, <1>6

-----------------------------------------------------------------------------
(***************************************************************************)
(* The numbers of the events.                                              *)
(***************************************************************************)
LEMMA EventsAre ==
    ASSUME Types, NEW p \in Commands
    PROVE  /\ IsFiniteSet(EventsOf(p)) /\ Cardinality(EventsOf(p)) \in Nat
           /\ EventsOf(p) = {} => Cardinality(EventsOf(p)) = 0
           /\ \A e \in EventsOf(p) : e \in EventRows /\ e.number \in Nat /\ e.job = p
<1>1. EventsOf(p) \subseteq written /\ EventsOf(p) \subseteq EventRows
  BY DEF EventsOf, Types
<1>2. IsFiniteSet(EventsOf(p))
  BY <1>1, FS_Subset DEF Types
<1> QED
  BY <1>1, <1>2, FS_CardinalityType, FS_EmptySet DEF EventsOf, EventRows

\* The next number is larger than all, and counts the events of a job of which
\* no two processes noted one at once.
LEMMA NextIs ==
    ASSUME Types, NEW p \in Commands, Numbered(p)
    PROVE  /\ Job!NextSequence(p) \in Nat
           /\ \A e \in EventsOf(p) : e.number < Job!NextSequence(p)
           /\ p \notin shared => Job!NextSequence(p) = Cardinality(EventsOf(p)) + 1
<1> DEFINE numbers == {e.number : e \in EventsOf(p)}
           n == CHOOSE k \in numbers : \A m \in numbers : m =< k
<1>1. Job!NextSequence(p) = IF numbers = {} THEN 1 ELSE 1 + n
  BY DEF Job!NextSequence, EventsOf
<1>2. \A e \in EventsOf(p) : e.number \in Nat
  BY EventsAre
<1>3. CASE EventsOf(p) = {}
  <2>1. numbers = {}
    BY <1>3
  <2> QED
    BY <1>1, <1>3, <2>1, EventsAre
<1>4. CASE EventsOf(p) # {}
  <2>1. PICK e \in EventsOf(p) : \A f \in EventsOf(p) : f.number =< e.number
    BY <1>4 DEF Numbered
  <2>2. e.number \in numbers /\ \A m \in numbers : m =< e.number
    BY <2>1
  <2>3. n \in numbers /\ \A m \in numbers : m =< n
    BY <2>2
  <2>4. n = e.number /\ n \in Nat
    BY <1>2, <2>2, <2>3
  <2>5. Job!NextSequence(p) = 1 + n
    BY <1>1, <2>2
  <2>6. p \notin shared => e.number = Cardinality(EventsOf(p))
    <3> SUFFICES ASSUME p \notin shared PROVE e.number = Cardinality(EventsOf(p))
      OBVIOUS
    <3>1. PICK g \in EventsOf(p) : g.number = Cardinality(EventsOf(p))
      BY <1>4 DEF Numbered
    <3>2. e.number =< Cardinality(EventsOf(p)) /\ g.number =< e.number
      BY <2>1 DEF Numbered
    <3> QED
      BY <1>2, <3>1, <3>2
  <2> HIDE DEF n, numbers
  <2> QED
    BY <1>2, <2>1, <2>4, <2>5, <2>6
<1> QED
  BY <1>3, <1>4

LEMMA NumberingBegins ==
    ASSUME Types, Numbering, NEW x \in Commands \cup People, NEW p \in Commands,
           NEW status \in Job!Statuses \cup RowStatuses, Job!BeginNote(x, p, status)
    PROVE  /\ noting' \in [Commands \cup People -> Notes \cup {Nothing}]
           /\ UNCHANGED written /\ Numbering'
<1> DEFINE n == [job |-> p, number |-> Job!NextSequence(p), status |-> status]
<1>1. /\ noting' = [noting EXCEPT ![x] = n] /\ UNCHANGED written
      /\ shared' = IF \E y \in DOMAIN noting \ {x} : noting[y] # Nothing /\ noting[y].job = p
                   THEN shared \cup {p} ELSE shared
  BY DEF Job!BeginNote
<1>2. /\ Job!NextSequence(p) \in Nat /\ \A e \in EventsOf(p) : e.number < Job!NextSequence(p)
      /\ p \notin shared => Job!NextSequence(p) = Cardinality(EventsOf(p)) + 1
  BY NextIs DEF Numbering
<1>3. n \in Notes /\ n.job = p /\ n.number = Job!NextSequence(p)
  BY <1>2 DEF Notes
<1> HIDE DEF n
<1>4. /\ noting' \in [Commands \cup People -> Notes \cup {Nothing}] /\ noting'[x] = n
      /\ \A y \in Commands \cup People : y # x => noting'[y] = noting[y]
      /\ DOMAIN noting' = Commands \cup People /\ DOMAIN noting = Commands \cup People
  BY <1>1, <1>3 DEF Types
<1>5. shared \subseteq shared' /\ shared' \subseteq shared \cup {p}
  BY <1>1
<1>6. \A q : EventsOf(q)' = EventsOf(q)
  BY <1>1 DEF EventsOf
<1>7. ASSUME NEW q \in Commands PROVE Numbered(q)'
  BY <1>5, <1>6 DEF Numbering, Numbered
<1>8. ASSUME NEW y \in Commands \cup People PROVE Noted(y)'
  <2>0. Noted(y)' <=> (noting'[y] # Nothing =>
           /\ \A e \in EventsOf(noting'[y].job) : e.by = y => e.number < noting'[y].number
           /\ noting'[y].job \notin shared' =>
                 /\ noting'[y].number = Cardinality(EventsOf(noting'[y].job)) + 1
                 /\ \A z \in DOMAIN noting' \ {y} :
                       noting'[z] # Nothing => noting'[z].job # noting'[y].job)
    BY <1>1 DEF Noted, EventsOf
  <2>1. CASE y = x
    <3>1. noting'[y].job = p /\ noting'[y].number = Job!NextSequence(p)
      BY <1>3, <1>4, <2>1
    <3>2. p \notin shared' => p \notin shared
             /\ \A z \in DOMAIN noting' \ {y} : noting'[z] # Nothing => noting'[z].job # p
      BY <1>1, <1>4, <1>5, <2>1
    <3> QED
      BY <1>2, <2>0, <3>1, <3>2
  <2>2. CASE y # x
    <3> SUFFICES ASSUME noting[y] # Nothing PROVE Noted(y)'
      BY <1>4, <2>0, <2>2
    <3> DEFINE q == noting[y].job
    <3>1. noting'[y] = noting[y] /\ noting'[y].job = q
      BY <1>4, <2>2
    <3>2. /\ \A e \in EventsOf(q) : e.by = y => e.number < noting[y].number
          /\ q \notin shared =>
                /\ noting[y].number = Cardinality(EventsOf(q)) + 1
                /\ \A z \in DOMAIN noting \ {y} : noting[z] # Nothing => noting[z].job # q
      BY DEF Numbering, Noted
    <3>3. q \notin shared' => q \notin shared /\ q # p
      BY <1>1, <1>4, <1>5, <2>2
    <3> HIDE DEF q
    <3>4. q \notin shared' =>
             \A z \in DOMAIN noting' \ {y} : noting'[z] # Nothing => noting'[z].job # q
      BY <1>3, <1>4, <3>2, <3>3
    <3> QED
      BY <2>0, <3>1, <3>2, <3>3, <3>4
  <2> QED
    BY <2>1, <2>2
<1> QED
  BY <1>1, <1>4, <1>7, <1>8 DEF Numbering

LEMMA NumberingGoesOn ==
    ASSUME Types, Numbering, NEW x \in Commands \cup People, UNCHANGED <<written, shared>>,
           noting' = [noting EXCEPT ![x] = Nothing]
    PROVE  Numbering'
<1>1. /\ noting'[x] = Nothing
      /\ \A y \in Commands \cup People : y # x => noting'[y] = noting[y]
      /\ DOMAIN noting' = Commands \cup People /\ DOMAIN noting = Commands \cup People
  BY DEF Types
<1>2. \A q \in Commands : Numbered(q)'
  BY DEF Numbering, Numbered, EventsOf
<1>3. ASSUME NEW y \in Commands \cup People PROVE Noted(y)'
  <2> SUFFICES ASSUME y # x, noting[y] # Nothing PROVE Noted(y)'
    BY <1>1 DEF Noted
  <2>1. noting'[y] = noting[y] /\ Noted(y)
    BY <1>1 DEF Numbering
  <2> QED
    BY <1>1, <2>1 DEF Noted, EventsOf
<1> QED
  BY <1>2, <1>3 DEF Numbering

\* A note is written down after all of its job, by a writer that no other had
\* the number of.
LEMMA NumberingEnds ==
    ASSUME Types, Numbering, NEW x \in Commands \cup People, Job!FinishNote(x)
    PROVE  Types' /\ Numbering'
<1>1. /\ noting[x] # Nothing /\ noting' = [noting EXCEPT ![x] = Nothing]
      /\ UNCHANGED <<kind, job, script, ended, rows, verdicts, overtaken, results, lost, saved,
                     shared, deciding, decided, stops>>
  BY DEF Job!FinishNote, Job!queue
<1>2. noting[x] \in Notes
  BY <1>1 DEF Types
<1>3. PICK p \in Commands, n \in Nat : p = noting[x].job /\ n = noting[x].number
  BY <1>2 DEF Notes
<1>4. PICK c : c = Cardinality(EventsOf(p))
  OBVIOUS
<1>5. /\ IsFiniteSet(EventsOf(p)) /\ c \in Nat
      /\ \A e \in EventsOf(p) : e.number \in Nat /\ e.job = p
  BY <1>4, EventsAre
<1>6. PICK e0 \in EventRows : /\ written' = written \cup {e0}
                              /\ e0.job = p /\ e0.number = n /\ e0.by = x /\ e0.order = c + 1
  <2> DEFINE new == [job |-> noting[x].job, number |-> noting[x].number, by |-> x,
                     status |-> noting[x].status, order |-> c + 1]
  <2>1. written' = written \cup {new}
    BY <1>3, <1>4, SameCount DEF Job!FinishNote, EventsOf
  <2>2. new \in EventRows /\ new.job = p /\ new.number = n /\ new.by = x /\ new.order = c + 1
    BY <1>2, <1>3, <1>5 DEF Notes, EventRows
  <2> HIDE DEF new
  <2> QED
    BY <2>1, <2>2
<1>7. /\ \A e \in EventsOf(p) : e.by = x => e.number < n
      /\ p \notin shared =>
            /\ n = c + 1
            /\ \A y \in DOMAIN noting \ {x} : noting[y] # Nothing => noting[y].job # p
  BY <1>1, <1>3, <1>4 DEF Numbering, Noted
<1>8. Types'
  <2>1. IsFiniteSet(written') /\ written' \subseteq EventRows
    BY <1>6, FS_AddElement DEF Types
  <2>2. noting' \in [Commands \cup People -> Notes \cup {Nothing}]
    BY <1>1 DEF Types
  <2> QED
    BY <1>1, <2>1, <2>2 DEF Types
<1>9. EventsOf(p)' = EventsOf(p) \cup {e0} /\ e0 \notin EventsOf(p)
      /\ \A q : q # p => EventsOf(q)' = EventsOf(q)
  <2>1. e0 \notin EventsOf(p)
    BY <1>5, <1>6, <1>7
  <2>2. {e \in written' : e.job = p} = {e \in written : e.job = p} \cup {e0}
    BY <1>6
  <2>3. \A q : q # p => {e \in written' : e.job = q} = {e \in written : e.job = q}
    BY <1>6
  <2> QED
    BY <2>1, <2>2, <2>3 DEF EventsOf
<1>10. Cardinality(EventsOf(p)') = c + 1
  <2>1. Cardinality(EventsOf(p) \cup {e0}) = Cardinality(EventsOf(p)) + 1
    BY <1>5, <1>9, FS_AddElement
  <2> QED
    BY <1>4, <1>9, <2>1
<1>11. ASSUME NEW q \in Commands PROVE Numbered(q)'
  <2>1. CASE q # p
    BY <1>1, <1>9, <2>1 DEF Numbering, Numbered
  <2>2. CASE q = p
    <3>1. \E e \in EventsOf(p)' : \A f \in EventsOf(p)' : f.number =< e.number
      <4>1. CASE EventsOf(p) = {}
        BY <1>6, <1>9, <4>1
      <4>2. CASE EventsOf(p) # {}
        <5>1. PICK e \in EventsOf(p) : \A f \in EventsOf(p) : f.number =< e.number
          BY <4>2 DEF Numbering, Numbered
        <5>2. CASE e.number =< n
          BY <1>5, <1>6, <1>9, <5>1, <5>2
        <5>3. CASE n < e.number
          BY <1>5, <1>6, <1>9, <5>1, <5>3
        <5> QED
          BY <1>5, <5>2, <5>3
      <4> QED
        BY <4>1, <4>2
    <3>2. ASSUME p \notin shared'
          PROVE  /\ \A e \in EventsOf(p)' : e.number = e.order /\ e.number =< c + 1
                 /\ e0 \in EventsOf(p)' /\ e0.number = c + 1
                 /\ \A e, f \in EventsOf(p)' : e.number = f.number => e = f
      <4>1. p \notin shared /\ n = c + 1
        BY <1>1, <1>7, <3>2
      <4>2. /\ \A e \in EventsOf(p) : e.number = e.order /\ e.number =< c
            /\ \A e, f \in EventsOf(p) : e.number = f.number => e = f
        BY <1>4, <4>1 DEF Numbering, Numbered
      <4>3. \A e \in EventsOf(p) : e.number < e0.number
        BY <1>5, <1>6, <4>1, <4>2
      <4> QED
        BY <1>5, <1>6, <1>9, <4>1, <4>2, <4>3
    <3> QED
      BY <1>10, <2>2, <3>1, <3>2 DEF Numbered
  <2> QED
    BY <2>1, <2>2
<1>12. ASSUME NEW y \in Commands \cup People PROVE Noted(y)'
  <2>1. /\ noting'[x] = Nothing
        /\ \A z \in Commands \cup People : z # x => noting'[z] = noting[z]
        /\ DOMAIN noting' = Commands \cup People /\ DOMAIN noting = Commands \cup People
    BY <1>1 DEF Types
  <2> SUFFICES ASSUME y # x, noting[y] # Nothing PROVE Noted(y)'
    BY <2>1 DEF Noted
  <2>2. PICK q : q = noting[y].job
    OBVIOUS
  <2>3. noting'[y] = noting[y] /\ noting'[y].job = q
    BY <2>1, <2>2
  <2>4. /\ \A e \in EventsOf(q) : e.by = y => e.number < noting[y].number
        /\ q \notin shared =>
              /\ noting[y].number = Cardinality(EventsOf(q)) + 1
              /\ \A z \in DOMAIN noting \ {y} : noting[z] # Nothing => noting[z].job # q
    BY <2>2 DEF Numbering, Noted
  <2>5. Noted(y)' <=>
        /\ \A e \in EventsOf(q)' : e.by = y => e.number < noting[y].number
        /\ q \notin shared' =>
              /\ noting[y].number = Cardinality(EventsOf(q)') + 1
              /\ \A z \in DOMAIN noting' \ {y} : noting'[z] # Nothing => noting'[z].job # q
    BY <2>3 DEF Noted, EventsOf
  <2>6. \A e \in EventsOf(q)' : e.by = y => e.number < noting[y].number
    <3>1. CASE q = p
      BY <1>6, <1>9, <2>4, <3>1
    <3>2. CASE q # p
      BY <1>9, <2>4, <3>2
    <3> QED
      BY <3>1, <3>2
  <2>7. q \notin shared => q # p
    BY <1>1, <1>3, <2>1, <2>4
  <2>8. q \notin shared' =>
              /\ noting[y].number = Cardinality(EventsOf(q)') + 1
              /\ \A z \in DOMAIN noting' \ {y} : noting'[z] # Nothing => noting'[z].job # q
    BY <1>1, <1>9, <2>1, <2>4, <2>7
  <2> QED
    BY <2>5, <2>6, <2>8
<1>13. ASSUME NEW e \in written', NEW f \in written', e.job = f.job, e.number = f.number, e # f
       PROVE  e.by # f.by
  <2>1. CASE e \in written /\ f \in written
    BY <1>13, <2>1 DEF Numbering
  <2>2. CASE e = e0 /\ f \in written
    BY <1>5, <1>6, <1>7, <1>13, <2>2 DEF EventsOf
  <2>3. CASE f = e0 /\ e \in written
    BY <1>5, <1>6, <1>7, <1>13, <2>3 DEF EventsOf
  <2> QED
    BY <1>6, <1>13, <2>1, <2>2, <2>3
<1> QED
  BY <1>8, <1>11, <1>12, <1>13 DEF Numbering

-----------------------------------------------------------------------------
(***************************************************************************)
(* Every step keeps the invariant.                                         *)
(***************************************************************************)
LEMMA NumberingStays ==
    ASSUME Numbering, UNCHANGED <<written, noting, shared>>
    PROVE  Numbering'
<1>1. \A p : EventsOf(p)' = EventsOf(p)
  BY DEF EventsOf
<1>2. \A p \in Commands : Numbered(p)'
  BY <1>1 DEF Numbering, Numbered
<1>3. \A x \in Commands \cup People : Noted(x)'
  BY <1>1 DEF Numbering, Noted
<1> QED
  BY <1>2, <1>3 DEF Numbering

LEMMA NoteSteps ==
    ASSUME Types, Numbering, NEW p \in Commands, Job!Note(p)
    PROVE  Types' /\ Numbering'
<1>1. /\ script[p] # <<>>
      /\ script' = [script EXCEPT ![p] = Tail(@)]
      /\ UNCHANGED <<kind, deciding, decided, stops, ended, job, rows, verdicts, overtaken,
                     results, lost, saved>>
  BY DEF Job!Note, Job!At, Job!Goes, Job!Rest, Job!queue
<1>2. PICK status \in Job!Statuses \cup RowStatuses : Job!BeginNote(p, p, status)
  BY DEF Job!Note, Job!Statuses
<1>3. /\ noting' \in [Commands \cup People -> Notes \cup {Nothing}]
      /\ UNCHANGED written /\ Numbering'
  BY <1>1, <1>2, NumberingBegins
<1>4. Tail(script[p]) \in Seq(Words)
  BY <1>1, TailIs DEF Types
<1>5. Types'
  BY <1>1, <1>3, <1>4 DEF Types
<1> QED
  BY <1>3, <1>5

LEMMA DecideSteps ==
    ASSUME Types, Numbering, NEW x \in People, Job!Decide(x)
    PROVE  Types' /\ Numbering'
<1>1. /\ UNCHANGED <<kind, job, script, ended, rows, verdicts, overtaken, results, lost, saved, stops>>
  BY DEF Job!Decide, Job!queue
<1>2. PICK p \in Commands : \E i \in DOMAIN rows[p], to \in RowStatuses :
          /\ Job!RowMay(rows[p][i], to)
          /\ \/ /\ rows[p][i] # to
                /\ deciding' = [deciding EXCEPT ![x] =
                                   [job |-> p, action |-> i, from |-> rows[p][i], to |-> to]]
                /\ UNCHANGED <<decided, written, noting, shared>>
             \/ /\ decided' = [decided EXCEPT ![p] = @ + 1]
                /\ Job!BeginNote(x, p, to) /\ UNCHANGED deciding
  BY DEF Job!Decide, Job!log, RowStatuses
<1>3. PICK i \in DOMAIN rows[p], to \in RowStatuses :
          /\ Job!RowMay(rows[p][i], to)
          /\ \/ /\ rows[p][i] # to
                /\ deciding' = [deciding EXCEPT ![x] =
                                   [job |-> p, action |-> i, from |-> rows[p][i], to |-> to]]
                /\ UNCHANGED <<decided, written, noting, shared>>
             \/ /\ decided' = [decided EXCEPT ![p] = @ + 1]
                /\ Job!BeginNote(x, p, to) /\ UNCHANGED deciding
  BY <1>2
<1>4. CASE /\ rows[p][i] # to
           /\ deciding' = [deciding EXCEPT ![x] =
                              [job |-> p, action |-> i, from |-> rows[p][i], to |-> to]]
           /\ UNCHANGED <<decided, written, noting, shared>>
  <2> DEFINE d == [job |-> p, action |-> i, from |-> rows[p][i], to |-> to]
  <2>1. rows[p][i] \in {"pending", "approved"} /\ i \in Nat
    BY <1>3, <1>4 DEF Job!RowMay, Types
  <2>2. d \in Choices
    BY <2>1 DEF Choices
  <2> HIDE DEF d
  <2>3. deciding' \in [People -> Choices \cup {Nothing}]
    BY <1>4, <2>2 DEF Types, d
  <2>4. Types'
    BY <1>1, <1>4, <2>3 DEF Types
  <2>5. Numbering'
    BY <1>4, NumberingStays
  <2> QED
    BY <2>4, <2>5
<1>5. CASE /\ decided' = [decided EXCEPT ![p] = @ + 1]
           /\ Job!BeginNote(x, p, to) /\ UNCHANGED deciding
  <2>1. /\ noting' \in [Commands \cup People -> Notes \cup {Nothing}]
        /\ UNCHANGED written /\ Numbering'
    BY <1>5, NumberingBegins
  <2>2. decided' \in [Commands -> Nat]
    BY <1>5 DEF Types
  <2>3. Types'
    BY <1>1, <1>5, <2>1, <2>2 DEF Types
  <2> QED
    BY <2>1, <2>3
<1> QED
  BY <1>3, <1>4, <1>5

LEMMA SettleSteps ==
    ASSUME Types, Numbering, NEW x \in People, Job!Settle(x)
    PROVE  Types' /\ Numbering'
<1>1. PICK p \in Commands, i \in Nat, from \in {"pending", "approved"}, to \in RowStatuses :
          /\ Job!SetRow(p, i, from, to) /\ decided' = [decided EXCEPT ![p] = @ + 1]
          /\ Job!BeginNote(x, p, to)
  BY ChoiceIs
<1>2. /\ rows' \in [Commands -> Seq(RowStatuses)] /\ verdicts' = verdicts
      /\ overtaken' \subseteq Commands \X Nat
  <2>1. from # "executed"
    OBVIOUS
  <2> QED
    BY <1>1, <2>1, SetRowIs
<1>3. /\ deciding' = [deciding EXCEPT ![x] = Nothing]
      /\ UNCHANGED <<kind, job, script, ended, results, lost, saved, stops>>
  BY DEF Job!Settle
<1>4. /\ noting' \in [Commands \cup People -> Notes \cup {Nothing}]
      /\ UNCHANGED written /\ Numbering'
  BY <1>1, NumberingBegins
<1>5. decided' \in [Commands -> Nat] /\ deciding' \in [People -> Choices \cup {Nothing}]
  BY <1>1, <1>3 DEF Types
<1>6. Types'
  BY <1>2, <1>3, <1>4, <1>5 DEF Types
<1> QED
  BY <1>4, <1>6

LEMMA Steps ==
    ASSUME IInv, Job!Next
    PROVE  IInv'
<1>0. Types /\ Numbering /\ \A p \in Commands : Path(p)
  BY DEF IInv
<1>1. ASSUME NEW p \in Commands, Types', Others(p), Later, Path(p)'
      PROVE  \A q \in Commands : Path(q)'
  <2> SUFFICES ASSUME NEW q \in Commands, q # p PROVE Path(q)'
    BY <1>1
  <2>1. Same(q) /\ Path(q)
    BY <1>0, <1>1 DEF Others
  <2> QED
    BY <1>0, <1>1, <2>1, PathStays
<1>2. ASSUME NEW p \in Commands, Types', Others(p), Later, Path(p)',
             UNCHANGED <<written, noting, shared>>
      PROVE  IInv'
  <2>1. Numbering'
    BY <1>0, <1>2, NumberingStays
  <2> QED
    BY <1>1, <1>2, <2>1 DEF IInv
<1>3. ASSUME NEW p \in Commands, Job!Create(p) PROVE IInv'
  <2>1. Types' /\ Others(p) /\ Later /\ Path(p)'
    BY <1>0, <1>3, CreateKeeps
  <2> QED
    BY <1>2, <1>3, <2>1 DEF Job!Create, Job!log
<1>4. ASSUME NEW p \in Commands, Job!Propose(p) PROVE IInv'
  <2>1. Types' /\ Others(p) /\ Later /\ Path(p)'
    BY <1>0, <1>4, ProposeKeeps
  <2> QED
    BY <1>2, <1>4, <2>1 DEF Job!Propose, Job!log
<1>5. ASSUME NEW p \in Commands, Job!Verdict(p) PROVE IInv'
  <2>1. Types' /\ Others(p) /\ Later /\ Path(p)'
    BY <1>0, <1>5, VerdictKeeps
  <2> QED
    BY <1>2, <1>5, <2>1 DEF Job!Verdict, Job!log
<1>6. ASSUME NEW p \in Commands, Job!Save(p) PROVE IInv'
  <2>1. Types' /\ Others(p) /\ Later /\ Path(p)'
    BY <1>0, <1>6, SaveKeeps
  <2> QED
    BY <1>2, <1>6, <2>1 DEF Job!Save, Job!log
<1>7. ASSUME NEW p \in Commands, NEW status \in {"running", "paused", "completed"},
             Job!SetStatus(p, status)
      PROVE  IInv'
  <2>1. Types' /\ Others(p) /\ Later /\ Path(p)'
    BY <1>0, <1>7, SetStatusKeeps
  <2> QED
    BY <1>2, <1>7, <2>1 DEF Job!SetStatus, Job!log
<1>8. ASSUME NEW p \in Commands, NEW pauses \in BOOLEAN, Job!Plan(p, pauses) PROVE IInv'
  <2>1. Types' /\ Others(p) /\ Later /\ Path(p)'
    BY <1>0, <1>8, PlanKeeps
  <2> QED
    BY <1>2, <1>8, <2>1 DEF Job!Plan, Job!log
<1>9. ASSUME NEW p \in Commands, NEW what \in Working, Job!Work(p, what) PROVE IInv'
  <2>1. Types' /\ Others(p) /\ Later /\ Path(p)'
    BY <1>0, <1>9, WorkKeeps
  <2> QED
    BY <1>2, <1>9, <2>1 DEF Job!Work, Job!log
<1>10. ASSUME NEW p \in Commands, Job!Tool(p) PROVE IInv'
  <2>1. Types' /\ Others(p) /\ Later /\ Path(p)'
    BY <1>0, <1>10, ToolKeeps
  <2> QED
    BY <1>2, <1>10, <2>1 DEF Job!Tool, Job!log
<1>11. ASSUME NEW p \in Commands, Job!Execute(p) PROVE IInv'
  <2>1. Types' /\ Others(p) /\ Later /\ Path(p)'
    BY <1>0, <1>11, ExecuteKeeps
  <2> QED
    BY <1>2, <1>11, <2>1 DEF Job!Execute, Job!log
<1>12. ASSUME NEW p \in Commands, Job!Mark(p) PROVE IInv'
  <2>1. Types' /\ Others(p) /\ Later /\ Path(p)'
    BY <1>0, <1>12, MarkKeeps
  <2> QED
    BY <1>2, <1>12, <2>1 DEF Job!Mark, Job!Looks, Job!Puts, Job!log
<1>13. ASSUME NEW p \in Commands, Job!FailTool(p) PROVE IInv'
  <2>1. Types' /\ Others(p) /\ Later /\ Path(p)'
    BY <1>0, <1>13, FailKeeps
  <2> QED
    BY <1>2, <1>13, <2>1 DEF Job!FailTool, Job!Looks, Job!Puts, Job!log
<1>14. ASSUME NEW p \in Commands, Job!Sum(p) PROVE IInv'
  <2>1. Types' /\ Others(p) /\ Later /\ Path(p)'
    BY <1>0, <1>14, SumKeeps
  <2> QED
    BY <1>2, <1>14, <2>1 DEF Job!Sum, Job!log
<1>15. ASSUME NEW p \in Commands, Job!Note(p) PROVE IInv'
  <2>1. Types' /\ Numbering'
    BY <1>0, <1>15, NoteSteps
  <2>2. Others(p) /\ Later /\ Path(p)'
    BY <1>0, <1>15, <2>1, NoteKeeps
  <2> QED
    BY <1>1, <2>1, <2>2 DEF IInv
<1>16. ASSUME NEW x \in Commands \cup People, Job!FinishNote(x) PROVE IInv'
  <2>1. Types' /\ Numbering'
    BY <1>0, <1>16, NumberingEnds
  <2>2. ASSUME NEW q \in Commands PROVE Path(q)'
    <3>1. Same(q) /\ Later
      BY <1>0, <1>16 DEF Job!FinishNote, Job!queue, Same, Later, Types
    <3> QED
      BY <1>0, <2>1, <3>1, PathStays
  <2> QED
    BY <2>1, <2>2 DEF IInv
<1>17. ASSUME NEW p \in Commands, Job!Return(p) PROVE IInv'
  <2>1. Types' /\ Others(p) /\ Later /\ Path(p)'
    BY <1>0, <1>17, ReturnKeeps
  <2> QED
    BY <1>2, <1>17, <2>1 DEF Job!Return, Job!log
<1>18. ASSUME NEW p \in Commands, Job!Fault(p) PROVE IInv'
  <2>1. Types' /\ Others(p) /\ Later /\ Path(p)'
    BY <1>0, <1>18, FaultKeeps
  <2>2. UNCHANGED <<written, shared>> /\ noting' = [noting EXCEPT ![p] = Nothing]
    BY <1>18 DEF Job!Fault
  <2>3. Numbering'
    BY <1>0, <2>2, NumberingGoesOn
  <2> QED
    BY <1>1, <2>1, <2>3 DEF IInv
<1>19. ASSUME NEW x \in People, Job!Decide(x) PROVE IInv'
  <2>1. Types' /\ Numbering'
    BY <1>0, <1>19, DecideSteps
  <2>2. \A q \in Commands : Path(q)'
    BY <1>0, <1>19, <2>1, DecideKeeps
  <2> QED
    BY <2>1, <2>2 DEF IInv
<1>21. ASSUME NEW x \in People, Job!Settle(x) PROVE IInv'
  <2>1. Types' /\ Numbering'
    BY <1>0, <1>21, SettleSteps
  <2>2. \A q \in Commands : Path(q)'
    BY <1>0, <1>21, <2>1, SettleKeeps
  <2> QED
    BY <2>1, <2>2 DEF IInv
<1>22. ASSUME NEW p \in Commands, Job!Rethrow(p) PROVE IInv'
  <2>1. Types' /\ Others(p) /\ Later /\ Path(p)'
    BY <1>0, <1>22, RethrowKeeps
  <2> QED
    BY <1>2, <1>22, <2>1 DEF Job!Rethrow, Job!log
<1>20. ASSUME NEW p \in Commands, Job!Command(p) PROVE IInv'
  <2>1. TRUE \in BOOLEAN /\ FALSE \in BOOLEAN /\ "work" \in Working /\ "call" \in Working
        /\ p \in Commands \cup People
    BY DEF Working
  <2> QED
    BY <1>3, <1>4, <1>5, <1>6, <1>7, <1>8, <1>9, <1>10, <1>11, <1>12, <1>13, <1>14, <1>15, <1>16,
       <1>17, <1>20, <1>22, <2>1 DEF Job!Command
<1> QED
  BY <1>16, <1>18, <1>19, <1>20, <1>21 DEF Job!Next

LEMMA Starts ==
    ASSUME Job!Init
    PROVE  IInv
<1>1. /\ kind \in [Commands -> Job!Kinds] /\ job = [p \in Commands |-> "none"]
      /\ script = [p \in Commands |-> Job!Scripts[kind[p]]]
      /\ ended = [p \in Commands |-> "no"]
      /\ rows = [p \in Commands |-> <<>>] /\ verdicts = [p \in Commands |-> <<>>]
      /\ results = [p \in Commands |-> <<>>] /\ lost = [p \in Commands |-> FALSE]
      /\ saved = [p \in Commands |-> 0]
      /\ written = {} /\ noting = [x \in Commands \cup People |-> Nothing] /\ shared = {}
      /\ deciding = [x \in People |-> Nothing] /\ decided = [p \in Commands |-> 0]
      /\ overtaken = {} /\ stops = 0
  BY DEF Job!Init
<1>2. ASSUME NEW p \in Commands
      PROVE  /\ Scripted(kind[p]) /\ script[p] = Job!Scripts[kind[p]] /\ script[p] \in Seq(Words)
             /\ Shape(kind[p], script[p]) /\ AsksFirst(script[p]) /\ Holds(script[p], Settling)
             /\ ~Holds(script[p], Carrying \cup Aside)
  BY <1>1, ScriptsHaveShape DEF Scripted, Shape
<1>3. Types
  <2>1. \A S : <<>> \in Seq(S)
    OBVIOUS
  <2>2. IsFiniteSet(written)
    BY <1>1, FS_EmptySet
  <2>3. script \in [Commands -> Seq(Words)]
    BY <1>1, <1>2
  <2>4. stops \in 0 .. MaxStops
    BY <1>1, CommandsAssumption
  <2>5. "none" \in Job!Statuses \cup {"none"} /\ "no" \in Ends
    BY DEF Ends
  <2> QED
    BY <1>1, <2>1, <2>2, <2>3, <2>4, <2>5 DEF Types
<1>4. ASSUME NEW p \in Commands PROVE Path(p)
  <2>1. /\ job[p] = "none" /\ ended[p] = "no" /\ rows[p] = <<>> /\ verdicts[p] = <<>>
        /\ results[p] = <<>> /\ lost[p] = FALSE /\ saved[p] = 0
    BY <1>1
  <2>2. Course(p)
    <3>1. kind[p] \in Job!Mcp => Holds(script[p], {"running"})
      <4>1. kind[p] = "mcpCall" => script[p] = Job!McpCall
        BY <1>2 DEF Job!Scripts
      <4>2. kind[p] = "mcpSession" => script[p] = Job!McpSessionOf
        BY <1>2 DEF Job!Scripts
      <4> QED
        BY <4>1, <4>2 DEF Holds, Job!Mcp, Job!McpCall, Job!McpSessionOf
    <3> QED
      BY <1>2, <2>1, <3>1 DEF Course, AsksFirst, Closed
  <2>3. Saving(p)
    <3>1. Job!Artifacts(p) = Saves(script[p]) /\ Saves(script[p]) \in Nat
      BY <1>2, ArtifactsAre, SavesAre
    <3> QED
      BY <2>1, <3>1 DEF Saving
  <2>4. /\ ~Holds(script[p], {"paused"}) /\ ~Holds(script[p], {"catch"})
        /\ ~Holds(script[p], Carrying)
    BY <1>2 DEF Holds, Aside
  <2>5. \A v : ~Got(p, v)
    BY <2>1, HoldsNothing DEF Got
  <2>6. Reasons(p) /\ Waiting(p)
    BY <2>1, <2>4, <2>5 DEF Reasons, Waiting
  <2>7. Hunt(p)
    <3> SUFFICES ASSUME kind[p] = "recon" PROVE Hunt(p)
      BY DEF Hunt
    <3>1. Holds(script[p], {"running"})
      <4>1. script[p] = Job!HuntRecon
        BY <1>2 DEF Job!Scripts
      <4> QED
        BY <4>1 DEF Holds, Job!HuntRecon
    <3>2. ~Carries(p)
      BY <1>2, <2>4, HoldsTail DEF Carries
    <3>3. ~Job!Said(p, {"failed"})
      BY <2>1 DEF Job!Said
    <3>4. Executed(results[p]) = {} /\ Behind(p) = {}
      BY <2>1 DEF Executed, Behind, Marks
    <3>5. Cardinality(Executed(results[p])) = 0 /\ Cardinality(Behind(p)) = 0
      BY <3>4, FS_EmptySet
    <3>6. Cardinality(Executed(results[p])) =< Cardinality(Behind(p))
      BY <3>5
    <3> QED
      BY <2>1, <3>1, <3>2, <3>3, <3>6 DEF Hunt
  <2> QED
    BY <2>2, <2>3, <2>6, <2>7 DEF Path
<1>5. Numbering
  BY <1>1 DEF Numbering, Numbered, Noted, EventsOf
<1> QED
  BY <1>3, <1>4, <1>5 DEF IInv

-----------------------------------------------------------------------------
(***************************************************************************)
(* What the invariant says of the jobs and the events.                     *)
(***************************************************************************)
LEMMA JobsTell ==
    ASSUME IInv
    PROVE  Job!JobIsTrue /\ Job!HuntIsTrue
<1>1. ASSUME NEW p \in Commands, job[p] = "completed"
      PROVE  /\ saved[p] = Job!Artifacts(p) /\ ~(lost[p] /\ kind[p] # "recon")
             /\ kind[p] \in Job!Strict => \A i \in DOMAIN verdicts[p] : verdicts[p][i] = "allow"
  <2>1. verdicts[p] \in Seq(Job!Verdicts) /\ Path(p)
    BY DEF IInv, Types
  <2>2. kind[p] \in Job!Strict => \A i \in DOMAIN verdicts[p] : verdicts[p][i] = "allow"
    BY <1>1, <2>1 DEF Path, Waiting, Got, Holds, Job!Verdicts
  <2> QED
    BY <1>1, <2>1, <2>2 DEF Path, Saving, Reasons
<1>2. ASSUME NEW p \in Commands
      PROVE  /\ job[p] = "failed" =>
                   lost[p] \/ stops > 0 \/ (\E i \in DOMAIN verdicts[p] : verdicts[p][i] = "block")
                           \/ decided[p] > 0
             /\ job[p] = "paused" =>
                   \/ kind[p] = "recon"
                   \/ \E i \in DOMAIN verdicts[p] : verdicts[p][i] = "require"
  BY DEF IInv, Path, Reasons, Got, Holds, Harmed, Blamed
<1>3. ASSUME NEW p \in Commands
      PROVE  /\ ended[p] \in {"returned", "refused"} => job[p] \in {"completed", "paused", "failed"}
             /\ ended[p] = "threw" /\ kind[p] \in Job!Mcp => job[p] = "failed" \/ stops > 0
  BY DEF IInv, Path, Course, Closed
<1>4. Job!JobIsTrue
  BY <1>1, <1>2, <1>3 DEF Job!JobIsTrue
<1>5. ASSUME NEW p \in Commands, kind[p] = "recon"
      PROVE  /\ Job!Cardinality({i \in DOMAIN results[p] : results[p][i] = "executed"})
                  =< Job!Cardinality({i \in DOMAIN rows[p] : \/ rows[p][i] = "executed"
                                                             \/ <<p, i>> \in overtaken})
             /\ Job!Said(p, {"failed"}) => job[p] \in {"running", "failed"}
             /\ ended[p] = "threw" => stops > 0 \/ decided[p] > 0
  <2>1. Types /\ Hunt(p) /\ rows[p] \in Seq(RowStatuses) /\ results[p] \in Seq(Outcomes)
    BY DEF IInv, Path, Types
  <2>2. Cardinality(Executed(results[p])) =< Cardinality(Behind(p))
    BY <1>5, <2>1 DEF Hunt
  <2>3. /\ Behind(p) \subseteq Marks(p) /\ IsFiniteSet(Marks(p))
        /\ Cardinality(Behind(p)) \in Nat /\ Cardinality(Marks(p)) \in Nat
        /\ Cardinality(Executed(results[p])) \in Nat
    BY <2>1, BehindIs, ExecutedAre
  <2>4. Cardinality(Behind(p)) =< Cardinality(Marks(p))
    BY <2>3, FS_Subset
  <2>5. Cardinality(Executed(results[p])) =< Cardinality(Marks(p))
    BY <2>2, <2>3, <2>4
  <2> QED
    BY <1>5, <2>1, <2>5, SameCount DEF Hunt, Executed, Marks, Blamed
<1>6. Job!HuntIsTrue
  BY <1>5 DEF Job!HuntIsTrue
<1> QED
  BY <1>4, <1>6

LEMMA EventsTell ==
    ASSUME IInv
    PROVE  Job!EventsInOrder
<1>1. \A e \in written : e.job \in Commands /\ e \in EventsOf(e.job)
  BY DEF IInv, Types, EventRows, EventsOf
<1>2. \A e \in written : e.job \notin shared => e.number = e.order
  BY <1>1 DEF IInv, Numbering, Numbered
<1>3. ASSUME NEW e \in written, NEW f \in written, e.job = f.job, e.number = f.number, e # f
      PROVE  e.job \in shared /\ e.by # f.by
  <2>1. e.by # f.by
    BY <1>3 DEF IInv, Numbering
  <2>2. e.job \in shared
    BY <1>1, <1>3 DEF IInv, Numbering, Numbered
  <2> QED
    BY <2>1, <2>2
<1> QED
  BY <1>2, <1>3 DEF Job!EventsInOrder

LEMMA TypesTell ==
    ASSUME IInv
    PROVE  Job!TypeOK
<1>1. ASSUME NEW p \in Commands
      PROVE  /\ Len(rows[p]) = Len(verdicts[p])
             /\ \A i \in DOMAIN rows[p] : verdicts[p][i] \in Job!Verdicts
             /\ saved[p] =< Job!Artifacts(p)
  <2>1. /\ rows[p] \in Seq(RowStatuses) /\ verdicts[p] \in Seq(Job!Verdicts)
        /\ Len(rows[p]) = Len(verdicts[p]) /\ script[p] \in Seq(Words)
        /\ kind[p] \in Job!Kinds /\ saved[p] \in Nat
    BY DEF IInv, Types, Path, Course
  <2>2. saved[p] + Saves(script[p]) =< Job!Artifacts(p) /\ Saves(script[p]) \in Nat
    BY <2>1, SavesAre DEF IInv, Path, Saving
  <2>3. Job!Artifacts(p) \in Nat
    <3>1. Job!Scripts[kind[p]] \in Seq(Words)
      BY <2>1, ScriptsHaveShape DEF Scripted, Shape
    <3> QED
      BY <3>1, SavesAre, ArtifactsAre
  <2> QED
    BY <2>1, <2>2, <2>3
<1>2. \A e \in written : e.job \in Commands /\ e.number \in Nat
  BY DEF IInv, Types, EventRows
<1> QED
  BY <1>1, <1>2 DEF IInv, Types, Ends, Job!TypeOK

-----------------------------------------------------------------------------
LEMMA InvariantStays ==
    ASSUME IInv, [MCNext]_allvars PROVE IInv'
<1>1. CASE UNCHANGED commandVars
  <2>1. /\ UNCHANGED <<kind, job, script, ended, rows, verdicts, overtaken, results, lost, saved>>
        /\ UNCHANGED <<written, noting, shared, deciding, decided, stops>>
    BY <1>1 DEF commandVars
  <2>2. Types' /\ Later
    BY <2>1 DEF IInv, Types, Later
  <2>3. ASSUME NEW p \in Commands PROVE Path(p)'
    <3>1. Same(p) /\ Path(p)
      BY <2>1 DEF Same, IInv
    <3> QED
      BY <2>2, <3>1, PathStays DEF IInv
  <2>4. Numbering'
    BY <2>1, NumberingStays DEF IInv
  <2> QED
    BY <2>2, <2>3, <2>4 DEF IInv
<1>2. CASE Job!Next
  BY <1>2, Steps
<1> QED
  BY <1>1, <1>2 DEF MCNext, Executing, Commanding, Flowing, allvars

(* The invariant holds in every state of the three parts: what moves the   *)
(* commands keeps it, and the other parts leave the commands alone.        *)
THEOREM CommandsAreSound == MCSpec => []IInv
<1>1. MCInit => IInv
  BY Starts DEF MCInit
<1>2. IInv /\ [MCNext]_allvars => IInv'
  BY InvariantStays
<1> QED
  BY <1>1, <1>2, PTL DEF MCSpec

(* The row of a job says what was so, and a hunt tells the truth about its *)
(* tools, whatever people decide meanwhile and wherever the command stops: *)
(* the settling statements of the direct commands and runHuntRecon.        *)
THEOREM JobsTellTheTruth == MCSpec => []JobsAreTrue
<1>1. IInv => JobsAreTrue
  BY JobsTell DEF JobsAreTrue
<1> QED
  BY <1>1, CommandsAreSound, PTL

(* The numbers of the events of a job are the order in which they were     *)
(* written: WorkflowEventStore.record has no lock between the SELECT of    *)
(* the maximum and the INSERT, so only where two noted one at once can a   *)
(* number repeat, and never one of the same writer.                        *)
THEOREM EventsAreNumbered == MCSpec => []EventsInOrder
<1>1. IInv => EventsInOrder
  BY EventsTell DEF EventsInOrder
<1> QED
  BY <1>1, CommandsAreSound, PTL

-----------------------------------------------------------------------------
(***************************************************************************)
(* The other two parts keep their types for the reasons their own modules  *)
(* give: their inductive invariants hold here too, since what moves them   *)
(* here is what moves them there.                                          *)
(***************************************************************************)
Reviews == INSTANCE ActionExecution_proof
Flows == INSTANCE WorkflowRun_proof WITH MaxFaults <- NoStop, row <- jobRow, faults <- strikes

LEMMA ReviewsAssume == Reviews!NoActionAssumption /\ Reviews!BoundsAssumption
  BY NoActionAssumption, BoundsAssumption DEF Reviews!NoActionAssumption, Reviews!BoundsAssumption

LEMMA ReviewsCount == \A S : Reviews!Cardinality(S) = Cardinality(S)
  BY Zenon DEF Reviews!Cardinality, Cardinality

LEMMA ReviewsCommand == ASSUME NEW p, Command(p) PROVE Reviews!Command(p)
<1>1. Review(p) => Reviews!Review(p)
  BY ReviewsCount
    DEF Review, Reviews!Review, At, Reviews!At, Decisions, Reviews!Decisions, Reviewable,
        Reviews!Reviewable, Leave, Reviews!Leave, queueVars, Reviews!queueVars, Go,
        Reviews!Go
<1>2. RunApproved(p) => Reviews!RunApproved(p)
  BY ReviewsCount
    DEF RunApproved, Reviews!RunApproved, At, Reviews!At, Leave, Reviews!Leave, queueVars,
        Reviews!queueVars, Go, Reviews!Go
<1>3. ASSUME NEW a \in Actions
      PROVE  /\ DecideOne(p, a) => Reviews!DecideOne(p, a)
             /\ ExecuteOne(p, a) => Reviews!ExecuteOne(p, a)
             /\ PlanBlocked(p, a) => Reviews!PlanBlocked(p, a)
             /\ PlanPending(p, a) => Reviews!PlanPending(p, a)
             /\ PlanOnly(p, a) => Reviews!PlanOnly(p, a)
             /\ PlanAndRun(p, a) => Reviews!PlanAndRun(p, a)
             /\ PlanAndCheck(p, a) => Reviews!PlanAndCheck(p, a)
  BY DEF DecideOne, Reviews!DecideOne, ExecuteOne, Reviews!ExecuteOne, PlanBlocked,
        Reviews!PlanBlocked, PlanPending, Reviews!PlanPending, PlanOnly, Reviews!PlanOnly,
        PlanAndRun, Reviews!PlanAndRun, PlanAndCheck, Reviews!PlanAndCheck, At, Reviews!At,
        Leave, Reviews!Leave, queueVars, Reviews!queueVars, EnqueueBlocked,
        Reviews!EnqueueBlocked, Note, Reviews!Note, Enqueue, Reviews!Enqueue, Start,
        Reviews!Start, Go, Reviews!Go, Insert, Reviews!Insert, NoHistory, Reviews!NoHistory,
        InitialStatus, Reviews!InitialStatus
<1>4. RunResearch(p) => Reviews!RunResearch(p)
  BY DEF RunResearch, Reviews!RunResearch, At, Reviews!At, Leave, Reviews!Leave, queueVars,
        Reviews!queueVars, Go, Reviews!Go
<1> QED
  BY <1>1, <1>2, <1>3, <1>4 DEF Command, Reviews!Command

LEMMA ReviewsMove ==
    /\ Init => Reviews!Init
    /\ Next => Reviews!Next
    /\ UNCHANGED vars => UNCHANGED Reviews!vars
    /\ Reviews!IndInv => TypeOK
<1>1. Init => Reviews!Init
  BY DEF Init, Reviews!Init, QueueInit, Reviews!QueueInit, NoHistory, Reviews!NoHistory,
        NoCall, Reviews!NoCall
<1>2. ASSUME NEW p, Step(p) PROVE Reviews!Step(p)
  <2>1. /\ Decide(p) => Reviews!Decide(p)
        /\ Record(p) => Reviews!Record(p)
        /\ CheckEnds(p) => Reviews!CheckEnds(p)
        /\ Log(p) => Reviews!Log(p)
        /\ End(p) => Reviews!End(p)
    BY DEF Decide, Reviews!Decide, Record, Reviews!Record, CheckEnds, Reviews!CheckEnds, Log,
          Reviews!Log, End, Reviews!End, At, Reviews!At, Go, Reviews!Go, queueVars,
          Reviews!queueVars, Leave, Reviews!Leave, NoteFinished, Reviews!NoteFinished, Note,
          Reviews!Note, NoHistory, Reviews!NoHistory
  <2>2. Take(p) => Reviews!Take(p)
    BY DEF Take, Reviews!Take, At, Reviews!At, Go, Reviews!Go, queueVars, Reviews!queueVars,
          Leave, Reviews!Leave, Start, Reviews!Start, Note, Reviews!Note, NoHistory,
          Reviews!NoHistory
  <2>3. WorkEnds(p) => Reviews!WorkEnds(p)
    BY DEF WorkEnds, Reviews!WorkEnds, At, Reviews!At, Go, Reviews!Go, queueVars,
          Reviews!queueVars, NoteFinished, Reviews!NoteFinished, Note, Reviews!Note,
          NoHistory, Reviews!NoHistory
  <2>4. CallQueue(p) => Reviews!CallQueue(p)
    BY DEF CallQueue, Reviews!CallQueue, Asks, Reviews!Asks, Read, Reviews!Read, Busy,
          Reviews!Busy, NoCall, Reviews!NoCall
  <2>5. CallReturns(p) => Reviews!CallReturns(p)
    BY DEF CallReturns, Reviews!CallReturns, Return, Reviews!Return, Write, Reviews!Write, At,
          Reviews!At, Go, Reviews!Go, Note, Reviews!Note, NoHistory, Reviews!NoHistory,
          AfterReturn, Reviews!AfterReturn, Busy, Reviews!Busy, Done, Reviews!Done,
          TransitionAllowed, Reviews!TransitionAllowed, NoCall, Reviews!NoCall
  <2>6. InHand(p) = Reviews!InHand(p)
    BY DEF InHand, Reviews!InHand, Research, Reviews!Research
  <2>7. CallThrows(p) => Reviews!CallThrows(p)
    BY <2>6
      DEF CallThrows, Reviews!CallThrows, Throw, Reviews!Throw, Unwind, Reviews!Unwind, Go,
          Reviews!Go, AfterThrow, Reviews!AfterThrow, Busy, Reviews!Busy, Done,
          Reviews!Done, TransitionAllowed, Reviews!TransitionAllowed, NoCall, Reviews!NoCall
  <2>8. ASSUME NEW a \in Actions PROVE PlanSeed(p, a) => Reviews!PlanSeed(p, a)
    BY <2>6
      DEF PlanSeed, Reviews!PlanSeed, At, Reviews!At, Go, Reviews!Go, Leave, Reviews!Leave,
          Note, Reviews!Note, NoHistory, Reviews!NoHistory, Enqueue, Reviews!Enqueue,
          EnqueueBlocked, Reviews!EnqueueBlocked, Insert, Reviews!Insert, InitialStatus,
          Reviews!InitialStatus
  <2>9. WriteLedger(p) => Reviews!WriteLedger(p)
    BY DEF WriteLedger, Reviews!WriteLedger, At, Reviews!At, Go, Reviews!Go, Leave,
          Reviews!Leave, queueVars, Reviews!queueVars
  <2>10. Conclude(p) => Reviews!Conclude(p)
    BY DEF Conclude, Reviews!Conclude, At, Reviews!At, Go, Reviews!Go, Leave, Reviews!Leave,
          queueVars, Reviews!queueVars
  <2> QED
    BY <1>2, <2>1, <2>2, <2>3, <2>4, <2>5, <2>7, <2>8, <2>9, <2>10 DEF Step, Reviews!Step
<1>3. ASSUME NEW p, DatabaseError(p) \/ Crash(p)
      PROVE  Reviews!DatabaseError(p) \/ Reviews!Crash(p)
  BY <1>3
    DEF DatabaseError, Reviews!DatabaseError, Crash, Reviews!Crash, AfterThrow,
        Reviews!AfterThrow, InHand, Reviews!InHand, Research, Reviews!Research, Fault,
        Reviews!Fault, Unwind, Reviews!Unwind, Leave,
        Reviews!Leave, Note, Reviews!Note, Busy, Reviews!Busy, Abandon, Reviews!Abandon, Go,
        Reviews!Go, NoHistory, Reviews!NoHistory, NoCall, Reviews!NoCall, Done, Reviews!Done
<1>4. NoteRaces => Reviews!NoteRaces
  BY DEF NoteRaces, Reviews!NoteRaces
<1>5. Next => Reviews!Next
  BY <1>2, <1>3, <1>4, ReviewsCommand DEF Next, Reviews!Next
<1>6. UNCHANGED vars => UNCHANGED Reviews!vars
  BY DEF vars, queueVars, Reviews!vars, Reviews!queueVars
<1>7. Reviews!IndInv => TypeOK
  BY DEF Reviews!IndInv,
        TypeOK, Reviews!TypeOK, QueueTypeOK, Reviews!QueueTypeOK, Places, Reviews!Places,
        Decisions, Reviews!Decisions, Events, Reviews!Events, NoHistory, Reviews!NoHistory,
        Statuses, Reviews!Statuses, Calls, Reviews!Calls, NoCall, Reviews!NoCall,
        AfterThrow, Reviews!AfterThrow, Targets, Reviews!Targets
<1> QED
  BY <1>1, <1>5, <1>6, <1>7

LEMMA FlowsAssume == Flows!PipelineAssumption
  BY WorkflowAssumption
    DEF Workflow!PipelineAssumption, Flows!PipelineAssumption, Workflow!Units, Flows!Units

LEMMA FlowsMove ==
    /\ Workflow!Init => Flows!Init
    /\ Workflow!Next => Flows!Next
    /\ UNCHANGED workflowVars => UNCHANGED Flows!vars
    /\ Flows!Sound => Workflow!TypeOK
<1>1. Workflow!Init => Flows!Init
  BY DEF Workflow!Init, Flows!Init, Workflow!Jobs, Flows!Jobs, Workflow!NoFile, Flows!NoFile,
        Workflow!Off, Flows!Off, Workflow!NewSummary, Flows!NewSummary, Workflow!Units,
        Flows!Units
<1>2. Workflow!Next => Flows!Next
  BY DEF Workflow!Next, Flows!Next, Workflow!Jobs, Flows!Jobs, Workflow!Run, Flows!Run,
        Workflow!Step, Flows!Step, Workflow!Exception, Flows!Exception, Workflow!Crash,
        Flows!Crash, Workflow!Resume, Flows!Resume, Workflow!Create, Flows!Create,
        Workflow!Begin, Flows!Begin, Workflow!FirstCheckpoint, Flows!FirstCheckpoint,
        Workflow!Skip, Flows!Skip, Workflow!Plan, Flows!Plan, Workflow!Work, Flows!Work,
        Workflow!Record, Flows!Record, Workflow!Checkpoint, Flows!Checkpoint, Workflow!Seal,
        Flows!Seal, Workflow!Catch, Flows!Catch, Workflow!Close, Flows!Close,
        Workflow!Announce, Flows!Announce, Workflow!Alive, Flows!Alive, Workflow!Fault,
        Flows!Fault, Workflow!InTry, Flows!InTry, Workflow!Goes, Flows!Goes, Workflow!Stops,
        Flows!Stops, Workflow!Writes, Flows!Writes, Workflow!TornFile, Flows!TornFile,
        Workflow!Readable, Flows!Readable, Workflow!Resumable, Flows!Resumable,
        Workflow!NewSummary, Flows!NewSummary, Workflow!At, Flows!At, Workflow!Reports,
        Flows!Reports, Workflow!Save, Flows!Save, Workflow!HasUnit, Flows!HasUnit,
        Workflow!Unit, Flows!Unit, Workflow!Becomes, Flows!Becomes, Workflow!Yields,
        Flows!Yields, Workflow!WorkLocal, Flows!WorkLocal, Workflow!WorkSeeded,
        Flows!WorkSeeded, Workflow!WorkExternal, Flows!WorkExternal, Workflow!Verdict,
        Flows!Verdict, Workflow!Off, Flows!Off, Workflow!NoFile, Flows!NoFile,
        Workflow!Units, Flows!Units, Workflow!Finishes, Flows!Finishes
<1>3. UNCHANGED workflowVars => UNCHANGED Flows!vars
  BY DEF workflowVars, Flows!vars
<1>4. Flows!Sound => Workflow!TypeOK
  BY DEF Flows!Sound,
        Workflow!TypeOK, Flows!TypeOK, Workflow!Jobs, Flows!Jobs, Workflow!Summary,
        Flows!Summary, Workflow!NoFile, Flows!NoFile, Workflow!TornFile, Flows!TornFile,
        Workflow!Process, Flows!Process, Workflow!Units, Flows!Units, Workflow!Results,
        Flows!Results, Workflow!Places, Flows!Places
<1> QED
  BY <1>1, <1>2, <1>3, <1>4

(* Jobs, actions and events keep their types, whichever part moves.        *)
THEOREM TypesHoldInEachPart == MCSpec => []TypesOK
<1> DEFINE Parts == part \in {"actions", "commands", "workflows"}
           AllInv == Parts /\ IInv /\ Reviews!IndInv /\ Flows!Sound
<1>1. MCInit => AllInv
  <2>1. Init => Reviews!IndInv
    BY ReviewsMove, ReviewsAssume, Reviews!InitInd
  <2>2. Workflow!Init => Flows!Sound
    BY FlowsMove, FlowsAssume, Flows!InitSound
  <2> QED
    BY <2>1, <2>2, Starts DEF MCInit
<1>2. AllInv /\ [MCNext]_allvars => AllInv'
  <2> SUFFICES ASSUME AllInv, [MCNext]_allvars PROVE AllInv'
    OBVIOUS
  <2>1. IInv'
    BY InvariantStays
  <2>2. [Reviews!Next]_Reviews!vars
    BY ReviewsMove DEF MCNext, Executing, Commanding, Flowing, allvars
  <2>3. Reviews!IndInv'
    BY <2>2, ReviewsAssume, Reviews!Inductive
  <2>4. [Flows!Next]_Flows!vars
    BY FlowsMove DEF MCNext, Executing, Commanding, Flowing, allvars
  <2>5. Flows!Sound'
    BY <2>4, FlowsAssume, Flows!NextSound
  <2>6. Parts'
    BY DEF MCNext, Executing, Commanding, Flowing, allvars
  <2> QED
    BY <2>1, <2>3, <2>5, <2>6
<1>3. AllInv => TypesOK
  <2> SUFFICES ASSUME AllInv PROVE TypesOK
    OBVIOUS
  <2>1. TypeOK /\ Workflow!TypeOK /\ Job!TypeOK
    BY ReviewsMove, FlowsMove, TypesTell
  <2> QED
    BY <2>1 DEF TypesOK
<1> QED
  BY <1>1, <1>2, <1>3, PTL DEF MCSpec
=============================================================================
