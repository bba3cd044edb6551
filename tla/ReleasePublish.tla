--------------------------- MODULE ReleasePublish ---------------------------
(***************************************************************************)
(* Publishing to GitHub: the checks of `bounty release publish-status`     *)
(* (core/release/release-publish-plan.ts), of `release github-bootstrap`   *)
(* and the two scripts it writes (release-github-bootstrap.ts), the score of*)
(* skills/skill-readiness.ts and the final `release public-gate` of the    *)
(* CLI, over a checkout with its tag, the origin and the workflows GitHub  *)
(* runs.  One command runs to its end before the next one of its terminal; *)
(* a second terminal, other clones and GitHub act between commands.  Which *)
(* of the scripts is run is chosen at the start.                           *)
(* Commits are numbered in the order of the local branch.                  *)
(***************************************************************************)
EXTENDS Integers, FiniteSets

CONSTANTS Other,       \* a branch that is not the public one
          MaxCommits, MaxMeddling

VARIABLES head, dirty, \* the commit checked out; whether the tree differs from it
          sound,       \* whether the tree passes the release check and the skill its own
          tag,         \* the commit of the local tag; 0: none
          origin,      \* the remote named origin
          gh,          \* the GitHub CLI is installed and authenticated
          remote,      \* branch at the origin: our commit it holds, and whether it has others
          rtag,        \* the commit of the tag at the origin; 0: none
          run,         \* the latest run of each workflow
          script,      \* which script is run
          branch,      \* the branch it was written for, which is checked out
          sc,          \* the command it is about to run
          refused,     \* the origin refused its tag
          moved,       \* the local tag was moved after the script had pushed it
          meddling     \* steps of the second terminal and of other clones

local == <<head, dirty, sound, tag, origin, gh>>
vars == <<head, dirty, sound, tag, origin, gh, remote, rtag, run, script, branch, sc, refused, moved,
          meddling>>

Public == "main"
Branches == {Other, Public}
Workflows == {"CI", "Release"}   \* CI stands for the three that run for a branch
BranchScoped == {"CI"}
NoRun == [of |-> 0, state |-> "none"]

Init ==
    /\ head = 1 /\ dirty \in BOOLEAN /\ sound \in BOOLEAN /\ gh \in BOOLEAN
    /\ tag \in {0, 1}
    /\ origin \in {"none", "target", "elsewhere"}
    /\ remote = [b \in Branches |-> [at |-> 0, foreign |-> FALSE]]
    /\ rtag = 0
    /\ run = [w \in Workflows |-> [b \in Branches |-> NoRun]]
    /\ script \in {"shell", "powershell"} /\ branch \in Branches /\ sc = "verify"
    /\ refused = FALSE /\ moved = FALSE
    /\ meddling = 0

(* A check is a name and its status; an issue is a check that did not pass.*)
Check(name, ok, otherwise) == [name |-> name, status |-> IF ok THEN "pass" ELSE otherwise]
Fails(checks) == {c \in checks : c.status = "fail"}
Issues(checks) == {c.name : c \in {x \in checks : x.status # "pass"}}

(* runReleaseCheck: the files, the package and the skill fail; an origin   *)
(* that is missing or not at GitHub only warns.                            *)
ReleaseCheck ==
    {Check("files", sound, "fail"), Check("github:origin", origin # "none", "warn")}

(* The checks publish-status makes of the checkout, whatever its flags.    *)
LocalChecks(b) ==
    {Check("release:check", Fails(ReleaseCheck) = {}, "fail"),
     Check("git:origin", origin # "none", "fail"),
     Check("git:origin-target", origin = "target", "fail"),
     Check("git:working-tree", ~dirty, "fail"),
     Check("git:branch", b = branch, "warn"),
     Check("publish:public-branch", b = Public, "warn"),
     Check("git:local-tag", tag = head, "warn")}

(* ls-remote tells whether the branch and the tag exist at the origin; the *)
(* GitHub CLI tells how the latest run of each workflow ended: a workflow  *)
(* that is not scoped to a branch answers with the last run of any.        *)
Reachable == origin = "target"
OnlineChecks(b) ==
    {Check("git:remote-branch", Reachable /\ (remote[b].at # 0 \/ remote[b].foreign), "fail"),
     Check("git:remote-tag", Reachable /\ rtag # 0, "warn")}
ActionsChecks(b) ==
    IF ~gh THEN {Check("github:actions-gh", FALSE, "fail")}
    ELSE {Check(w, run[w][IF w \in BranchScoped THEN b ELSE Public].state = "success", "fail") :
            w \in Workflows}

Skipped == {Check("publish:online", FALSE, "warn"), Check("github:actions", FALSE, "warn")}
PublishStatus(b, online) ==
    LocalChecks(b) \cup IF online THEN OnlineChecks(b) \cup ActionsChecks(b)
                             ELSE Skipped

(* github-bootstrap repeats the local checks and asks for the GitHub CLI.  *)
Bootstrap(b) ==
    LocalChecks(b) \cup {Check("gh:version", gh, "fail"), Check("gh:auth", gh, "fail")}

(* scoreSkillReadiness: what fails in the skill, its bundle or the release *)
(* check blocks, every other check that did not pass warns - a failed      *)
(* publish check too.                                                      *)
Blockers == Issues(Fails(ReleaseCheck))
ReleaseWarnings == Issues(ReleaseCheck \ Fails(ReleaseCheck))
GithubWarnings(b, online) ==
    (Issues(Bootstrap(b)) \cup IF online THEN Issues(PublishStatus(b, TRUE)) ELSE {})
        \ {"release:check"}
Ultimate(b, online) ==
    Blockers = {} /\ ReleaseWarnings = {} /\ GithubWarnings(b, online) = {}

(* The final gate; the installed command is checked with it.               *)
Gate(b) == Fails(PublishStatus(b, TRUE)) = {} /\ Ultimate(b, TRUE)

-----------------------------------------------------------------------------
(* The shell script stops at the first command that fails, set -e.  That   *)
(* of PowerShell goes on: its $ErrorActionPreference is about cmdlets, not *)
(* about the exit codes of programs.                                       *)
Goto(from, ok, to) ==
    sc = from /\ sc' = IF ok \/ script = "powershell" THEN to ELSE "stopped"
Remains == UNCHANGED <<script, branch, refused, moved, meddling>>

(* npm run verify:release, release bundle, verify-bundle and two scores.   *)
Verify ==
    /\ Goto("verify", Fails(ReleaseCheck) = {}, "auth")
    /\ UNCHANGED <<local, remote, rtag, run>> /\ Remains

(* Without the GitHub CLI either script stops; a login that fails stops    *)
(* the shell script only.                                                  *)
Auth ==
    /\ \/ Goto("auth", gh, "origin")
       \/ sc = "auth" /\ ~gh /\ sc' = "stopped"
    /\ UNCHANGED <<local, remote, rtag, run>> /\ Remains

(* A push to a branch is refused when the branch has commits this clone    *)
(* does not know, and starts the workflows of the branch when it moves it. *)
Accepted(b) == ~remote[b].foreign
Started(b, advanced) ==
    run' = [w \in Workflows |->
              IF w \in BranchScoped /\ advanced
              THEN [run[w] EXCEPT ![b] = [of |-> head, state |-> "queued"]] ELSE run[w]]
Push(b) ==
    /\ Accepted(b)
    /\ remote' = [remote EXCEPT ![b].at = head]
    /\ Started(b, remote[b].at # head)

(* A missing origin is created with the repository, which is new and fails *)
(* when the name is taken; one that points elsewhere is set.               *)
PushBranch ==
    LET taken == rtag # 0 \/ \E b \in Branches : remote[b].at # 0 \/ remote[b].foreign
        ok == IF origin = "none" THEN gh /\ ~taken ELSE Accepted(branch) IN
    /\ Goto("origin", ok, "tag")
    /\ origin' = IF origin = "none" /\ ~ok THEN "none" ELSE "target"
    /\ IF ok THEN Push(branch) ELSE UNCHANGED <<remote, run>>
    /\ UNCHANGED <<head, dirty, sound, tag, gh, rtag>> /\ Remains

Tag ==
    /\ Goto("tag", TRUE, "score")
    /\ tag' = head
    /\ UNCHANGED <<head, dirty, sound, origin, gh, remote, rtag, run>> /\ Remains

(* skill score --strict, without --online: exit 1 unless ultimate.  Any    *)
(* branch but the public one is a warning, so a shell script written for   *)
(* another branch stops here.                                              *)
Score ==
    /\ Goto("score", Ultimate(branch, FALSE), "pushtag")
    /\ UNCHANGED <<local, remote, rtag, run>> /\ Remains

(* The Release workflow runs for a tag that is pushed.                     *)
Released(commit) ==
    run' = [run EXCEPT !["Release"] = [b \in Branches |-> [of |-> commit, state |-> "queued"]]]

(* Mutant: the tag is forced.                                              *)
TagForced == Reachable

(* git push origin <tag>: without force an existing tag is not moved.      *)
TagAccepted == Reachable /\ (rtag = 0 \/ rtag = tag)
PushTag ==
    /\ Goto("pushtag", TagAccepted, IF branch = Public THEN "gate" ELSE "public")
    /\ rtag' = IF TagAccepted THEN tag ELSE rtag
    /\ refused' = ~TagAccepted
    /\ IF TagAccepted /\ rtag # tag THEN Released(tag) ELSE UNCHANGED run
    /\ UNCHANGED <<local, remote, script, branch, moved, meddling>>

(* A script for another branch pushes HEAD to the public one as well.      *)
PushPublic ==
    LET ok == Reachable /\ Accepted(Public) IN
    /\ Goto("public", ok, "gate")
    /\ IF ok THEN Push(Public) ELSE UNCHANGED <<remote, run>>
    /\ UNCHANGED <<local, rtag>> /\ Remains

(* The gate is asked of the public branch; a person asks it again while    *)
(* the workflows run.                                                      *)
AskGate ==
    /\ sc = "gate"
    /\ sc' = IF Gate(Public) THEN "published" ELSE "gate"
    /\ UNCHANGED <<local, remote, rtag, run>> /\ Remains

-----------------------------------------------------------------------------
(* The second terminal edits, commits and pushes HEAD to main; it or       *)
(* another clone pushes a tag of the name before we do; other clones push  *)
(* commits.  GitHub runs the workflows of what is pushed.                  *)
Meddle ==
    /\ meddling < MaxMeddling /\ meddling' = meddling + 1
    /\ \/ dirty' = TRUE /\ sound' \in BOOLEAN /\ UNCHANGED <<head, remote, rtag, run>>
       \/ /\ dirty /\ head < MaxCommits
          /\ dirty' = FALSE /\ head' = head + 1
          /\ UNCHANGED <<sound, remote, rtag, run>>
       \/ Reachable /\ Push(Public) /\ UNCHANGED <<head, dirty, sound, rtag>>
       \/ \E b \in Branches :
            /\ remote' = [remote EXCEPT ![b].foreign = TRUE]
            /\ run' = [run EXCEPT !["CI"][b] = [of |-> MaxCommits + 1, state |-> "queued"]]
            /\ UNCHANGED <<head, dirty, sound, rtag>>
       \/ /\ rtag = 0
          /\ rtag' \in {MaxCommits + 1} \cup IF Reachable THEN {tag} \ {0} ELSE {}
          /\ Released(rtag')
          /\ UNCHANGED <<head, dirty, sound, remote>>
    /\ UNCHANGED <<tag, origin, gh, script, branch, sc, refused, moved>>

(* git tag -f <tag> HEAD, which publish-status advises when the tag is not *)
(* at HEAD.                                                                *)
Retag ==
    /\ meddling < MaxMeddling /\ meddling' = meddling + 1
    /\ tag # head /\ tag' = head
    /\ moved' = (moved \/ sc \in {"public", "gate"})
    /\ UNCHANGED <<head, dirty, sound, origin, gh, remote, rtag, run, script, branch, sc, refused>>

(* GitHub works on a run and ends it.                                      *)
Work(w, b) ==
    /\ run[w][b].state \in {"queued", "in_progress"}
    /\ \E s \in IF run[w][b].state = "queued" THEN {"in_progress"} ELSE {"success", "failure"} :
         run' = [run EXCEPT ![w] = [x \in Branches |->
                   IF x = b \/ w \notin BranchScoped THEN [run[w][x] EXCEPT !.state = s]
                   ELSE run[w][x]]]
    /\ UNCHANGED <<local, remote, rtag, sc>> /\ Remains

Script == Verify \/ Auth \/ PushBranch \/ Tag \/ Score \/ PushTag \/ PushPublic \/ AskGate
Next == Script \/ Meddle \/ Retag \/ \E w \in Workflows, b \in Branches : Work(w, b)

Spec == Init /\ [][Next]_vars
-----------------------------------------------------------------------------
(* Every variable keeps its type.                                          *)
TypeOK ==
    /\ head \in 1..MaxCommits /\ tag \in 0..MaxCommits /\ rtag \in 0..(MaxCommits + 1)
    /\ \A b \in Branches : remote[b].at \in 0..MaxCommits
    /\ script \in {"shell", "powershell"} /\ branch \in Branches /\ refused \in BOOLEAN /\ moved \in BOOLEAN
    /\ sc \in {"verify", "auth", "origin", "tag", "score", "pushtag", "public", "gate",
              "published", "stopped"}

(* When the gate lets the script's release pass, the tree is clean, passes *)
(* the checks and is that of the local tag; the Release workflow succeeded *)
(* for the very tag that is at the origin; and this is the commit checked  *)
(* out, but in two cases, since the gate asks of the origin's tag only     *)
(* whether there is one: somebody moved the local tag after the script had *)
(* pushed it, or the origin refused the push and the script, that of       *)
(* PowerShell, went on.  Every command looked at its own time.             *)
PublishesWhole ==
    sc' = "published" /\ sc # "published" =>
         /\ ~dirty /\ sound /\ tag = head
         /\ run["Release"][Public] = [of |-> rtag, state |-> "success"]
         /\ rtag = head \/ moved \/ (refused /\ script = "powershell")

(* A tag that others may have installed is never moved.                    *)
KeepsTag == rtag # 0 => rtag' = rtag

(* What is released is whole and stays what it is: both of the above.      *)
ReleaseIsWhole == [][PublishesWhole /\ KeepsTag]_vars
=============================================================================
