--------------------------- MODULE ReleaseBundle ---------------------------
(***************************************************************************)
(* `bounty release bundle` and `bounty release verify-bundle`              *)
(* (core/release/release-bundle.ts, skills/skill-definition.ts): a build   *)
(* checks the checkout, empties the output directory, packs the tarball,   *)
(* bundles the skill, writes the SBOM, then a manifest with the digest of  *)
(* each and a checksum file with those digests and the manifest's own.     *)
(* The steps are separate writes of one shared directory: the checkout may *)
(* be edited between two of them, a build may die between two of them, and *)
(* a second build may run in the same directory.  A digest stands for the  *)
(* content it is taken of.                                                 *)
(***************************************************************************)
EXTENDS Integers, FiniteSets

CONSTANTS Builders,   \* processes that run `release bundle`
          Texts,      \* states of the sources that pass or fail nothing
          MaxBuilds, MaxEdits, MaxFaults

VARIABLES tree,       \* the checkout
          dir,        \* the output directory: file name -> content
          build,      \* the state of each builder
          last,       \* what the build that ended last had recorded
          builds, edits, faults

vars == <<tree, dir, build, last, builds, edits, faults>>

Trees == [text: Texts, files: BOOLEAN, skill: BOOLEAN]
Primary == {"tarball", "skill", "sbom"}
Empty == [f \in {} |-> {}]
Put(d, name, content) == [f \in DOMAIN d \cup {name} |-> IF f = name THEN content ELSE d[f]]
Remove(d, name) == [f \in DOMAIN d \ {name} |-> d[f]]

(* The checks of a release that the bundle depends on: the files the       *)
(* public repository must hold with what they must say, and the skill.     *)
ReleaseCheck(t) == (IF t.files THEN {} ELSE {"files"})
                   \cup (IF t.skill THEN {} ELSE {"skills/bug-bounty-pilot:valid"})

(* A skill bundle carries its own manifest: the archive is accepted when   *)
(* every file it names is there, unchanged, and was valid when bundled.    *)
VerifySkillBundle(content) == content.whole /\ content.of.skill

(* The digests of the primary files that are in the directory.             *)
Recorded(d, names) == {<<f, d[f]>> : f \in names}

Idle == [pc |-> "idle", force |-> FALSE, sbom |-> FALSE, arts |-> {}, alone |-> TRUE]

Init ==
    /\ tree \in {t \in Trees : ReleaseCheck(t) = {}}
    /\ dir = Empty
    /\ build = [b \in Builders |-> Idle]
    /\ last = [arts |-> {}, manifest |-> {}, alone |-> FALSE]
    /\ builds = 0 /\ edits = 0 /\ faults = 0

Fails(b) == build' = [build EXCEPT ![b] = Idle]
Step(b, pc) == build' = [build EXCEPT ![b].pc = pc]
Rest == UNCHANGED <<tree, last, builds, edits, faults>>

(* runReleaseCheck refuses to bundle when any check fails.                 *)
Begin(b, force, sbom) ==
    LET busy == {a \in Builders : build[a].pc # "idle"} IN
    /\ builds < MaxBuilds /\ build[b].pc = "idle"
    /\ ReleaseCheck(tree) = {}
    /\ build' = [a \in Builders |->
                   IF a = b THEN [pc |-> "prepare", force |-> force, sbom |-> sbom,
                                  arts |-> {}, alone |-> busy = {}]
                   ELSE [build[a] EXCEPT !.alone = build[a].pc = "idle"]]
    /\ last' = [last EXCEPT !.alone = FALSE]
    /\ builds' = builds + 1
    /\ UNCHANGED <<tree, dir, edits, faults>>

(* prepareOutputDir: a directory that is not empty needs --force, which    *)
(* removes all of it.                                                      *)
Prepare(b) ==
    /\ build[b].pc = "prepare"
    /\ IF dir # Empty /\ ~build[b].force
       THEN Fails(b) /\ UNCHANGED dir
       ELSE Step(b, "pack") /\ dir' = Empty
    /\ Rest

Pack(b) ==
    /\ build[b].pc = "pack"
    /\ dir' = Put(dir, "tarball", [of |-> tree, whole |-> TRUE])
    /\ Step(b, "skill")
    /\ Rest

(* bundleStandaloneSkill validates the skill again, writes the archive and *)
(* verifies it; artifactFor then reads both files, which another build may *)
(* have removed.                                                           *)
Skill(b) ==
    LET made == Put(dir, "skill", [of |-> tree, whole |-> TRUE]) IN
    /\ build[b].pc = "skill"
    /\ IF ~tree.skill THEN Fails(b) /\ UNCHANGED dir
       ELSE /\ dir' = made
            /\ IF "tarball" \notin DOMAIN made THEN Fails(b)
               ELSE build' = [build EXCEPT ![b].pc = IF build[b].sbom THEN "sbom" ELSE "manifest",
                                           ![b].arts = Recorded(made, {"tarball", "skill"})]
    /\ Rest

Sbom(b) ==
    LET made == Put(dir, "sbom", [of |-> tree, whole |-> TRUE]) IN
    /\ build[b].pc = "sbom"
    /\ dir' = made
    /\ build' = [build EXCEPT ![b].pc = "manifest", ![b].arts = @ \cup Recorded(made, {"sbom"})]
    /\ Rest

(* A manifest carries the time it was generated: no two are alike.         *)
Manifest(b) ==
    /\ build[b].pc = "manifest"
    /\ dir' = Put(dir, "manifest", [by |-> b, ok |-> TRUE, arts |-> build[b].arts])
    /\ Step(b, "sums")
    /\ Rest

(* The checksum file pins the recorded digests and the manifest as it is   *)
(* read back.                                                              *)
SumsOf(b) == build[b].arts \cup Recorded(dir, {"manifest"})

Sums(b) ==
    /\ build[b].pc = "sums"
    /\ Fails(b)
    /\ IF "manifest" \notin DOMAIN dir THEN UNCHANGED <<dir, last>>
       ELSE /\ dir' = Put(dir, "sums", [entries |-> SumsOf(b)])
            /\ last' = [arts |-> build[b].arts, manifest |-> dir["manifest"],
                        alone |-> build[b].alone]
    /\ UNCHANGED <<tree, builds, edits, faults>>

(* What happens around a build: the checkout is edited, a build dies, one  *)
(* file of the directory is replaced, removed or added.                    *)
Edit ==
    /\ edits < MaxEdits
    /\ \/ \E x \in Texts \ {tree.text} : tree' = [tree EXCEPT !.text = x]
       \/ tree' = [tree EXCEPT !.files = ~@]
       \/ tree' = [tree EXCEPT !.skill = ~@]
    /\ edits' = edits + 1
    /\ UNCHANGED <<dir, build, last, builds, faults>>

Crash(b) ==
    /\ faults < MaxFaults /\ build[b].pc # "idle"
    /\ Fails(b)
    /\ faults' = faults + 1
    /\ UNCHANGED <<tree, dir, last, builds, edits>>

Replaced(name) ==
    CASE name \in Primary -> {[of |-> tree, whole |-> w] : w \in BOOLEAN}
      [] name = "manifest" -> {[by |-> b, ok |-> ok, arts |-> Recorded(dir, n)] :
                                 b \in Builders, ok \in BOOLEAN,
                                 n \in {{}, Primary \cap DOMAIN dir}}
      [] name = "sums" -> {[entries |-> {}]}
      [] OTHER -> {[of |-> tree, whole |-> TRUE]}

Tamper ==
    /\ faults < MaxFaults
    /\ \/ \E f \in DOMAIN dir : dir' = Remove(dir, f)
       \/ \E f \in DOMAIN dir \cup {"other"} : \E c \in Replaced(f) : dir' = Put(dir, f, c)
    /\ faults' = faults + 1
    /\ UNCHANGED <<tree, build, last, builds, edits>>

Next ==
    \/ \E b \in Builders :
         \/ \E force, sbom \in BOOLEAN : Begin(b, force, sbom)
         \/ Prepare(b) \/ Pack(b) \/ Skill(b) \/ Sbom(b) \/ Manifest(b) \/ Sums(b) \/ Crash(b)
    \/ Edit \/ Tamper

Spec == Init /\ [][Next]_vars

(* verifyReleaseBundle: the manifest and the checksums are read, each file *)
(* the manifest names and the manifest itself are compared with both, and  *)
(* nothing else may lie in the directory.                                  *)
Expected(d) == d["manifest"].arts \cup Recorded(d, {"manifest"})
Names(entries) == {e[1] : e \in entries}

(* Mutant: the checksum file is not compared.                              *)
MatchesManifest(d) == Expected(d) \subseteq Recorded(d, DOMAIN d)

Matches(d) == Expected(d) \subseteq Recorded(d, DOMAIN d) \cap d["sums"].entries

Verifies(d) ==
    /\ {"manifest", "sums"} \subseteq DOMAIN d
    /\ d["manifest"].ok
    /\ Matches(d)
    /\ DOMAIN d \subseteq Names(Expected(d)) \cup {"sums"}
    /\ "skill" \in DOMAIN d /\ VerifySkillBundle(d["skill"])

-----------------------------------------------------------------------------
(* Every variable keeps its type, and a directory holds only files that a  *)
(* build or a person put there.                                            *)
TypeOK ==
    /\ tree \in Trees
    /\ DOMAIN dir \subseteq Primary \cup {"manifest", "sums", "other"}
    /\ \A b \in Builders :
         /\ build[b].pc \in {"idle", "prepare", "pack", "skill", "sbom", "manifest", "sums"}
         /\ Names(build[b].arts) \subseteq Primary
    /\ builds \in 0..MaxBuilds /\ edits \in 0..MaxEdits /\ faults \in 0..MaxFaults

(* What verify-bundle says is true of the directory: it accepts only the   *)
(* files that the build which ended last had recorded, with the manifest   *)
(* that build wrote its checksum of - not the remains of a build that died *)
(* or was overtaken, and not a directory in which one file was changed -   *)
(* and it does accept what a build that ran alone has just left there.     *)
Quiet == \A b \in Builders : build[b].pc = "idle"
VerifyTells ==
    /\ Verifies(dir) => /\ dir["manifest"] = last.manifest
                        /\ {<<f, dir[f]>> : f \in DOMAIN dir \cap Primary} \subseteq last.arts
    /\ Quiet /\ faults = 0 /\ last.alone => Verifies(dir)
=============================================================================
