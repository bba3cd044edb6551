-------------------------- MODULE MCDesk -----------------------------------
(***************************************************************************)
(* What a person keeps at hand, in one instance for TLC: the sessions and  *)
(* the screens of the terminal interface, the provider files, the release  *)
(* directory and the release at GitHub.  They share no state, so one part  *)
(* moves in a behaviour and the others keep their first state.  The        *)
(* terminal t1 works on a session with one exchange in it; t2 works on an  *)
(* empty one or is about to start.                                         *)
(***************************************************************************)
EXTENDS Integers, Sequences

CONSTANTS Terminals, Sessions, Files, None, Kept, Undoable, MaxKeys, MaxCrashes,
          Providers, Local, MaxFound, Nobody, Ids, Procs, MaxCommands, MaxStops, Catalogued, Enabling, Disabling,
          Builders, Texts, MaxBuilds, MaxEdits, MaxFaults,
          Other, MaxCommits, MaxMeddling,
          t1, s1, s2

\* The bounds are numbers, with a key for the exchange of the first state, a transcript
\* to undo, an option to pick and a commit to release.
ASSUME BoundsAssumption ==
    /\ Kept \in Nat /\ Undoable \in Nat \ {0} /\ MaxKeys \in Nat \ {0} /\ MaxCrashes \in Nat
    /\ MaxFound \in Nat \ {0}
    /\ MaxCommands \in Nat /\ MaxStops \in Nat
    /\ MaxBuilds \in Nat /\ MaxEdits \in Nat /\ MaxFaults \in Nat
    /\ MaxCommits \in Nat \ {0} /\ MaxMeddling \in Nat
\* The first state names a terminal and two sessions.
ASSUME NamesAssumption == t1 \in Terminals /\ {s1, s2} \subseteq Sessions /\ s1 # s2 /\ None \notin Sessions

VARIABLES
    file, up, session, shown, undo, redo, context, asked, sent, stage, patch, got,
    keys, crashes, visitors, resumed,
    screen, previous, draft, pick, found, query, shrunk, armed, leaving, keyStage, pending, announced,
    provider, busy, fate,
    config, auth, pc, job, gotConfig, gotAuth, made, stops, disturbed, settled,
    tree, dir, build, last, builds, edits, faults,
    head, dirty, sound, tag, origin, gh, remote, rtag, run, script, branch, sc, refused, moved, meddling,
    part            \* the part that moves

sessionVars ==
    <<file, up, session, shown, undo, redo, context, asked, sent, stage, patch, got,
    keys, crashes, visitors, resumed>>
screenVars ==
    <<screen, previous, draft, pick, found, query, shrunk, armed, leaving, keyStage, pending, announced,
    provider, busy, fate>>
providerVars ==
    <<config, auth, pc, job, gotConfig, gotAuth, made, stops, disturbed, settled>>
bundleVars ==
    <<tree, dir, build, last, builds, edits, faults>>
publishVars ==
    <<head, dirty, sound, tag, origin, gh, remote, rtag, run, script, branch, sc, refused, moved, meddling>>

Talk == INSTANCE TuiSession
Keys == INSTANCE TuiScreens
Store == INSTANCE ProviderStore
Bundle == INSTANCE ReleaseBundle
Publish == INSTANCE ReleasePublish

Parts == {"sessions", "screens", "providers", "bundle", "publish"}

Exchange == << [of |-> s1, kind |-> "question", ask |-> 1], [of |-> s1, kind |-> "answer", ask |-> 1] >>

SessionsInit ==
    \E second \in {"off", "on"} :
        LET on(t) == t = t1 \/ second = "on"
            works(t) == IF t = t1 THEN s1 ELSE s2
        IN
        /\ file = [s \in Sessions |->
                     [Talk!Fresh EXCEPT !.state = IF s = s1 \/ second = "on" THEN "whole" ELSE "none",
                                        !.messages = IF s = s1 THEN Exchange ELSE <<>>]]
        /\ up = [t \in Terminals |-> IF on(t) THEN "on" ELSE "off"]
        /\ session = [t \in Terminals |-> IF on(t) THEN works(t) ELSE None]
        /\ shown = [t \in Terminals |-> IF t = t1 THEN Exchange ELSE <<>>]
        /\ undo = [t \in Terminals |-> IF t = t1 THEN <<<<>>>> ELSE <<>>]
        /\ redo = [t \in Terminals |-> <<>>]
        /\ context = [t \in Terminals |-> {}]
        /\ asked = [t \in Terminals |-> 0]
        /\ sent = [t \in Terminals |-> <<>>]
        /\ stage = [t \in Terminals |-> "idle"]
        /\ patch = [t \in Terminals |-> <<"messages", <<>>>>]
        /\ got = [t \in Terminals |-> Talk!Fresh]
        /\ keys = 1 /\ crashes = 0
        /\ visitors = [s \in Sessions |-> {t \in Terminals : on(t) /\ works(t) = s}]
        /\ resumed = [t \in Terminals |-> FALSE]

\* The first state of a part that does not move.
SessionsRest == Talk!Init
ScreensRest == Keys!Init /\ provider = Nobody /\ found = MaxFound /\ pending = CHOOSE i \in Providers : TRUE
PublishRest == Publish!Init /\ branch = Publish!Public /\ script = "shell" /\ ~dirty /\ sound /\ gh /\ tag = 0 /\ origin = "none"

MCInit ==
    /\ part \in Parts
    /\ IF part = "sessions" THEN SessionsInit ELSE SessionsRest
    /\ IF part = "screens" THEN Keys!Init ELSE ScreensRest
    /\ Store!Init
    /\ Bundle!Init /\ tree.text = CHOOSE x \in Texts : TRUE
    /\ IF part = "publish" THEN Publish!Init ELSE PublishRest

MCNext ==
    \/ /\ part = "sessions" /\ Talk!Next
       /\ UNCHANGED <<screenVars, providerVars, bundleVars, publishVars, part>>
    \/ /\ part = "screens" /\ Keys!Next
       /\ UNCHANGED <<sessionVars, providerVars, bundleVars, publishVars, part>>
    \/ /\ part = "providers" /\ Store!Next
       /\ UNCHANGED <<sessionVars, screenVars, bundleVars, publishVars, part>>
    \/ /\ part = "bundle" /\ Bundle!Next
       /\ UNCHANGED <<sessionVars, screenVars, providerVars, publishVars, part>>
    \/ /\ part = "publish" /\ Publish!Next
       /\ UNCHANGED <<sessionVars, screenVars, providerVars, bundleVars, part>>

allvars == <<sessionVars, screenVars, providerVars, bundleVars, publishVars, part>>

MCSpec == MCInit /\ [][MCNext]_allvars

-----------------------------------------------------------------------------
(* Every variable of the part that moves keeps its type.                   *)
TypeOK ==
    CASE part = "sessions" -> Talk!TypeOK
      [] part = "screens" -> Keys!TypeOK
      [] part = "providers" -> Store!TypeOK
      [] part = "bundle" -> Bundle!TypeOK
      [] part = "publish" -> Publish!TypeOK

(* No message of one session is shown, undone to, sent or stored in        *)
(* another, whatever terminals open, undo, resume and answer, and a        *)
(* session nobody else opened is stored as its terminal shows it.          *)
SessionsStayApart == part = "sessions" => Talk!SessionsStayApart /\ Talk!ShownIsStored

(* Along every path through the screens Enter finds the option it picks,   *)
(* but in a filtered list of sessions that got shorter under the selection,*)
(* and an API key is stored for the provider it was asked for.             *)
KeysFindTheirTarget == part = "screens" => Keys!KeysFindTheirTarget

(* What a connect or disconnect that ran alone left of a provider stays,   *)
(* and has its key only with the base URL it came with.                    *)
SettledStays == part = "providers" => Store!SettledStays

(* verify-bundle accepts only the files which the build that ended last    *)
(* had recorded, and does accept what a build that ran alone just left.    *)
VerifyTells == part = "bundle" => Bundle!VerifyTells

(* When the gate passes, the release that succeeded is of the tag at the   *)
(* origin and this is the commit that was checked, unless somebody moved   *)
(* the local tag or the script went on after the origin had refused it;    *)
(* and the tag at the origin is never moved.                               *)
ReleaseIsWhole == [][Publish!PublishesWhole /\ Publish!KeepsTag]_publishVars
=============================================================================
