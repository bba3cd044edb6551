----------------------------- MODULE TuiScreens -----------------------------
(***************************************************************************)
(* The keys of one terminal: which screen they reach, what is picked there *)
(* and what a pick does.  A key belongs to the handler of the screen only  *)
(* after the global ones (leader, Ctrl+C, Tab, Ctrl+P, @ and !) let it     *)
(* pass.  A text is "empty", "slash" when it starts with one, or "text"; a *)
(* list of options is its length, which a query changes; that of the       *)
(* sessions is read and filtered anew at every drawing, by the mode of the *)
(* session among others, which Tab switches.  What the picks do to         *)
(* sessions and files is TuiSession and ProviderStore.                     *)
(***************************************************************************)
EXTENDS Naturals

CONSTANTS Providers, Local, Nobody, MaxFound

VARIABLES
    screen, previous,
    draft,          \* what is in the composer
    pick, found,    \* the selected option and how many there are
    query,          \* whether a query filters the sessions
    shrunk,         \* the filtered sessions got fewer since the selection was last set
    armed,          \* Ctrl+X waits for its second key
    leaving,        \* Ctrl+C was pressed once
    keyStage,       \* the connect screen lists providers or takes a key
    pending,        \* the provider it is about
    announced,      \* the provider whose key the screen asked for
    provider,       \* the provider in use
    busy,           \* a request is under way
    fate            \* "runs", "left", "threw" or "misplaced"

vars == <<screen, previous, draft, pick, found, query, shrunk, armed, leaving, keyStage, pending,
          announced, provider, busy, fate>>

Panels == {"panel"}     \* doctor, results, hunt, init, tools, mcp and help are alike
Lists == {"connect", "models", "sessions", "palette", "themes", "context", "action"}
Screens == {"chat"} \cup Panels \cup Lists
Drafts == {"empty", "slash", "text"}

\* How many options a screen may show: the tables are fixed, the rest is filtered by
\* a query that outlives the visit.
Shows(s) == IF s \in {"themes", "action"} THEN {MaxFound}
            ELSE IF s = "palette" THEN 1 .. MaxFound
            ELSE IF s \in Lists THEN 0 .. MaxFound ELSE {0}

Init ==
    /\ provider \in Providers \cup {Nobody}
    /\ screen = (IF provider = Nobody THEN "connect" ELSE "chat")
    /\ previous = "chat" /\ draft = "empty" /\ pick = 0 /\ found \in Shows(screen)
    /\ query = FALSE /\ shrunk = FALSE
    /\ armed = FALSE /\ leaving = FALSE /\ keyStage = "provider"
    /\ pending \in Providers /\ announced = Nobody
    /\ busy = FALSE /\ fate = "runs"

(***************************************************************************)
(* Moving between screens.                                                 *)
(***************************************************************************)
SetScreen(next) == screen' = next /\ found' \in Shows(next) /\ shrunk' = FALSE

OpenScreenAnywhere(next) ==
    /\ previous' = (IF screen = "palette" THEN previous ELSE screen)
    /\ SetScreen(next)
    /\ UNCHANGED <<pick, query>>
OpenScreen(next) ==
    /\ previous' = (IF screen = "palette" THEN previous ELSE screen)
    /\ SetScreen(next)
    /\ pick' = 0 /\ UNCHANGED query

\* A screen set without a look back: the selection stays what it was.
Show(next) == SetScreen(next) /\ UNCHANGED <<previous, pick, query>>
ShowFirst(next) == SetScreen(next) /\ pick' = 0 /\ UNCHANGED <<previous, query>>
Stay == UNCHANGED <<screen, previous, pick, found, query, shrunk>>

OpenModels == IF provider = Nobody THEN OpenScreen("connect") ELSE OpenScreen("models")

ReturnToPrevious ==
    /\ ShowFirst(IF previous = "palette" THEN "chat" ELSE previous)
    /\ draft' = "empty"

Rest == UNCHANGED <<armed, leaving, keyStage, pending, announced, provider, busy, fate>>

\* An arrow moves the selection round the list, typing filters it and starts over.
Arrow == found > 0 /\ pick' \in {(pick + 1) % found, (pick + found - 1) % found}
         /\ shrunk' = FALSE /\ UNCHANGED <<screen, previous, found, query, draft>>
Query(s) == /\ pick' = 0 /\ found' \in Shows(s) /\ shrunk' = FALSE
            /\ (IF s = "sessions" THEN query' \in BOOLEAN ELSE UNCHANGED query)
            /\ UNCHANGED <<screen, previous>>
Picked == pick < found

\* The sessions are filtered anew when one of them has changed: any number of them may
\* match the query now, and the selection stays where it is.
Refilter ==
    /\ found' \in 0 .. MaxFound /\ shrunk' = (shrunk \/ found' < found)
    /\ UNCHANGED <<screen, previous, pick, query>>

\* switchMode: the mode is stored with the session, which the query may look for.
SwitchMode == IF screen = "sessions" /\ query THEN Refilter ELSE Stay

Palette == OpenScreen("palette") /\ draft' = "slash"

(***************************************************************************)
(* Global keys.                                                            *)
(***************************************************************************)
Slash ==
    \* /exit, /quit, /q
    \/ fate' = "left" /\ Stay /\ UNCHANGED <<draft, provider>>
    \* /compact, /undo, /redo, /export, /share, /editor, /mode, /new, /details, an unknown one
    \/ (Show("chat") \/ Stay) /\ UNCHANGED <<draft, provider, fate>>
    \* /models next and prev
    \/ /\ provider # Nobody /\ provider' \in Providers
       /\ Show("chat") /\ UNCHANGED <<draft, fate>>
    \/ provider = Nobody /\ OpenModels /\ draft' = "empty" /\ UNCHANGED <<provider, fate>>
    \* /models
    \/ OpenModels /\ draft' = "empty" /\ UNCHANGED <<provider, fate>>
    \* /doctor and /recon, which leave the selection and the composer alone
    \/ Show("panel") /\ UNCHANGED <<draft, provider, fate>>
    \* /resume, which drops the query, and every command with a screen
    \/ /\ SetScreen("sessions") /\ pick' = 0 /\ query' = FALSE /\ UNCHANGED previous
       /\ draft' = "empty" /\ UNCHANGED <<provider, fate>>
    \/ \E s \in Screens \ {"chat", "models", "palette"} :
           ShowFirst(s) /\ draft' = "empty" /\ UNCHANGED <<provider, fate>>

Leader ==
    /\ armed /\ armed' = FALSE
    /\ \/ Slash
       \/ /\ \E s \in {"panel", "sessions", "themes"} : OpenScreen(s)
          /\ UNCHANGED <<draft, provider, fate>>
       \/ SwitchMode /\ UNCHANGED <<draft, provider, fate>>
       \/ Stay /\ UNCHANGED <<draft, provider, fate>>
    /\ UNCHANGED <<leaving, keyStage, pending, announced, busy>>

\* The timer of the leader key.
LeaderExpires == armed /\ armed' = FALSE
    /\ UNCHANGED <<screen, previous, draft, pick, found, query, shrunk, leaving, keyStage, pending,
                   announced, provider, busy, fate>>

CtrlC ==
    /\ ~armed
    /\ IF screen = "chat" /\ draft # "empty"
         THEN draft' = "empty" /\ UNCHANGED <<leaving, fate>>
         ELSE /\ IF leaving THEN fate' = "left" /\ UNCHANGED leaving
                            ELSE leaving' = TRUE /\ UNCHANGED fate
              /\ UNCHANGED draft
    /\ Stay /\ UNCHANGED <<armed, keyStage, pending, announced, provider, busy>>

Global ==
    /\ ~armed /\ leaving' = FALSE
    /\ \/ armed' = TRUE /\ Stay /\ UNCHANGED <<draft, fate>>                          \* Ctrl+X
       \/ screen = "chat" /\ draft = "empty" /\ fate' = "left" /\ Stay /\ UNCHANGED <<draft, armed>>  \* Ctrl+D
       \/ Palette /\ UNCHANGED <<armed, fate>>                                        \* Ctrl+P
       \/ screen = "chat" /\ OpenScreen("context") /\ UNCHANGED <<draft, armed, fate>>  \* @
       \/ /\ screen = "chat" /\ draft = "empty"                                       \* !
          /\ OpenScreen("action") /\ UNCHANGED <<draft, armed, fate>>
       \/ SwitchMode /\ UNCHANGED <<draft, armed, fate>>                                \* Tab
       \/ Stay /\ UNCHANGED <<draft, armed, fate>>                 \* Ctrl+T, r, the pages
    /\ UNCHANGED <<keyStage, pending, announced, provider, busy>>

(***************************************************************************)
(* The handler of each screen.                                             *)
(***************************************************************************)
Here(s) == screen = s /\ ~armed /\ leaving' = FALSE /\ UNCHANGED <<armed, busy>>

\* connectProvider: the key is stored under the provider the screen is about.
ConnectProvider(c) ==
    \/ /\ provider' = c /\ keyStage' = "provider"
       /\ Show("chat")
       /\ fate' = IF c \notin Local /\ c # announced THEN "misplaced" ELSE fate
    \/ UNCHANGED <<provider, keyStage, fate>> /\ Stay               \* the store refused

ConnectList ==
    /\ Here("connect") /\ keyStage = "provider" /\ UNCHANGED draft
    /\ \/ Query("connect") /\ UNCHANGED <<pending, announced, provider, keyStage, fate>>
       \/ /\ Arrow /\ pending' \in Providers
          /\ UNCHANGED <<announced, provider, keyStage, fate>>
       \/ provider # Nobody /\ Show("chat") /\ UNCHANGED <<pending, announced, provider, keyStage, fate>>
       \/ /\ Picked
          /\ \E c \in Providers :
                 /\ pending' = c
                 /\ IF c \in Local
                      THEN ConnectProvider(c) /\ UNCHANGED announced
                      ELSE /\ keyStage' = "api-key" /\ announced' = c
                           /\ Stay /\ UNCHANGED <<provider, fate>>

ConnectKey ==
    /\ Here("connect") /\ keyStage = "api-key" /\ UNCHANGED <<draft, pending, announced>>
    /\ \/ keyStage' = "provider" /\ Stay /\ UNCHANGED <<provider, fate>>     \* Esc
       \/ ConnectProvider(pending)

ModelInput ==
    /\ Here("models") /\ UNCHANGED <<keyStage, pending, announced, fate>>
    /\ \/ Query("models") /\ UNCHANGED <<draft, provider>>
       \/ Arrow /\ UNCHANGED provider
       \/ Show("chat") /\ UNCHANGED <<draft, provider>>
       \/ Picked /\ Show("chat") /\ provider' \in Providers /\ UNCHANGED draft
       \/ Palette /\ UNCHANGED provider

\* Enter with an option that is not there is an exception nobody catches.
PickBlindly(then) == IF Picked THEN Show(then) /\ UNCHANGED fate
                     ELSE fate' = "threw" /\ Stay

SessionInput ==
    /\ Here("sessions") /\ UNCHANGED <<keyStage, pending, announced>>
    /\ \/ Query("sessions") /\ UNCHANGED <<draft, provider, fate>>
       \/ Arrow /\ UNCHANGED <<provider, fate>>
       \/ Show("chat") /\ UNCHANGED <<draft, provider, fate>>
       \/ /\ found > 0 /\ PickBlindly("chat")
          /\ provider' \in Providers \cup {Nobody} /\ UNCHANGED draft
       \/ Palette /\ UNCHANGED <<provider, fate>>

PaletteInput ==
    /\ Here("palette") /\ UNCHANGED <<keyStage, pending, announced>>
    /\ \/ ReturnToPrevious /\ UNCHANGED <<provider, fate>>
       \/ /\ pick' = 0 /\ found' \in 0 .. MaxFound /\ draft' = "slash" /\ shrunk' = FALSE
          /\ UNCHANGED <<screen, previous, query, provider, fate>>
       \/ Arrow /\ UNCHANGED <<provider, fate>>
       \/ Picked /\ Slash

TableInput(s) ==
    /\ Here(s) /\ UNCHANGED <<draft, keyStage, pending, announced, provider>>
    /\ \/ Arrow /\ UNCHANGED fate
       \/ Show("chat") /\ UNCHANGED fate
       \/ PickBlindly("chat")
ThemeInput == TableInput("themes")
ActionInput == TableInput("action")

ContextInput ==
    /\ Here("context") /\ UNCHANGED <<keyStage, pending, announced, provider, fate>>
    /\ \/ Query("context") /\ UNCHANGED draft
       \/ Arrow
       \/ Show("chat") /\ UNCHANGED draft
       \/ Picked /\ Show("chat") /\ draft' = "text"

SendMessage ==
    IF provider = Nobody THEN Show("connect") /\ UNCHANGED busy ELSE busy' = TRUE /\ Stay

\* The chat and the panels share the composer.
ComposerInput ==
    /\ screen \in {"chat"} \cup Panels /\ ~armed
    /\ leaving' = FALSE /\ UNCHANGED <<armed, keyStage, pending, announced>>
    /\ \/ draft' \in Drafts /\ Stay /\ UNCHANGED <<provider, busy, fate>>           \* editing, history
       \/ draft' = "empty" /\ Show("chat") /\ UNCHANGED <<provider, busy, fate>>    \* Esc
       \/ draft = "empty" /\ Palette /\ UNCHANGED <<provider, busy, fate>>          \* /
       \/ draft = "text" /\ draft' = "empty" /\ SendMessage /\ UNCHANGED <<provider, fate>>
       \/ draft = "slash" /\ Slash /\ UNCHANGED busy
       \/ /\ draft = "slash" /\ Show("chat") /\ UNCHANGED <<provider, fate>>        \* a custom command
          /\ IF provider = Nobody THEN draft' = "text" /\ UNCHANGED busy
                                  ELSE draft' = "empty" /\ busy' = TRUE

\* Another terminal begins a session, and the list grows while it is looked at, or it
\* changes one, which the query may not match any longer.
Elsewhere ==
    /\ screen = "sessions"
    /\ \/ query /\ Refilter
       \/ /\ found < MaxFound /\ found' = found + 1
          /\ UNCHANGED <<screen, previous, pick, query, shrunk>>
    /\ UNCHANGED <<draft, armed, leaving, keyStage, pending, announced, provider, busy, fate>>

Reply ==
    /\ busy /\ busy' = FALSE
    /\ UNCHANGED <<screen, previous, draft, pick, found, query, shrunk, armed, leaving, keyStage,
                   pending, announced, provider, fate>>

Next ==
    /\ fate = "runs"
    /\ \/ Reply \/ LeaderExpires \/ Elsewhere
       \/ ~busy /\ (\/ Leader \/ CtrlC \/ Global \/ ConnectList \/ ConnectKey \/ ModelInput
                    \/ SessionInput \/ PaletteInput \/ ThemeInput \/ ContextInput
                    \/ ActionInput \/ ComposerInput)

Spec == Init /\ [][Next]_vars

TypeOK ==
    /\ screen \in Screens /\ previous \in Screens \ {"palette"}
    /\ draft \in Drafts /\ pick \in 0 .. MaxFound - 1 /\ found \in 0 .. MaxFound
    /\ query \in BOOLEAN /\ shrunk \in BOOLEAN
    /\ armed \in BOOLEAN /\ leaving \in BOOLEAN /\ busy \in BOOLEAN
    /\ keyStage \in {"provider", "api-key"} /\ pending \in Providers
    /\ announced \in Providers \cup {Nobody} /\ provider \in Providers \cup {Nobody}
    /\ fate \in {"runs", "left", "threw", "misplaced"}

\* Along every path through the screens an API key is stored for the provider that was
\* announced when it was asked for, and Enter finds the option it picks where the handler
\* does not look whether there is one (sessions, themes, actions) - but in the list of
\* sessions, when a query filters it and a change of mode (Tab is live there) or another
\* terminal has since left fewer sessions that match it than the selection counts on.
KeysFindTheirTarget ==
    /\ fate # "misplaced"
    /\ fate = "threw" => screen = "sessions" /\ query /\ shrunk
=============================================================================
