-------------------------- MODULE ProfileExtension ---------------------------
(***************************************************************************)
(* The permission profile of a session (src/permission-profile.ts): the    *)
(* current profile, what switches it, what is restored of it when a        *)
(* session starts, and the tool calls whose handlers wait for a dialog     *)
(* while the user goes on switching profiles and sessions.                 *)
(*                                                                         *)
(* Handlers run to their next await without interruption: each action is   *)
(* one such stretch.                                                       *)
(***************************************************************************)
EXTENDS Configuration

CONSTANTS Profiles,  \* name -> [workdir, github, net, bash]
          Order,     \* the names in the configuration's order
          Default,   \* config.defaultProfile
          Initial,   \* PI_SQUARE_INITIAL_PROFILE, or None
          Sessions,  \* stored conversations
          Calls,     \* slots of tool calls and user commands
          None       \* no profile, no session

Names == DOMAIN Profiles

\* An entry an earlier configuration or another tool wrote.
Foreign == "foreign"

ASSUME ConstantsAssumption ==
    /\ \A n \in Names : Profiles[n] \in Settings
    /\ Order \in Seq(Names)
    /\ \A n \in Names : \E i \in 1..Len(Order) : Order[i] = n
    /\ Default \in Names
    /\ Initial \in Names \cup {None}
    /\ None \notin Names \cup Sessions
    /\ Foreign \notin Names \cup {None}

VARIABLES
    current,   \* currentProfile
    launch,    \* applyInitial: the launch profile is still to be applied
    session,   \* the session that is open; None before the first session_start
    saved,     \* the profile in each session's last profile-state entry
    shown,     \* the profile in the status line
    bashTool,  \* bash is among the active tools
    call,      \* where each tool call or command is
    before,    \* the profile when its dialog was opened
    ran        \* the profile its command was routed with

vars == <<current, launch, session, saved, shown, bashTool, call, before, ran>>

CallStates == {"free", "askWorkdir", "askGithub", "granted", "refused", "command", "userCommand"}

TypeOK ==
    /\ current \in Names
    /\ launch \in BOOLEAN
    /\ session \in Sessions \cup {None}
    /\ saved \in [Sessions -> Names \cup {None, Foreign}]
    /\ shown \in Names \cup {None}
    /\ bashTool \in BOOLEAN
    /\ call \in [Calls -> CallStates]
    /\ before \in [Calls -> Names \cup {None}]
    /\ ran \in [Calls -> Names \cup {None}]

\* Going from one profile to the other opens some resource.
Increases(from, to) == Raises(Profiles[from], Profiles[to])

\* What a suggestion for write access to a resource is after.
Grants(n, key) ==
    /\ Profiles[n][key] = "rw"
    /\ key = "github" => Profiles[n].net = "on" /\ Profiles[n].bash = "on"

Choices(key) == {n \in Names : Grants(n, key)}

\* Sessions hold what earlier runs, with other configurations, left in them.
Init ==
    /\ current = Default
    /\ launch = (Initial # None)
    /\ session = None
    /\ saved \in [Sessions -> Names \cup {None, Foreign}]
    /\ shown = None
    /\ bashTool = TRUE
    /\ call = [c \in Calls |-> "free"]
    /\ before = [c \in Calls |-> None]
    /\ ran = [c \in Calls |-> None]

-----------------------------------------------------------------------------
(* Switching. *)

BashProfiles == {n \in Names : Profiles[n].bash = "on"}

\* update(): the tool list and the status line follow the profile.
Update(n) ==
    /\ shown' = n
    /\ bashTool' = (n \in BashProfiles)

Switch(n) ==
    /\ current' = n
    /\ saved' = [saved EXCEPT ![session] = n]
    /\ Update(n)

\* /pi-square-profile NAME.
Choose(n) ==
    /\ session # None
    /\ Switch(n)
    /\ UNCHANGED <<launch, session, call, before, ran>>

\* /pi-square-profile toggle, Alt+Super+G.
Successor(n) ==
    LET i == CHOOSE i \in 1..Len(Order) : Order[i] = n
    IN Order[(i % Len(Order)) + 1]

Toggle ==
    /\ session # None
    /\ Switch(Successor(current))
    /\ UNCHANGED <<launch, session, call, before, ran>>

\* The profiles that open something the configured default does not.
Wider == {n \in Names : Increases(Default, n)}

\* Defects: the stored profile is compared with the one in force; it is not
\* looked up.
RestoredFromCurrent(s) ==
    IF saved[s] \in Names /\ ~Increases(current, saved[s]) THEN saved[s] ELSE Default

RestoredUnknown(s) == IF saved[s] \in Wider \cup {None} THEN Default ELSE saved[s]

\* session_start reads the entries in order, the last one decides, and it is
\* followed if it is a configured profile and no wider than the default.
Restored(s) == IF saved[s] \in Names \ Wider THEN saved[s] ELSE Default

\* Defect: the launch profile is not stored.
StartWithoutSaving(s) ==
    LET n == IF launch THEN Initial ELSE Restored(s)
    IN /\ session' = s
       /\ current' = n
       /\ Update(n)
       /\ launch' = FALSE
       /\ UNCHANGED <<saved, call, before, ran>>

\* session_start: pi starts, or the user starts, resumes or reloads a session,
\* pending dialogs or not.  The launch profile is applied once, and stored.
SessionStart(s) ==
    LET n == IF launch THEN Initial ELSE Restored(s)
    IN /\ session' = s
       /\ current' = n
       /\ saved' = IF launch THEN [saved EXCEPT ![s] = n] ELSE saved
       /\ Update(n)
       /\ launch' = FALSE
       /\ UNCHANGED <<call, before, ran>>

-----------------------------------------------------------------------------
(* Tool calls. *)

Moves(c, s) == call' = [call EXCEPT ![c] = s]

\* suggest(key) up to its await.  Without a user interface or without a
\* profile to offer it refuses at once.
Suggest(c, key, asking) ==
    \/ /\ Moves(c, "refused")
       /\ UNCHANGED before
    \/ /\ Choices(key) # {}
       /\ Moves(c, asking)
       /\ before' = [before EXCEPT ![c] = current]

\* tool_call of bash: the command is rewritten to the stub with the profile
\* of this moment.
BashCall(c) ==
    /\ session # None
    /\ call[c] = "free"
    /\ IF Profiles[current].bash = "off"
       THEN Moves(c, "refused") /\ UNCHANGED ran
       ELSE Moves(c, "command") /\ ran' = [ran EXCEPT ![c] = current]
    /\ UNCHANGED <<current, launch, session, saved, shown, bashTool, before>>

\* user_bash: the bash resource does not bind the user.
UserBash(c) ==
    /\ session # None
    /\ call[c] = "free"
    /\ Moves(c, "userCommand")
    /\ ran' = [ran EXCEPT ![c] = current]
    /\ UNCHANGED <<current, launch, session, saved, shown, bashTool, before>>

\* tool_call of edit or write on a file of the workdir.
EditCall(c) ==
    /\ session # None
    /\ call[c] = "free"
    /\ IF Profiles[current].workdir = "ro"
       THEN Suggest(c, "workdir", "askWorkdir")
       ELSE Moves(c, "granted") /\ UNCHANGED before
    /\ UNCHANGED <<current, launch, session, saved, shown, bashTool, ran>>

\* tool_result of a command whose output shows a write denied to its profile.
DeniedResult(c) ==
    /\ call[c] = "command"
    /\ Profiles[current].github # "rw"
    /\ Suggest(c, "github", "askGithub")
    /\ ran' = [ran EXCEPT ![c] = None]
    /\ UNCHANGED <<current, launch, session, saved, shown, bashTool>>

Key(c) == IF call[c] = "askWorkdir" THEN "workdir" ELSE "github"

\* Defects: the dialog does not look whether the profile has changed since it
\* opened; it takes any change for consent.
ResolveStale(c, choice) ==
    IF choice \in Choices(Key(c))
    THEN Switch(choice) /\ Moves(c, "granted")
    ELSE Moves(c, "refused") /\ UNCHANGED <<current, saved, shown, bashTool>>

ResolveAnyChange(c, choice) ==
    IF current # before[c]
    THEN Moves(c, "granted") /\ UNCHANGED <<current, saved, shown, bashTool>>
    ELSE IF choice \in Choices(Key(c))
    THEN Switch(choice) /\ Moves(c, "granted")
    ELSE Moves(c, "refused") /\ UNCHANGED <<current, saved, shown, bashTool>>

\* suggest after its await: if the profile was switched meanwhile the answer
\* counts for nothing and the new profile decides.
Resolve(c, choice) ==
    IF current # before[c]
    THEN /\ Moves(c, IF Grants(current, Key(c)) THEN "granted" ELSE "refused")
         /\ UNCHANGED <<current, saved, shown, bashTool>>
    ELSE IF choice \in Choices(Key(c))
    THEN Switch(choice) /\ Moves(c, "granted")
    ELSE Moves(c, "refused") /\ UNCHANGED <<current, saved, shown, bashTool>>

\* The user picks one of the profiles offered, keeps the present one or
\* closes the dialog.
Answer(c, choice) ==
    /\ call[c] \in {"askWorkdir", "askGithub"}
    /\ choice \in Choices(Key(c)) \cup {None}
    /\ Resolve(c, choice)
    /\ before' = [before EXCEPT ![c] = None]
    /\ UNCHANGED <<launch, session, ran>>

\* The tool runs, or its block is reported; the command ends.
Finish(c) ==
    /\ call[c] \in {"granted", "refused", "command", "userCommand"}
    /\ Moves(c, "free")
    /\ ran' = [ran EXCEPT ![c] = None]
    /\ UNCHANGED <<current, launch, session, saved, shown, bashTool, before>>

-----------------------------------------------------------------------------

Next ==
    \/ \E s \in Sessions : SessionStart(s)
    \/ \E n \in Names : Choose(n)
    \/ Toggle
    \/ \E c \in Calls : BashCall(c) \/ UserBash(c) \/ EditCall(c) \/ DeniedResult(c) \/ Finish(c)
    \/ \E c \in Calls, choice \in Names \cup {None} : Answer(c, choice)

Spec == Init /\ [][Next]_vars

-----------------------------------------------------------------------------
(* Properties. *)

\* What the user sees and what the model can call follow the profile in force
\* through switches, dialogs and session starts.
DisplayFollows ==
    session # None => shown = current /\ (bashTool <=> Profiles[current].bash = "on")

\* README.md:27: starting, resuming or reloading a session never gives more
\* than the configured default, whatever its entries say and whatever the
\* profile was; only the launch profile may, once.
RestoreNeverEscalates ==
    [][\A s \in Sessions :
          SessionStart(s) => launch \/ ~Increases(Default, current')]_vars

\* permission-profile.ts:123: a profile that opens nothing over the default
\* is kept by a reload, however it came about.
ReloadKeepsNarrower ==
    session # None /\ ~Increases(Default, current) => Restored(session) = current

\* A call that a dialog let pass has, at that moment, a profile that grants
\* what it asked for, though the profile may have been switched under the
\* dialog, several times and by another dialog.
GrantIsReal ==
    [][\A c \in Calls :
          call[c] \in {"askWorkdir", "askGithub"} /\ call'[c] = "granted" =>
              Grants(current', Key(c))]_vars

\* The answer to a question that was put under another profile switches
\* nothing.
StaleAnswerIgnored ==
    [][\A c \in Calls :
          call[c] \in {"askWorkdir", "askGithub"} /\ call'[c] # call[c] /\ current # before[c] =>
              current' = current]_vars

=============================================================================
