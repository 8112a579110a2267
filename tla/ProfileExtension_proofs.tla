----------------------- MODULE ProfileExtension_proofs -----------------------
(***************************************************************************)
(* Proofs about ProfileExtension, for every table of profiles, any number  *)
(* of sessions and any number of concurrent tool calls.                    *)
(***************************************************************************)
EXTENDS ProfileExtension, TLAPS

\* The cycle of /pi-square-profile toggle stays among the configured names.
LEMMA SuccessorType ==
    ASSUME NEW n \in Names
    PROVE  Successor(n) \in Names
<1> DEFINE L == Len(Order)
<1> DEFINE i == CHOOSE j \in 1..L : Order[j] = n
<1>1. L \in Nat
    BY ConstantsAssumption
<1>2. i \in 1..L
    BY ConstantsAssumption
<1>3. (i % L) + 1 \in 1..L
    <2> HIDE DEF i, L
    <2> QED  BY <1>1, <1>2
<1> HIDE DEF i
<1>4. Order[(i % L) + 1] \in Names
    BY <1>3, ConstantsAssumption
<1> QED  BY <1>4 DEF Successor, i

\* What session_start restores is a configured profile...
LEMMA RestoredType ==
    ASSUME NEW s \in Sessions
    PROVE  Restored(s) \in Names
BY ConstantsAssumption DEF Restored

\* ... that opens nothing over the configured default.
LEMMA RestoredNotWider ==
    ASSUME NEW s \in Sessions
    PROVE  ~Increases(Default, Restored(s))
<1>1. ~Increases(Default, Default)
    BY DEF Increases, Raises
<1> QED  BY <1>1 DEF Restored, Wider

-----------------------------------------------------------------------------
(* The inductive invariant.  The launch profile exists while it is still to *)
(* be applied; calls exist in a session only; and what the open session     *)
(* stores is the profile in force, or leads back to it when restored.       *)

LaunchKnown == launch => Initial # None

CallsInSession == \A c \in Calls : call[c] # "free" => session # None

StoredOrRestored ==
    session # None => saved[session] = current \/ Restored(session) = current

Inv ==
    /\ TypeOK
    /\ LaunchKnown
    /\ CallsInSession
    /\ StoredOrRestored
    /\ DisplayFollows

\* update() makes the status line and the tool list follow.
LEMMA UpdateShows ==
    ASSUME NEW n \in Names, Update(n)
    PROVE  /\ shown' = n
           /\ bashTool' \in BOOLEAN
           /\ bashTool' <=> Profiles[n].bash = "on"
<1>1. bashTool' = (n \in BashProfiles)
    BY DEF Update
<1>2. bashTool' \in BOOLEAN
    <2>1. CASE n \in BashProfiles
        BY <1>1, <2>1
    <2>2. CASE n \notin BashProfiles
        BY <1>1, <2>2
    <2> QED  BY <2>1, <2>2
<1>3. bashTool' <=> n \in BashProfiles
    BY <1>1, Zenon
<1> QED  BY <1>2, <1>3 DEF Update, BashProfiles

\* A switch to a configured profile keeps the invariant.
LEMMA SwitchInv ==
    ASSUME Inv, session # None, NEW n \in Names, Switch(n), UNCHANGED <<launch, session>>
    PROVE  /\ current' \in Names
           /\ saved' \in [Sessions -> Names \cup {None, Foreign}]
           /\ shown' \in Names \cup {None}
           /\ bashTool' \in BOOLEAN
           /\ LaunchKnown'
           /\ StoredOrRestored'
           /\ DisplayFollows'
<1>1. session \in Sessions
    BY DEF Inv, TypeOK
<1>2. /\ shown' = n
      /\ bashTool' \in BOOLEAN
      /\ bashTool' <=> Profiles[n].bash = "on"
    BY UpdateShows DEF Switch
<1>3. current' = n /\ saved' = [saved EXCEPT ![session] = n]
    BY DEF Switch
<1>4. DisplayFollows'
    BY <1>2, <1>3 DEF DisplayFollows
<1>5. saved'[session'] = current'
    BY <1>1, <1>3 DEF Inv, TypeOK
<1> QED  BY <1>1, <1>2, <1>3, <1>4, <1>5 DEF Inv, TypeOK, LaunchKnown, StoredOrRestored

\* Inv holds before any session starts.
LEMMA InitInv == Init => Inv
<1> SUFFICES ASSUME Init PROVE Inv
    OBVIOUS
<1>1. launch = (Initial # None)
    BY DEF Init
<1>2. launch \in BOOLEAN /\ LaunchKnown
    BY <1>1, Zenon DEF LaunchKnown
<1>3. TypeOK
    BY <1>2, ConstantsAssumption DEF Init, TypeOK, CallStates
<1>4. CallsInSession /\ StoredOrRestored /\ DisplayFollows
    BY DEF Init, CallsInSession, StoredOrRestored, DisplayFollows
<1> QED  BY <1>2, <1>3, <1>4 DEF Inv

\* Every step of the extension keeps Inv.
LEMMA NextInv == Inv /\ [Next]_vars => Inv'
<1> SUFFICES ASSUME Inv, [Next]_vars PROVE Inv'
    OBVIOUS
<1> USE ConstantsAssumption
<1>1. ASSUME NEW s \in Sessions, SessionStart(s) PROVE Inv'
    <2> DEFINE n == IF launch THEN Initial ELSE Restored(s)
    <2>1. n \in Names
        BY RestoredType DEF Inv, LaunchKnown
    <2>2. StoredOrRestored'
        BY <1>1 DEF SessionStart, StoredOrRestored, Restored, Inv, TypeOK
    <2>3. /\ session' = s /\ current' = n /\ Update(n) /\ launch' = FALSE
          /\ saved' = saved \/ saved' = [saved EXCEPT ![s] = n]
          /\ UNCHANGED <<call, before, ran>>
        BY <1>1 DEF SessionStart
    <2> HIDE DEF n
    <2>4. /\ shown' = n
          /\ bashTool' \in BOOLEAN
          /\ bashTool' <=> Profiles[n].bash = "on"
        BY <2>1, <2>3, UpdateShows
    <2>5. TypeOK'
        BY <2>1, <2>3, <2>4 DEF Inv, TypeOK
    <2>6. DisplayFollows'
        BY <2>3, <2>4 DEF DisplayFollows
    <2> QED  BY <2>2, <2>3, <2>5, <2>6 DEF Inv, LaunchKnown, CallsInSession
<1>2. ASSUME NEW n \in Names, Choose(n) PROVE Inv'
    BY <1>2, SwitchInv DEF Choose, Inv, TypeOK, CallsInSession
<1>3. CASE Toggle
    <2>1. Successor(current) \in Names
        BY SuccessorType DEF Inv, TypeOK
    <2> QED  BY <1>3, <2>1, SwitchInv DEF Toggle, Inv, TypeOK, CallsInSession
<1>4. ASSUME NEW c \in Calls,
             BashCall(c) \/ UserBash(c) \/ EditCall(c) \/ DeniedResult(c) \/ Finish(c)
      PROVE Inv'
    <2>1. UNCHANGED <<current, launch, session, saved, shown, bashTool>>
        BY <1>4 DEF BashCall, UserBash, EditCall, DeniedResult, Finish
    <2>2. /\ call' \in [Calls -> CallStates]
          /\ before' \in [Calls -> Names \cup {None}]
          /\ ran' \in [Calls -> Names \cup {None}]
        <3>1. \E s \in CallStates : call' = [call EXCEPT ![c] = s]
            BY <1>4 DEF BashCall, UserBash, EditCall, DeniedResult, Finish, Suggest, Moves, CallStates
        <3>2. \/ before' = before
              \/ before' = [before EXCEPT ![c] = current]
            BY <1>4 DEF BashCall, UserBash, EditCall, DeniedResult, Finish, Suggest
        <3>3. \/ ran' = ran
              \/ ran' = [ran EXCEPT ![c] = current]
              \/ ran' = [ran EXCEPT ![c] = None]
            BY <1>4 DEF BashCall, UserBash, EditCall, DeniedResult, Finish
        <3>4. call \in [Calls -> CallStates] /\ current \in Names
              /\ before \in [Calls -> Names \cup {None}]
              /\ ran \in [Calls -> Names \cup {None}]
            BY DEF Inv, TypeOK
        <3> HIDE ConstantsAssumption
        <3>5. call' \in [Calls -> CallStates]
            BY <3>1, <3>4
        <3>6. before' \in [Calls -> Names \cup {None}]
            BY <3>2, <3>4
        <3>7. ran' \in [Calls -> Names \cup {None}]
            BY <3>3, <3>4
        <3> QED  BY <3>5, <3>6, <3>7
    <2>3. CallsInSession'
        BY <1>4, <2>1 DEF BashCall, UserBash, EditCall, DeniedResult, Finish, Suggest, Moves,
                          Inv, TypeOK, CallsInSession
    <2>4. StoredOrRestored'
        BY <2>1 DEF Inv, StoredOrRestored, Restored
    <2> QED  BY <2>1, <2>2, <2>3, <2>4 DEF Inv, TypeOK, LaunchKnown, DisplayFollows
<1>5. ASSUME NEW c \in Calls, NEW choice \in Names \cup {None}, Answer(c, choice) PROVE Inv'
    <2>1. /\ call' \in [Calls -> CallStates]
          /\ before' \in [Calls -> Names \cup {None}]
          /\ ran' \in [Calls -> Names \cup {None}]
          /\ UNCHANGED <<launch, session>>
        BY <1>5 DEF Answer, Resolve, Moves, Inv, TypeOK, CallStates
    <2>2. session # None
        BY <1>5 DEF Answer, Inv, CallsInSession
    <2>3. CallsInSession'
        BY <2>1, <2>2 DEF CallsInSession
    <2>4. CASE UNCHANGED <<current, saved, shown, bashTool>>
        BY <2>1, <2>3, <2>4 DEF Inv, TypeOK, LaunchKnown, StoredOrRestored, Restored, DisplayFollows
    <2>5. CASE choice \in Choices(Key(c)) /\ Switch(choice)
        <3>1. choice \in Names
            BY <2>5 DEF Choices
        <3> QED  BY <2>1, <2>2, <2>3, <2>5, <3>1, SwitchInv DEF Inv, TypeOK
    <2> QED  BY <1>5, <2>4, <2>5 DEF Answer, Resolve
<1>6. CASE UNCHANGED vars
    BY <1>6 DEF vars, Inv, TypeOK, LaunchKnown, CallsInSession, StoredOrRestored, Restored,
                DisplayFollows
<1> QED  BY <1>1, <1>2, <1>3, <1>4, <1>5, <1>6 DEF Next

\* Inv holds in every reachable state.
THEOREM Invariance == Spec => []Inv
BY InitInv, NextInv, PTL DEF Spec

-----------------------------------------------------------------------------
(* The properties of ProfileExtension that the runs check. *)

\* Type correctness.
THEOREM Typing == Spec => []TypeOK
<1>1. Inv => TypeOK
    BY DEF Inv
<1> QED  BY <1>1, Invariance, PTL

\* The status line and the model's tool list follow the profile in force
\* (update() in permission-profile.ts), for every history of switches,
\* dialogs and session starts.
THEOREM Display == Spec => []DisplayFollows
<1>1. Inv => DisplayFollows
    BY DEF Inv
<1> QED  BY <1>1, Invariance, PTL

\* A profile that opens nothing over the default survives a reload, whatever
\* the table of profiles.
THEOREM ReloadKeeps == Spec => []ReloadKeepsNarrower
<1>1. Inv => ReloadKeepsNarrower
    BY DEF Inv, TypeOK, StoredOrRestored, ReloadKeepsNarrower, Restored, Wider
<1> QED  BY <1>1, Invariance, PTL

\* Only the launch profile can open more than the default at a session start.
THEOREM RestoreSafe == Spec => RestoreNeverEscalates
<1>1. ASSUME NEW s \in Sessions, SessionStart(s), ~launch
      PROVE  ~Increases(Default, current')
    <2>1. current' = Restored(s)
        BY <1>1 DEF SessionStart
    <2> QED  BY <2>1, RestoredNotWider DEF Increases
<1>2. [\A s \in Sessions : SessionStart(s) => launch \/ ~Increases(Default, current')]_vars
    BY <1>1
<1> QED  BY <1>2, PTL DEF RestoreNeverEscalates

\* A step of another call leaves a call that asks where it is.
LEMMA OnlyAnswerMoves ==
    ASSUME Inv, [Next]_vars, NEW c \in Calls, call[c] \in {"askWorkdir", "askGithub"},
           call'[c] # call[c]
    PROVE  \E choice \in Names \cup {None} : Answer(c, choice)
<1>1. ASSUME NEW d \in Calls, d # c, call' = [call EXCEPT ![d] = call'[d]] PROVE FALSE
    BY <1>1 DEF Inv, TypeOK
<1>2. ASSUME NEW d \in Calls, NEW choice \in Names \cup {None}, Answer(d, choice) PROVE d = c
    BY <1>1, <1>2 DEF Answer, Resolve, Moves, Inv, TypeOK
<1>3. ASSUME NEW d \in Calls,
             BashCall(d) \/ UserBash(d) \/ EditCall(d) \/ DeniedResult(d) \/ Finish(d)
      PROVE  FALSE
    BY <1>3 DEF BashCall, UserBash, EditCall, DeniedResult, Finish, Suggest, Moves, Inv, TypeOK
<1>4. call' # call
    OBVIOUS
<1> QED  BY <1>2, <1>3, <1>4 DEF Next, SessionStart, Choose, Toggle, vars

\* A dialog lets a call pass only under a profile that grants what was asked.
THEOREM GrantReal == Spec => GrantIsReal
<1>1. ASSUME Inv, [Next]_vars, NEW c \in Calls, call[c] \in {"askWorkdir", "askGithub"},
             call'[c] = "granted"
      PROVE  Grants(current', Key(c))
    <2>1. PICK choice \in Names \cup {None} : Answer(c, choice)
        BY <1>1, OnlyAnswerMoves
    <2>2. CASE choice \in Choices(Key(c)) /\ current' = choice
        BY <2>2 DEF Choices
    <2>3. CASE Grants(current, Key(c)) /\ current' = current
        BY <2>3
    <2> QED  BY <1>1, <2>1, <2>2, <2>3 DEF Answer, Resolve, Moves, Switch, Inv, TypeOK
<1>2. Inv /\ [Next]_vars =>
        [\A c \in Calls :
           call[c] \in {"askWorkdir", "askGithub"} /\ call'[c] = "granted" =>
               Grants(current', Key(c))]_vars
    BY <1>1
<1> QED  BY <1>2, Invariance, PTL DEF Spec, GrantIsReal

\* An answer to a question put under another profile switches nothing.
THEOREM StaleAnswer == Spec => StaleAnswerIgnored
<1>1. ASSUME Inv, [Next]_vars, NEW c \in Calls, call[c] \in {"askWorkdir", "askGithub"},
             call'[c] # call[c], current # before[c]
      PROVE  current' = current
    BY <1>1, OnlyAnswerMoves DEF Answer, Resolve
<1>2. Inv /\ [Next]_vars =>
        [\A c \in Calls :
           call[c] \in {"askWorkdir", "askGithub"} /\ call'[c] # call[c] /\ current # before[c] =>
               current' = current]_vars
    BY <1>1
<1> QED  BY <1>2, Invariance, PTL DEF Spec, StaleAnswerIgnored
=============================================================================
