------------------------------- MODULE Instance -------------------------------
(***************************************************************************)
(* What one gateway process promises to who attaches to it and who stops   *)
(* it, whatever sockets, locks and handlers it is made of: every daemon of *)
(* GatewayInstance implements it.  The promises are those of README.md,    *)
(* "Gateway instances": stop refuses while sessions are attached, stop     *)
(* --force does not, and a stop that was reported has taken effect.        *)
(***************************************************************************)

CONSTANTS Conns,   \* what sessions and stops are known by
          MayBreak \* whether accepting a connection may fail

VARIABLES
    mode,     \* off; on; broken: it accepts nobody any more, though its socket
              \* is there; closing: no new requests
    sessions, \* the attachments it counts
    plain,    \* the stops it accepted and has not reported yet
    forced    \* and those with --force

vars == <<mode, sessions, plain, forced>>

Init == mode = "off" /\ sessions = {} /\ plain = {} /\ forced = {}

Open ==
    /\ mode = "off" /\ mode' = "on"
    /\ UNCHANGED <<sessions, plain, forced>>

\* A request asks one thing.  One that was taken in before the process closed
\* is still answered.
Asking(k) == mode # "off" /\ k \notin sessions \cup plain \cup forced

Enter(k) ==
    /\ Asking(k)
    /\ sessions' = sessions \cup {k}
    /\ UNCHANGED <<mode, plain, forced>>

Leave(k) ==
    /\ k \in sessions
    /\ sessions' = sessions \ {k}
    /\ UNCHANGED <<mode, plain, forced>>

AcceptPlain(k) ==
    /\ Asking(k) /\ sessions = {}
    /\ plain' = plain \cup {k}
    /\ UNCHANGED <<mode, sessions, forced>>

AcceptForced(k) ==
    /\ Asking(k)
    /\ forced' = forced \cup {k}
    /\ UNCHANGED <<mode, sessions, plain>>

\* Accepting fails.
Break ==
    /\ MayBreak /\ mode = "on"
    /\ mode' = "broken"
    /\ UNCHANGED <<sessions, plain, forced>>

\* It closes because it was told to, or because it is broken.
Close ==
    /\ mode = "broken" \/ (mode = "on" /\ plain \cup forced # {})
    /\ mode' = "closing"
    /\ UNCHANGED <<sessions, plain, forced>>

Report(k) ==
    /\ mode = "closing" /\ k \in plain \cup forced
    /\ plain' = plain \ {k} /\ forced' = forced \ {k}
    /\ UNCHANGED <<mode, sessions>>

\* It exits or dies: every connection to it ends.
Gone ==
    /\ mode # "off" /\ mode' = "off"
    /\ sessions' = {} /\ plain' = {} /\ forced' = {}

Next ==
    \/ Open \/ Break \/ Close \/ Gone
    \/ \E k \in Conns :
        Enter(k) \/ Leave(k) \/ AcceptPlain(k) \/ AcceptForced(k) \/ Report(k)

Spec == Init /\ [][Next]_vars

===============================================================================
