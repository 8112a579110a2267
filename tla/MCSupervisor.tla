---------------------------- MODULE MCSupervisor -----------------------------
(* Supervisor with one profile of each kind. *)
EXTENDS Supervisor, TLC

FourNames == {"browse", "local", "publish", "offline"}

\* A reading and a writing profile of the built-in configuration.
TwoProfiles == [n \in {"browse", "publish"} |-> BuiltinConfiguration.profiles[n]]

\* ... and one without a network.
ThreeProfiles ==
    TwoProfiles @@
    "offline" :> [workdir |-> "rw", github |-> "ro", net |-> "off", bash |-> "on"]

Ask(p, t, f) == [profile |-> p, token |-> t, fds |-> 3, frame |-> f]

\* Reading, writing with and without the write token, and a broken frame.
Whole == {Ask("browse", TRUE, "whole"), Ask("publish", TRUE, "whole"),
          Ask("publish", FALSE, "whole"), Ask("browse", TRUE, "bad")}

\* A request too long for one read.
Long == {Ask("browse", TRUE, "parts")}

Symmetry == Permutations(Reqs)

=============================================================================
