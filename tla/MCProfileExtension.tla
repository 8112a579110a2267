------------------------- MODULE MCProfileExtension --------------------------
(* ProfileExtension with the built-in profiles and one without a network. *)
EXTENDS ProfileExtension, TLC

P(name, w, g, n, b) ==
    [name |-> name, prompt |-> TRUE,
     settings |-> [workdir |-> w, github |-> g, net |-> n, bash |-> b]]

FourNames == {"browse", "local", "publish", "offline"}

\* A file, as the launcher reads it and the extension gets it.
File ==
    [shape |-> TRUE, default |-> "local",
     profiles |-> <<P("browse", "ro", "ro", "on", "off"), P("local", "rw", "ro", "on", "on"),
                    P("publish", "rw", "rw", "on", "on"), P("offline", "rw", "ro", "off", "on")>>]

Loaded == Config(Marshal(Config(File)))

LoadedProfiles == Loaded.profiles
LoadedOrder == Loaded.order
LoadedDefault == Loaded.default

Symmetry == Permutations(Calls) \cup Permutations(Sessions)

=============================================================================
