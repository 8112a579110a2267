---------------------------- MODULE Configuration ----------------------------
(***************************************************************************)
(* The permission profiles (src/config.go): what is accepted as a          *)
(* configuration, how it travels from the launcher to the stage, and what  *)
(* a profile makes of a command.                                           *)
(***************************************************************************)
EXTENDS Naturals, Sequences

CONSTANTS Texts,    \* what may stand as a name in a file
          Matching  \* those that profileName matches

ASSUME NamesAssumption ==
    Matching \subseteq Texts /\ {"browse", "local", "publish"} \subseteq Matching

Modes == {"ro", "rw"}
Switches == {"on", "off"}
Settings == [workdir : Modes, github : Modes, net : Switches, bash : Switches]
Resources == {"workdir", "github", "net", "bash"}

\* A profile as it is written down, the last of repeated fields: "other" is any
\* other value and none at all; prompt: it is not blank.
Written == Modes \cup Switches \cup {"other"}
AnySettings == [workdir : Written, github : Written, net : Written, bash : Written]
Entry == [name : Texts, settings : AnySettings, prompt : BOOLEAN]

\* shape: one JSON object with the known fields and nothing after it.
Document == [shape : BOOLEAN, default : Texts, profiles : Seq(Entry)]

-----------------------------------------------------------------------------
(* Reading and writing. *)

NamesIn(doc) == {doc.profiles[i].name : i \in DOMAIN doc.profiles}

At(doc, n) == doc.profiles[CHOOSE i \in DOMAIN doc.profiles : doc.profiles[i].name = n]

\* configuration.UnmarshalJSON, where there is no duplicate.
Config(doc) ==
    [default |-> doc.default,
     profiles |-> [n \in NamesIn(doc) |-> At(doc, n).settings],
     prompts |-> [n \in NamesIn(doc) |-> At(doc, n).prompt],
     order |-> [i \in DOMAIN doc.profiles |-> doc.profiles[i].name]]

\* MarshalJSON: the profiles in their order.
Marshal(c) ==
    [shape |-> TRUE, default |-> c.default,
     profiles |-> [i \in DOMAIN c.order |->
                      [name |-> c.order[i], settings |-> c.profiles[c.order[i]],
                       prompt |-> c.prompts[c.order[i]]]]]

Unmarshals(doc) ==
    /\ doc.shape
    /\ \A i, j \in DOMAIN doc.profiles : i # j => doc.profiles[i].name # doc.profiles[j].name

\* Those are subcommands of /pi-square-profile.
ValidName(n) == n \in Matching \ {"toggle", "status", "t"}

\* parseConfiguration succeeds.
Accepted(doc) ==
    /\ Unmarshals(doc)
    /\ doc.profiles # <<>>
    /\ \A i \in DOMAIN doc.profiles :
          /\ ValidName(doc.profiles[i].name)
          /\ doc.profiles[i].settings \in Settings
          /\ doc.profiles[i].prompt
    /\ doc.default \in NamesIn(doc)

BuiltIn(n, workdir, github, bash) ==
    [name |-> n, prompt |-> TRUE,
     settings |-> [workdir |-> workdir, github |-> github, net |-> "on", bash |-> bash]]

BuiltinConfiguration ==
    Config([shape |-> TRUE, default |-> "browse",
            profiles |-> <<BuiltIn("browse", "ro", "ro", "off"),
                           BuiltIn("local", "rw", "ro", "on"),
                           BuiltIn("publish", "rw", "rw", "on")>>])

\* loadConfiguration yields c: path was given, the file is there, what it holds.
Loads(c, explicit, there, doc) ==
    \/ ~explicit /\ ~there /\ c = BuiltinConfiguration
    \/ there /\ Accepted(doc) /\ c = Config(doc)

-----------------------------------------------------------------------------
(* Profiles. *)

\* profile.commandPolicy.
CommandPolicy(p) ==
    [class |-> IF p.net = "off" THEN "offline" ELSE IF p.github = "rw" THEN "w" ELSE "ro",
     readonlyWorkdir |-> p.workdir = "ro",
     throwawayHome |-> p.github # "rw"]

\* increases, by which the extension tells an escalation.
Raises(p, q) == \E k \in Resources : p[k] # q[k] /\ q[k] \in {"rw", "on"}

-----------------------------------------------------------------------------
(* What the rest of the program relies on. *)

\* Profiles of known settings, a default among them and an order that lists
\* each once.
WellFormed(c) ==
    /\ c.profiles \in [DOMAIN c.profiles -> Settings]
    /\ c.default \in DOMAIN c.profiles
    /\ c.order \in Seq(DOMAIN c.profiles)
    /\ \A n \in DOMAIN c.profiles : \E i \in DOMAIN c.order : c.order[i] = n
    /\ \A i, j \in DOMAIN c.order : c.order[i] = c.order[j] => i = j

\* The network classes by what they can reach.
Reach(class) == CASE class = "offline" -> 0 [] class = "ro" -> 1 [] class = "w" -> 2

=============================================================================
