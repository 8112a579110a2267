------------------------ MODULE Configuration_proofs -------------------------
(* Theorems about the configuration: they hold of every file. *)
EXTENDS Configuration, TLAPS

LEMMA DistinctNames ==
    ASSUME NEW doc \in Document, Unmarshals(doc), NEW i \in DOMAIN doc.profiles
    PROVE  At(doc, doc.profiles[i].name) = doc.profiles[i]
BY DEF At, Unmarshals

LEMMA ConfigWellFormed ==
    ASSUME NEW doc \in Document, Unmarshals(doc), doc.default \in NamesIn(doc),
           \A i \in DOMAIN doc.profiles : doc.profiles[i].settings \in Settings
    PROVE  WellFormed(Config(doc))
<1> DEFINE c == Config(doc)
<1>1. /\ DOMAIN doc.profiles = 1 .. Len(doc.profiles) /\ Len(doc.profiles) \in Nat
      /\ DOMAIN c.profiles = NamesIn(doc)
      /\ DOMAIN c.order = DOMAIN doc.profiles
  BY DEF Document, Config
<1>2. c.profiles \in [DOMAIN c.profiles -> Settings]
  <2>1. ASSUME NEW n \in NamesIn(doc)
        PROVE  c.profiles[n] \in Settings
    <3>1. PICK i \in DOMAIN doc.profiles : doc.profiles[i].name = n
      BY DEF NamesIn
    <3>2. At(doc, n) = doc.profiles[i]
      BY <3>1, DistinctNames
    <3> QED BY <3>2 DEF Config
  <2> QED BY <1>1, <2>1 DEF Config
<1>3. c.order \in Seq(DOMAIN c.profiles)
  <2>1. \A i \in 1 .. Len(doc.profiles) : c.order[i] \in NamesIn(doc)
    BY <1>1 DEF Config, NamesIn
  <2>2. c.order = [i \in 1 .. Len(doc.profiles) |-> c.order[i]]
    BY <1>1 DEF Config
  <2> QED BY <1>1, <2>1, <2>2
<1>4. \A n \in NamesIn(doc) : \E i \in DOMAIN c.order : c.order[i] = n
  BY <1>1 DEF Config, NamesIn
<1>5. \A i, j \in DOMAIN c.order : c.order[i] = c.order[j] => i = j
  BY <1>1 DEF Config, Unmarshals
<1>6. c.default \in DOMAIN c.profiles
  BY <1>1 DEF Config
<1> QED BY <1>1, <1>2, <1>3, <1>4, <1>5, <1>6 DEF WellFormed

\* MarshalJSON and UnmarshalJSON are inverse where no profile comes twice.
LEMMA RoundTrip ==
    ASSUME NEW doc \in Document, Unmarshals(doc)
    PROVE  Unmarshals(Marshal(Config(doc))) /\ Config(Marshal(Config(doc))) = Config(doc)
<1> DEFINE c == Config(doc)
           back == Marshal(c)
<1>1. DOMAIN c.order = DOMAIN doc.profiles /\ DOMAIN back.profiles = DOMAIN doc.profiles
  BY DEF Config, Marshal
<1>2. \A i \in DOMAIN doc.profiles : doc.profiles[i].name \in NamesIn(doc)
  BY DEF NamesIn
<1>3. ASSUME NEW i \in DOMAIN doc.profiles
      PROVE  /\ back.profiles[i].name = doc.profiles[i].name
             /\ back.profiles[i].settings = doc.profiles[i].settings
             /\ back.profiles[i].prompt = doc.profiles[i].prompt
  BY <1>1, <1>2, DistinctNames DEF Config, Marshal
<1>4. Unmarshals(back)
  <2>1. back.shape
    BY DEF Marshal
  <2>2. \A i, j \in DOMAIN back.profiles : i # j => back.profiles[i].name # back.profiles[j].name
    BY <1>1, <1>3 DEF Unmarshals
  <2> QED BY <2>1, <2>2 DEF Unmarshals
<1>5. NamesIn(back) = NamesIn(doc)
  BY <1>1, <1>3 DEF NamesIn
<1>6. ASSUME NEW n \in NamesIn(doc)
      PROVE  At(back, n).settings = At(doc, n).settings /\ At(back, n).prompt = At(doc, n).prompt
  <2>1. PICK i \in DOMAIN doc.profiles : doc.profiles[i].name = n
    BY DEF NamesIn
  <2>2. At(doc, n) = doc.profiles[i]
    BY <2>1, DistinctNames
  <2>3. At(back, n) = back.profiles[i]
    BY <1>1, <1>3, <1>4, <2>1 DEF At, Unmarshals
  <2> QED BY <1>3, <2>2, <2>3
<1>7. back.default = doc.default
  BY DEF Config, Marshal
<1>8. [i \in DOMAIN back.profiles |-> back.profiles[i].name] = c.order
  BY <1>1, <1>3 DEF Config
<1>9. [n \in NamesIn(back) |-> At(back, n).settings] = c.profiles
  BY <1>5, <1>6 DEF Config
<1>10. [n \in NamesIn(back) |-> At(back, n).prompt] = c.prompts
  BY <1>5, <1>6 DEF Config
<1> QED BY <1>4, <1>7, <1>8, <1>9, <1>10 DEF Config

LEMMA BuiltinUnmarshals ==
    \E doc \in Document :
        /\ BuiltinConfiguration = Config(doc)
        /\ Unmarshals(doc) /\ doc.default \in NamesIn(doc)
        /\ \A i \in DOMAIN doc.profiles : doc.profiles[i].settings \in Settings
<1> DEFINE ps == <<BuiltIn("browse", "ro", "ro", "off"),
                   BuiltIn("local", "rw", "ro", "on"),
                   BuiltIn("publish", "rw", "rw", "on")>>
           doc == [shape |-> TRUE, default |-> "browse", profiles |-> ps]
<1>1. \A i \in 1 .. 3 : ps[i] \in Entry /\ ps[i].settings \in Settings
  <2>1. ps[1] \in Entry /\ ps[1].settings \in Settings
    BY NamesAssumption DEF BuiltIn, Entry, AnySettings, Written, Modes, Switches, Settings
  <2>2. ps[2] \in Entry /\ ps[2].settings \in Settings
    BY NamesAssumption DEF BuiltIn, Entry, AnySettings, Written, Modes, Switches, Settings
  <2>3. ps[3] \in Entry /\ ps[3].settings \in Settings
    BY NamesAssumption DEF BuiltIn, Entry, AnySettings, Written, Modes, Switches, Settings
  <2> QED BY <2>1, <2>2, <2>3
<1>2. ps \in Seq(Entry) /\ DOMAIN ps = 1 .. 3
  BY <1>1
<1>3. doc \in Document
  BY <1>2, NamesAssumption DEF Document
<1>4. Unmarshals(doc)
  BY <1>2 DEF Unmarshals, BuiltIn
<1>5. doc.default \in NamesIn(doc)
  BY <1>2 DEF NamesIn, BuiltIn
<1> QED BY <1>1, <1>2, <1>3, <1>4, <1>5 DEF BuiltinConfiguration

\* Whatever file is loaded, and with none: the supervisor and the extension
\* get the profiles, the default and the order they rely on
\* (their ASSUMEs, Supervisor.tla and ProfileExtension.tla).
THEOREM LoadedWellFormed ==
    ASSUME NEW c, NEW explicit, NEW there, NEW doc \in Document, Loads(c, explicit, there, doc)
    PROVE  WellFormed(c)
<1>1. CASE c = BuiltinConfiguration
  BY <1>1, BuiltinUnmarshals, ConfigWellFormed
<1>2. CASE Accepted(doc) /\ c = Config(doc)
  BY <1>2, ConfigWellFormed DEF Accepted
<1> QED BY <1>1, <1>2 DEF Loads

\* The stage reads the configuration that the launcher loaded out of the
\* secrets pipe, profile order included.
THEOREM TravelsWhole ==
    ASSUME NEW c, NEW explicit, NEW there, NEW doc \in Document, Loads(c, explicit, there, doc)
    PROVE  Unmarshals(Marshal(c)) /\ Config(Marshal(c)) = c
<1>1. CASE c = BuiltinConfiguration
  BY <1>1, BuiltinUnmarshals, RoundTrip
<1>2. CASE Accepted(doc) /\ c = Config(doc)
  BY <1>2, RoundTrip DEF Accepted
<1> QED BY <1>1, <1>2 DEF Loads

\* What the extension does not call an escalation gives no command more: the
\* network class reaches no further, a read-only project stays read-only and
\* a throwaway home is kept.
THEOREM NoRaiseNoReach ==
    ASSUME NEW p \in Settings, NEW q \in Settings, ~Raises(p, q)
    PROVE  /\ Reach(CommandPolicy(q).class) <= Reach(CommandPolicy(p).class)
           /\ CommandPolicy(p).readonlyWorkdir => CommandPolicy(q).readonlyWorkdir
           /\ CommandPolicy(p).throwawayHome => CommandPolicy(q).throwawayHome
<1>1. /\ q.net = "on" => p.net = "on"
      /\ q.github = "rw" => p.github = "rw"
      /\ q.workdir = "rw" => p.workdir = "rw"
  BY DEF Raises, Resources, Settings, Modes, Switches
<1>2. /\ p.net \in {"on", "off"} /\ q.net \in {"on", "off"}
      /\ p.workdir \in {"ro", "rw"} /\ q.workdir \in {"ro", "rw"}
  BY DEF Settings, Modes, Switches
<1>3. Reach("offline") = 0 /\ Reach("ro") = 1 /\ Reach("w") = 2
  BY DEF Reach
<1>4. Reach(CommandPolicy(q).class) <= Reach(CommandPolicy(p).class)
  <2>1. /\ CommandPolicy(p).class = IF p.net = "off" THEN "offline" ELSE IF p.github = "rw" THEN "w" ELSE "ro"
        /\ CommandPolicy(q).class = IF q.net = "off" THEN "offline" ELSE IF q.github = "rw" THEN "w" ELSE "ro"
    BY DEF CommandPolicy
  <2>2. CASE q.net = "off"
    BY <1>3, <2>1, <2>2
  <2>3. CASE q.net = "on"
    BY <1>1, <1>3, <2>1, <2>3
  <2> QED BY <1>2, <2>2, <2>3
<1>5. CommandPolicy(p).readonlyWorkdir => CommandPolicy(q).readonlyWorkdir
  BY <1>1, <1>2 DEF CommandPolicy
<1>6. CommandPolicy(p).throwawayHome => CommandPolicy(q).throwawayHome
  BY <1>1 DEF CommandPolicy
<1> QED BY <1>4, <1>5, <1>6

===============================================================================
