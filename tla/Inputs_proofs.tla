---------------------------- MODULE Inputs_proofs ----------------------------
(***************************************************************************)
(* Proofs about Inputs: each sequential part of the exporter does with any *)
(* input what is promised of it, whatever names, lists and command lines   *)
(* there are.                                                              *)
(***************************************************************************)
EXTENDS Inputs, ListMetrics_proofs, WellFoundedInduction

-----------------------------------------------------------------------------
(* Configuration *)

\* The value of a setting that no flag gives.
Base(s) == IF env[s] \notin {"", "bad"} THEN env[s] ELSE Config!Defaults[s]

\* The flags parsed so far.
Parsed(s) == {i \in Config!Given(s) : i < arg}

\* The configuration is what the environment and the flags parsed so far make it.
SoFar(s) ==
    \/ Parsed(s) = {} /\ cfg[s] = Base(s)
    \/ \E i \in Parsed(s) : (\A j \in Parsed(s) : j <= i) /\ cfg[s] = args[i][2]

\* All flags that count have been parsed, and parse.
AllParsed == arg = Len(args) + 1 /\ ~Config!Unparsable

ConfigInv ==
    /\ Config!TypeOK
    /\ place = "env" => cfg = Config!Defaults /\ arg = 1
    /\ place # "env" => \A s \in Config!Settings : SoFar(s)
    /\ place # "env" => \A s \in {"timeout", "pjsip"} : \A i \in Parsed(s) : args[i][2] # "bad"
    /\ place \in {"env", "flags"} /\ arg <= Len(args) => \A i \in 1..(arg - 1) : args[i] # Config!Word
    /\ place \in {"validate", "routes", "serving", "crashed"} => AllParsed
    /\ place \in {"routes", "serving", "crashed"} => Config!Valid(cfg)
    /\ place = "serving" => Config!Registers(cfg.path)
    /\ place = "crashed" => ~Config!Registers(cfg.path)
    /\ place = "refused" => Config!Unparsable \/ (AllParsed /\ ~Config!Valid(cfg))

\* An argument is a flag with a value of its setting, or a word.
LEMMA ArgumentType ==
    ASSUME NEW a \in Config!Arguments, a # Config!Word
    PROVE  /\ a = <<a[1], a[2]>>
           /\ a[1] \in Config!Settings /\ a[2] \in Config!FlagValues[a[1]]
<1>1. PICK s \in Config!Settings : a \in {s} \X Config!FlagValues[s]
  BY Zenon DEF Config!Arguments
<1> HIDE DEF Config!Arguments
<1>2. a = <<a[1], a[2]>> /\ a[1] = s /\ a[2] \in Config!FlagValues[s]
  <2> DEFINE values == Config!FlagValues[s]
  <2>1. a \in {s} \X values
    BY <1>1
  <2> HIDE DEF values
  <2>2. a = <<a[1], a[2]>> /\ a[1] = s /\ a[2] \in values
    BY <2>1
  <2> QED
    BY <2>2 DEF values
<1> QED
  BY <1>2

\* What it says of a setting.
LEMMA WordIsNoFlag == \A s \in Config!Settings : Config!Word[1] # s
  BY DEF Config!Word, Config!Settings

\* Values of a setting are values of the configuration.
LEMMA ValuesType ==
    ASSUME NEW s \in Config!Settings
    PROVE  Config!EnvValues[s] \cup Config!FlagValues[s] \cup {Config!Defaults[s]}
             \subseteq Config!Texts
  BY Zenon DEF Config!Texts


\* Flags are given in the positions of the command line.
LEMMA GivenRange ==
    ASSUME Config!TypeOK, NEW s \in Config!Settings, NEW i \in Config!Given(s)
    PROVE  /\ i \in 1..Len(args) /\ i \in Nat
           /\ args[i] \in Config!Arguments /\ args[i] # Config!Word /\ args[i][1] = s
           /\ \A j \in 1..i : args[j] # Config!Word
<1>1. i \in DOMAIN args /\ DOMAIN args = 1..Len(args) /\ args[i][1] = s
  BY DEF Config!Given, Config!TypeOK
<1>2. args[i] \in Config!Arguments
  BY <1>1, ElementOfSeq DEF Config!TypeOK
<1>3. \A j \in 1..i : args[j] # Config!Word
  BY DEF Config!Given
<1> QED
  BY <1>1, <1>2, <1>3

\* The environment is taken over the defaults.
LEMMA ApplyEnvKeeps == ConfigInv /\ Config!ApplyEnv => ConfigInv'
<1> SUFFICES ASSUME ConfigInv, Config!ApplyEnv PROVE ConfigInv'
    OBVIOUS
<1>1. arg = 1 /\ cfg = Config!Defaults /\ Config!TypeOK
  BY DEF Config!ApplyEnv, ConfigInv
<1>2. \A s \in Config!Settings : cfg'[s] = Base(s)
  BY <1>1 DEF Config!ApplyEnv, Config!FlagDefault, Config!Applied, Config!EnvCounts, Config!Parses, Config!TypeOK, Config!Envs, Config!EnvValues,
     Config!Settings, Base
<1>3. \A s \in Config!Settings : Parsed(s)' = {}
  BY <1>1, GivenRange DEF Config!ApplyEnv, Parsed, Config!Given
<1>4. Config!TypeOK'
  <2>1. \A s \in Config!Settings : Base(s) \in Config!EnvValues[s] \cup {Config!Defaults[s]}
    <3>1. \A s \in Config!Settings : env[s] \in Config!EnvValues[s]
      BY <1>1 DEF Config!TypeOK, Config!Envs, Config!EnvValues, Config!Settings
    <3> QED
      BY <3>1 DEF Base
  <2>2. \A s \in Config!Settings : cfg'[s] \in Config!Texts
    BY <1>2, <2>1, ValuesType
  <2>3. cfg' \in [Config!Settings -> Config!Texts]
    <3>1. cfg' = [s \in Config!Settings |-> cfg'[s]]
      BY DEF Config!ApplyEnv
    <3> QED
      BY <2>2, <3>1
  <2> QED
    BY <1>1, <2>3 DEF Config!ApplyEnv, Config!TypeOK
<1>5. \A s \in Config!Settings : SoFar(s)'
  BY <1>2, <1>3 DEF SoFar, Base, Config!ApplyEnv
<1> QED
  BY <1>1, <1>3, <1>4, <1>5 DEF Config!ApplyEnv, ConfigInv, Config!Settings

\* A flag that parses replaces what the setting had.
LEMMA TakeFlagKeeps == ConfigInv /\ Config!TakeFlag => ConfigInv'
<1> SUFFICES ASSUME ConfigInv, Config!TakeFlag PROVE ConfigInv'
    OBVIOUS
<1> DEFINE flag == args[arg][1]
           value == args[arg][2]
<1>1. /\ Config!TypeOK /\ args \in Seq(Config!Arguments) /\ arg \in Nat \ {0} /\ arg \in 1..Len(args)
      /\ cfg \in [Config!Settings -> Config!Texts] /\ Len(args) \in Nat
  BY DEF Config!TakeFlag, ConfigInv, Config!TypeOK
<1>2. args[arg] \in Config!Arguments /\ args[arg] # Config!Word
  BY <1>1, ElementOfSeq DEF Config!TakeFlag
<1>3. flag \in Config!Settings /\ value \in Config!FlagValues[flag]
  BY <1>2, ArgumentType
<1>4. arg \in Config!Given(flag) /\ \A s \in Config!Settings : arg \in Config!Given(s) => s = flag
  <2>1. \A i \in 1..arg : args[i] # Config!Word
    BY <1>1, <1>2 DEF Config!TakeFlag, ConfigInv
  <2> QED
    BY <1>1, <2>1 DEF Config!Given
<1> HIDE DEF flag, value
<1>5. CASE Config!Parses(flag, value)
  <2>1. /\ cfg' = [cfg EXCEPT ![flag] = value] /\ arg' = arg + 1
        /\ UNCHANGED <<env, args, place>> /\ place = "flags"
    BY <1>5 DEF Config!TakeFlag, flag, value
  <2>2. \A s \in Config!Settings : Parsed(s)' = IF s = flag THEN Parsed(s) \cup {arg} ELSE Parsed(s)
    <3>1. \A s \in Config!Settings : Config!Given(s)' = Config!Given(s)
      BY <2>1 DEF Config!Given
    <3>2. \A s \in Config!Settings : \A i \in Config!Given(s) : i \in Nat
      BY <1>1, GivenRange
    <3>3. \A s \in Config!Settings : Parsed(s)' = {i \in Config!Given(s) : i < arg + 1}
      BY <2>1, <3>1 DEF Parsed
    <3>4. ASSUME NEW s \in Config!Settings
          PROVE  {i \in Config!Given(s) : i < arg + 1} = IF s = flag THEN Parsed(s) \cup {arg} ELSE Parsed(s)
      <4> DEFINE G == Config!Given(s)
      <4>1. G \subseteq Nat /\ (arg \in G <=> s = flag)
        BY <1>4, <3>2
      <4>2. Parsed(s) = {i \in G : i < arg}
        BY DEF Parsed
      <4> HIDE DEF G
      <4>3. \A i \in G : i < arg + 1 <=> i < arg \/ i = arg
        BY <1>1, <4>1
      <4>4. CASE s = flag
        <5>1. {i \in G : i < arg + 1} = {i \in G : i < arg} \cup {arg}
          BY <4>1, <4>3, <4>4
        <5> QED
          BY <4>2, <4>4, <5>1 DEF G
      <4>5. CASE s # flag
        <5>1. {i \in G : i < arg + 1} = {i \in G : i < arg}
          BY <4>1, <4>3, <4>5
        <5> QED
          BY <4>2, <4>5, <5>1 DEF G
      <4> QED
        BY <4>4, <4>5
    <3> QED
      BY <3>3, <3>4
  <2>3. \A s \in Config!Settings : SoFar(s)'
    <3>1. ASSUME NEW s \in Config!Settings, s # flag PROVE SoFar(s)'
      <4>1. SoFar(s) /\ Parsed(s)' = Parsed(s) /\ cfg'[s] = cfg[s]
        BY <1>1, <1>3, <2>1, <2>2, <3>1 DEF ConfigInv
      <4> QED
        BY <2>1, <4>1 DEF SoFar, Base
    <3>2. ASSUME NEW s \in Config!Settings, s = flag PROVE SoFar(s)'
      <4>1. Parsed(s)' = Parsed(s) \cup {arg}
        BY <2>2, <3>2
      <4>2. cfg'[s] = args'[arg][2]
        BY <1>1, <1>3, <2>1, <3>2 DEF value
      <4>3. \A j \in Parsed(s) : j \in Nat /\ j < arg
        BY <1>1, GivenRange DEF Parsed
      <4>4. arg \in Parsed(s)' /\ (\A j \in Parsed(s)' : j <= arg)
        BY <1>1, <4>1, <4>3
      <4> QED
        BY <4>2, <4>4 DEF SoFar
    <3> QED
      BY <3>1, <3>2
  <2>4. \A s \in {"timeout", "pjsip"} : \A i \in Parsed(s)' : args[i][2] # "bad"
    <3>1. flag \in {"timeout", "pjsip"} => value # "bad"
      BY <1>5 DEF Config!Parses
    <3>2. {"timeout", "pjsip"} \subseteq Config!Settings
      BY DEF Config!Settings
    <3> QED
      BY <2>1, <2>2, <3>1, <3>2 DEF ConfigInv, value
  <2>5. Config!TypeOK'
    <3>1. value \in Config!Texts
      BY <1>3, ValuesType
    <3>2. cfg' \in [Config!Settings -> Config!Texts] /\ arg' \in 1..(Len(args) + 1)
      BY <1>1, <1>3, <2>1, <3>1
    <3> QED
      BY <1>1, <2>1, <3>2 DEF Config!TypeOK
  <2>6. \A i \in 1..arg : args[i] # Config!Word
    BY <1>1, <1>2, <2>1 DEF ConfigInv
  <2> QED
    BY <1>1, <2>1, <2>3, <2>4, <2>5, <2>6 DEF ConfigInv
<1>6. CASE ~Config!Parses(flag, value)
  <2>1. place' = "refused" /\ UNCHANGED <<env, args, arg, cfg>> /\ place = "flags"
    BY <1>6 DEF Config!TakeFlag, flag, value
  <2>2. flag \in {"timeout", "pjsip"} /\ value = "bad"
    BY <1>6 DEF Config!Parses
  <2>3. Config!Unparsable'
    BY <1>4, <2>1, <2>2 DEF Config!Unparsable, Config!Given, value
  <2>4. Config!TypeOK'
    BY <1>1, <2>1 DEF Config!TypeOK
  <2>5. \A s \in Config!Settings : SoFar(s)' = SoFar(s) /\ Parsed(s)' = Parsed(s)
    BY <2>1 DEF SoFar, Parsed, Config!Given, Base
  <2> QED
    BY <2>1, <2>3, <2>4, <2>5 DEF ConfigInv, Config!Settings
<1> QED
  BY <1>5, <1>6

\* A word that is no flag ends the flags that count.
LEMMA TakeWordKeeps == ConfigInv /\ Config!TakeWord => ConfigInv'
<1> SUFFICES ASSUME ConfigInv, Config!TakeWord PROVE ConfigInv'
    OBVIOUS
<1>1. /\ Config!TypeOK /\ arg \in 1..Len(args) /\ Len(args) \in Nat
      /\ args[arg] = Config!Word /\ place = "flags"
      /\ arg' = Len(args) + 1 /\ UNCHANGED <<env, args, cfg, place>>
  BY DEF Config!TakeWord, ConfigInv, Config!TypeOK
<1>2. \A s \in Config!Settings : Parsed(s)' = Parsed(s)
  <2> SUFFICES ASSUME NEW s \in Config!Settings PROVE Parsed(s)' = Parsed(s)
      OBVIOUS
  <2>1. Config!Given(s)' = Config!Given(s)
    BY <1>1 DEF Config!Given
  <2>2. \A i \in Config!Given(s) : i \in Nat /\ i < Len(args) + 1 /\ i < arg
    <3> SUFFICES ASSUME NEW i \in Config!Given(s) PROVE i \in Nat /\ i < Len(args) + 1 /\ i < arg
        OBVIOUS
    <3>1. i \in 1..Len(args) /\ \A j \in 1..i : args[j] # Config!Word
      BY <1>1, GivenRange
    <3> QED
      BY <1>1, <3>1
  <2> QED
    BY <1>1, <2>1, <2>2 DEF Parsed
<1>3. \A s \in Config!Settings : SoFar(s)'
  BY <1>1, <1>2 DEF SoFar, Base, ConfigInv
<1>4. Config!TypeOK'
  BY <1>1 DEF Config!TypeOK
<1> QED
  BY <1>1, <1>2, <1>3, <1>4 DEF ConfigInv, Config!Settings

\* The steps after the flags look at what has been read, and change nothing of it.
LEMMA LastStepsKeep ==
    ConfigInv /\ (Config!FlagsEnd \/ Config!Validate \/ Config!Routes \/ UNCHANGED Config!vars) => ConfigInv'
<1> SUFFICES ASSUME ConfigInv, Config!FlagsEnd \/ Config!Validate \/ Config!Routes \/ UNCHANGED Config!vars
             PROVE  ConfigInv'
    OBVIOUS
<1>1. UNCHANGED <<env, args, arg, cfg>>
  BY DEF Config!FlagsEnd, Config!Validate, Config!Routes, Config!vars
<1>2. place' \in {"flags", "validate", "routes", "serving", "refused", "crashed"} \/ place' = place
  BY DEF Config!FlagsEnd, Config!Validate, Config!Routes, Config!vars
<1>3. Config!TypeOK'
  BY <1>1, <1>2 DEF ConfigInv, Config!TypeOK
<1>4. /\ \A s \in Config!Settings : SoFar(s)' = SoFar(s) /\ Parsed(s)' = Parsed(s)
      /\ Config!Unparsable' = Config!Unparsable /\ AllParsed' = AllParsed /\ Config!Valid(cfg)' = Config!Valid(cfg)
      /\ Config!Registers(cfg.path)' = Config!Registers(cfg.path)
  BY <1>1 DEF SoFar, Parsed, Config!Given, Base, Config!Unparsable, AllParsed, Config!Valid
<1>5. CASE Config!FlagsEnd
  <2>1. arg = Len(args) + 1
    BY <1>5 DEF Config!FlagsEnd, ConfigInv, Config!TypeOK
  <2>2. ~Config!Unparsable
    <3> SUFFICES ASSUME NEW s \in {"timeout", "pjsip"}, NEW i \in Config!Given(s), args[i][2] = "bad" PROVE FALSE
      BY DEF Config!Unparsable
    <3>1. s \in Config!Settings
      BY DEF Config!Settings
    <3>2. i \in 1..Len(args) /\ Len(args) \in Nat
      BY <3>1, GivenRange DEF ConfigInv, Config!TypeOK
    <3>3. i \in Parsed(s)
      BY <2>1, <3>2 DEF Parsed
    <3> QED
      BY <1>5, <3>3 DEF Config!FlagsEnd, ConfigInv
  <2> QED
    BY <1>1, <1>3, <1>4, <1>5, <2>1, <2>2 DEF Config!FlagsEnd, ConfigInv, AllParsed, Config!Settings
<1>6. CASE Config!Validate
  BY <1>1, <1>3, <1>4, <1>6 DEF Config!Validate, ConfigInv, Config!Settings
<1>7. CASE Config!Routes
  BY <1>1, <1>3, <1>4, <1>7 DEF Config!Routes, ConfigInv, Config!Settings
<1>8. CASE UNCHANGED Config!vars
  BY <1>1, <1>3, <1>4, <1>8 DEF Config!vars, ConfigInv, Config!Settings
<1> QED
  BY <1>5, <1>6, <1>7, <1>8

\* The paths on which the mux panics, and where requests go with the others.
LEMMA MuxTakes ==
    ASSUME NEW path \in {"/metrics", "/", "/stats", "/healthz", "/{x}", "/{p...}", "/{x", "/a b", "/x//y"}
    PROVE  Config!Registers(path) <=> path \notin Config!Fatal
<1>1. \A own \in Config!OwnRoutes : Config!Matches(own) = IF own = "/" THEN Config!Requests ELSE {"/healthz"}
  BY DEF Config!Matches, Config!OwnRoutes, Config!Requests
<1>2. CASE path \in {"/{x", "/a b"}
  BY <1>2 DEF Config!Registers, Config!WellFormed, Config!Fatal
<1>3. CASE path \in {"/", "/{p...}"}
  <2>1. Config!Matches(path) = Config!Requests
    BY <1>3 DEF Config!Matches
  <2> QED
    BY <1>1, <1>3, <2>1 DEF Config!Registers, Config!Conflict, Config!Narrower, Config!Requests,
       Config!OwnRoutes, Config!Fatal
<1>4. CASE path = "/healthz"
  <2>1. Config!Matches(path) = {"/healthz"}
    BY <1>4 DEF Config!Matches, Config!Requests
  <2> QED
    BY <1>1, <1>4, <2>1 DEF Config!Registers, Config!Conflict, Config!Narrower, Config!OwnRoutes, Config!Fatal
<1>5. CASE path = "/{x}"
  <2>1. Config!Matches(path) = {"/healthz", "/metrics", "/stats"}
    BY <1>5 DEF Config!Matches, Config!Requests
  <2>2. \A own \in Config!OwnRoutes : Config!Narrower(own, path) \/ Config!Narrower(path, own)
    BY <1>1, <2>1 DEF Config!Narrower, Config!Requests, Config!OwnRoutes
  <2> QED
    BY <1>5, <2>2 DEF Config!Registers, Config!WellFormed, Config!Conflict, Config!Fatal
<1>6. CASE path \in {"/metrics", "/stats", "/x//y"}
  <2>1. Config!Matches(path) = IF path = "/x//y" THEN {} ELSE {path}
    BY <1>6 DEF Config!Matches, Config!Requests
  <2>2. ~Config!Conflict("/healthz", path)
    BY <1>1, <1>6, <2>1 DEF Config!Conflict, Config!OwnRoutes
  <2>3. ~Config!Conflict("/", path)
    BY <1>1, <1>6, <2>1 DEF Config!Conflict, Config!Narrower, Config!Requests, Config!OwnRoutes
  <2> QED
    BY <1>6, <2>2, <2>3 DEF Config!Registers, Config!WellFormed, Config!OwnRoutes, Config!Fatal
<1> QED
  BY <1>2, <1>3, <1>4, <1>5, <1>6

LEMMA MuxServes ==
    ASSUME cfg.path \in {"/metrics", "/stats", "/{x}", "/x//y"}
    PROVE  Config!RoutesKept /\ (cfg.path \notin {"/{x}", "/x//y"} => Config!MetricsExposed)
<1>1. \A own \in Config!OwnRoutes : Config!Matches(own) = IF own = "/" THEN Config!Requests ELSE {"/healthz"}
  BY DEF Config!Matches, Config!OwnRoutes, Config!Requests
<1>2. Config!Matches(cfg.path) = CASE cfg.path = "/{x}" -> {"/healthz", "/metrics", "/stats"}
                                   [] cfg.path = "/x//y" -> {}
                                   [] OTHER -> {cfg.path}
  BY DEF Config!Matches, Config!Requests
<1> QED
  BY <1>1, <1>2 DEF Config!RoutesKept, Config!MetricsExposed, Config!Goes, Config!Narrower, Config!Requests, Config!OwnRoutes

\* A path that passed the validation is one of those tried.
LEMMA PathType ==
    ConfigInv /\ place \in {"serving", "crashed"} =>
        cfg.path \in {"/metrics", "/", "/stats", "/healthz", "/{x}", "/{p...}", "/{x", "/a b", "/x//y"}
<1> SUFFICES ASSUME ConfigInv, place \in {"serving", "crashed"}
             PROVE  cfg.path \in {"/metrics", "/", "/stats", "/healthz", "/{x}", "/{p...}", "/{x", "/a b", "/x//y"}
    OBVIOUS
<1>1. "path" \in Config!Settings /\ SoFar("path") /\ cfg.path \notin {"", "stats"}
  BY DEF ConfigInv, Config!Settings, Config!Valid
<1>2. env["path"] \in {"", "stats", "/"}
  BY DEF ConfigInv, Config!TypeOK, Config!Envs, Config!EnvValues
<1>3. \A i \in Config!Given("path") : args[i][2] \in Config!FlagValues["path"]
  <2> SUFFICES ASSUME NEW i \in Config!Given("path") PROVE args[i][2] \in Config!FlagValues["path"]
      OBVIOUS
  <2>1. args[i] \in Config!Arguments /\ args[i] # Config!Word /\ args[i][1] = "path"
    BY <1>1, GivenRange DEF ConfigInv
  <2> QED
    BY <2>1, ArgumentType
<1>4. \A i \in Parsed("path") : args[i][2] \in Config!FlagValues["path"]
  BY <1>3 DEF Parsed
<1> QED
  BY <1>1, <1>2, <1>4 DEF SoFar, Base, Config!FlagValues, Config!Defaults

\* At the end the flags parsed are all that were given.
LEMMA ConfigInvImplies == ConfigInv => StartsAsConfigured
<1> SUFFICES ASSUME ConfigInv PROVE StartsAsConfigured
    OBVIOUS
<1>1. ASSUME AllParsed, place # "env" PROVE cfg = [s \in Config!Settings |-> Config!Resolved(s)]
  <2> SUFFICES ASSUME NEW s \in Config!Settings PROVE cfg[s] = Config!Resolved(s)
    BY DEF ConfigInv, Config!TypeOK
  <2>1. Parsed(s) = Config!Given(s)
    <3>1. \A i \in Config!Given(s) : i \in 1..Len(args)
      BY GivenRange DEF ConfigInv
    <3>2. Len(args) \in Nat /\ arg = Len(args) + 1
      BY <1>1 DEF AllParsed, ConfigInv, Config!TypeOK
    <3> QED
      BY <3>1, <3>2 DEF Parsed
  <2>2. SoFar(s)
    BY <1>1 DEF ConfigInv, AllParsed
  <2>3. CASE Config!Given(s) = {}
    BY <2>1, <2>2, <2>3 DEF SoFar, Base, Config!Resolved
  <2>4. CASE Config!Given(s) # {}
    <3>1. PICK i \in Config!Given(s) : (\A j \in Config!Given(s) : j <= i) /\ cfg[s] = args[i][2]
      BY <2>1, <2>2, <2>4 DEF SoFar
    <3>2. \A j \in Config!Given(s) : j \in Nat
      BY GivenRange DEF ConfigInv
    <3>3. Config!Sets!Max(Config!Given(s)) = i
      BY <3>1, <3>2 DEF Config!Sets!Max
    <3> QED
      BY <2>4, <3>1, <3>3 DEF Config!Resolved
  <2> QED
    BY <2>3, <2>4
<1>2. place \in {"serving", "crashed"} => cfg = Config!Configured /\ Config!Valid(cfg) /\ ~Config!Unparsable
  BY <1>1 DEF ConfigInv, AllParsed, Config!Configured
<1>3. place \in {"serving", "crashed"} => (place = "crashed" <=> cfg.path \in Config!Fatal)
  BY PathType, MuxTakes DEF ConfigInv
<1>4. place = "refused" => Config!Unparsable \/ ~Config!Valid(Config!Configured)
  BY <1>1 DEF ConfigInv, Config!Configured
<1>5. place = "serving" => cfg.path \in {"/metrics", "/stats", "/{x}", "/x//y"}
  BY <1>3, PathType DEF Config!Fatal
<1>6. place = "serving" => Config!RoutesKept /\ (cfg.path \notin {"/{x}", "/x//y"} => Config!MetricsExposed)
  BY <1>5, MuxServes
<1> QED
  BY <1>2, <1>3, <1>4, <1>6 DEF StartsAsConfigured, Config!StartsAsConfigured

\* Every step of one part leaves the others alone.
LEMMA NextConfigInv == ConfigInv /\ [NextInputs]_allVars => ConfigInv'
<1> SUFFICES ASSUME ConfigInv, [NextInputs]_allVars PROVE ConfigInv'
    OBVIOUS
<1>1. Config!Next \/ UNCHANGED Config!vars
  BY DEF NextInputs, allVars, AllEnded, config, Config!vars
<1> QED
  BY <1>1, ApplyEnvKeeps, TakeFlagKeeps, TakeWordKeeps, LastStepsKeep DEF Config!Next

\* A run starts with the defaults.
LEMMA InitConfigInv == InitInputs => ConfigInv
<1> SUFFICES ASSUME InitInputs PROVE ConfigInv
    OBVIOUS
<1>1. PICK e \in Config!Envs, n \in Nat : \E as \in [1..n -> Config!Arguments] : Config!Start(e, as)
  <2>1. CASE part = "config"
    BY <2>1, InputsAssumption DEF InitInputs, Config!Init
  <2>2. CASE part # "config"
    <3>1. Unset \in Config!Envs
      BY DEF Unset, Config!Envs, Config!EnvValues, Config!Settings
    <3>2. <<>> \in [1..0 -> Config!Arguments]
      OBVIOUS
    <3> QED
      BY <2>2, <3>1, <3>2 DEF InitInputs
  <2> QED
    BY <2>1, <2>2
<1>2. PICK as \in [1..n -> Config!Arguments] : Config!Start(e, as)
  BY <1>1
<1>3. /\ env \in Config!Envs /\ args \in Seq(Config!Arguments) /\ arg = 1
      /\ cfg = Config!Defaults /\ place = "env"
  <2>1. env = e /\ args = as /\ arg = 1 /\ cfg = Config!Defaults /\ place = "env"
    BY <1>2 DEF Config!Start
  <2>2. as \in Seq(Config!Arguments)
    BY SeqDef, Zenon
  <2> QED
    BY <2>1, <2>2
<1>4. Config!Defaults \in [Config!Settings -> Config!Texts]
  <2>1. \A s \in Config!Settings : Config!Defaults[s] \in Config!Texts
    BY ValuesType
  <2>2. Config!Defaults = [s \in Config!Settings |-> Config!Defaults[s]]
    BY DEF Config!Defaults, Config!Settings
  <2> QED
    BY <2>1, <2>2
<1>5. Config!TypeOK
  BY <1>3, <1>4 DEF Config!TypeOK
<1> QED
  BY <1>3, <1>5 DEF ConfigInv

\* The exporter serves only the configuration it was given, refuses only one that
\* is wrong, and dies after the checks only of a path that is one of its own.
THEOREM ConfigCorrect == SpecInputs => []StartsAsConfigured
  BY InitConfigInv, NextConfigInv, ConfigInvImplies, PTL DEF SpecInputs

-----------------------------------------------------------------------------
(* RTCP events *)

\* A nonempty set of natural numbers has a least one.
LEMMA LeastNumber ==
    ASSUME NEW N \in SUBSET Nat, N # {}
    PROVE  \E x \in N : \A y \in N : x <= y
<1> DEFINE Less == OpToRel(<, Nat)
<1>1. IsWellFoundedOn(Less, Nat)
  BY NatLessThanWellFounded
<1>2. \A x, y \in Nat : y < x => <<y, x>> \in Less
  BY DEF OpToRel
<1> HIDE DEF Less
<1>3. \E x \in N : \A y \in N : <<y, x>> \notin Less
  BY <1>1, WFMin
<1>4. \E x \in N : \A y \in N : ~(y < x)
  BY <1>2, <1>3, Zenon
<1> QED
  BY <1>4, SMT

\* A header has one of the measurement's names, and a number in its unit if any.
LEMMA SendableType ==
    ASSUME NEW m \in DOMAIN Parser!Variants, NEW h \in Parser!Sendable(m)
    PROVE  /\ \E i \in DOMAIN Parser!Variants[m] : h.key = Parser!Variants[m][i]
           /\ \/ h.unit \in DOMAIN Numbers[m] /\ h.n \in Numbers[m][h.unit]
              \/ h.unit = "none" /\ h.n = Parser!None
<1>1. CASE h \in Parser!HeadersOf(m) /\ h.n \in Numbers[m][h.unit]
  <2>1. PICK i \in DOMAIN Parser!Variants[m], u \in DOMAIN Numbers[m],
             n \in UNION {Numbers[m][w] : w \in DOMAIN Numbers[m]} :
               h = [key |-> Parser!Variants[m][i], unit |-> u, n |-> n]
    BY <1>1, SMT DEF Parser!HeadersOf
  <2>2. h.key = Parser!Variants[m][i] /\ h.unit = u
    BY <2>1
  <2> QED
    BY <1>1, <2>2
<1>2. CASE h \in {[key |-> Parser!Variants[m][i], unit |-> "none", n |-> Parser!None] :
                     i \in DOMAIN Parser!Variants[m]}
  <2>1. PICK i \in DOMAIN Parser!Variants[m] :
               h = [key |-> Parser!Variants[m][i], unit |-> "none", n |-> Parser!None]
    BY <1>2, Zenon
  <2>2. h.key = Parser!Variants[m][i] /\ h.unit = "none" /\ h.n = Parser!None
    BY <2>1
  <2> QED
    BY <2>2
<1> QED
  BY <1>1, <1>2 DEF Parser!Sendable

\* What Parse is to make of a header.
Reading(h) == IF Parser!Misread(h) THEN Parser!AsOtherUnit(h) ELSE Parser!InRange(h)

\* The guess of the unit is right for every number but those that can be taken for
\* the other, and a converted number is a number.
LEMMA GuessRight ==
    ASSUME measure \in DOMAIN Parser!Variants,
           NEW h \in Parser!Sendable(measure), Parser!Usable(h.n)
    PROVE  /\ Parser!Says(h)
           /\ Parser!Converted(h.n) = Reading(h)
           /\ Parser!Converted(h.n) \in Int /\ Parser!Converted(h.n) # Parser!None
           /\ measure = "loss" => Parser!Converted(h.n) \in 0..256
<1>0. measure \in {"jitter", "loss", "rtt", "packets"}
  BY DEF Parser!Variants
<1>1. h.unit \in DOMAIN Numbers[measure] /\ h.n \in Numbers[measure][h.unit]
  BY SendableType DEF Parser!Usable, Parser!None
<1>2. CASE measure = "jitter"
  <2>1. h.n \in Nat /\ h.unit \in {"s", "ms"}
    BY <1>1, <1>2, NumbersAssumption, SMT DEF Parser!Usable, Parser!None
  <2> QED
    BY <1>2, <2>1, SMTT(20) DEF Parser!JitterMS, Parser!Usable, Parser!Says, Parser!Misread, Parser!AsOtherUnit, Reading, Parser!Converted,
       Parser!InRange, Parser!Meant, Parser!None
<1>3. CASE measure = "loss"
  <2>1. \/ h.unit = "ratio" /\ h.n \in Int /\ h.n <= 256
        \/ h.unit = "byte" /\ h.n \in Nat /\ h.n % 256 = 0
    BY <1>1, <1>3, NumbersAssumption, SMT DEF Parser!Usable, Parser!None
  <2> QED
    BY <1>3, <2>1, SMTT(20) DEF Parser!LossOf, Parser!Clamped, Parser!Usable, Parser!Says, Parser!Misread, Parser!AsOtherUnit, Reading, Parser!Converted,
       Parser!InRange, Parser!Meant, Parser!None
<1>4. CASE measure = "rtt"
  <2>1. h.n \in Int /\ h.unit \in {"s", "ms"}
    BY <1>1, <1>4, NumbersAssumption, SMT DEF Parser!Usable, Parser!None
  <2> QED
    BY <1>4, <2>1, SMTT(20) DEF Parser!RTTMS, Parser!Usable, Parser!Says, Parser!Misread, Parser!AsOtherUnit, Reading, Parser!Converted,
       Parser!InRange, Parser!Meant, Parser!None
<1>5. CASE measure = "packets"
  <2>1. h.n \in Nat /\ h.unit = "count"
    BY <1>1, <1>5, NumbersAssumption, SMT DEF Parser!Usable, Parser!None
  <2> QED
    BY <1>5, <2>1, SMTT(20) DEF Parser!Usable, Parser!Says, Parser!Misread, Reading, Parser!Converted,
       Parser!InRange, Parser!Meant, Parser!None
<1> QED
  BY <1>0, <1>2, <1>3, <1>4, <1>5, Zenon

\* Get returns the first header of its name.
LEMMA GetFirst ==
    ASSUME Parser!TypeOK, NEW key, Parser!Hits(key) # {}
    PROVE  \E i \in Parser!Hits(key) : /\ Parser!Get(key) = headers[i]
                                       /\ \A j \in Parser!Hits(key) : i <= j
<1>1. headers \in Seq(Parser!Sendable(measure))
  BY Zenon DEF Parser!TypeOK
<1>2. Parser!Hits(key) \in SUBSET Nat
  BY <1>1, LenProperties, SMT DEF Parser!Hits
<1>3. \E i \in Parser!Hits(key) : \A j \in Parser!Hits(key) : i <= j
  BY <1>2, LeastNumber
<1>4. \E i \in Parser!Hits(key) :
         Parser!Sets!Min(Parser!Hits(key)) = i /\ \A j \in Parser!Hits(key) : i <= j
  BY <1>3, Zenon DEF Parser!Sets!Min
<1> QED
  BY <1>4, Zenon DEF Parser!Get

\* A name that has been tried gave nothing.
Tried(v) == LET key == Parser!Variants[measure][v]
            IN  Parser!Hits(key) = {} \/ ~Parser!Usable(Parser!Get(key).n)

ParserInv ==
    /\ Parser!TypeOK
    /\ ok = "parsing" => sample = Parser!None
    /\ \A v \in 1..(variant - 1) : Tried(v)
    /\ ok = "yes" /\ sample = Parser!None => variant = Len(Parser!Variants[measure]) + 1
    /\ sample # Parser!None =>
         /\ \E i \in DOMAIN headers : Parser!Chosen(i) /\ sample = Reading(headers[i])
         /\ measure = "loss" => sample \in 0..256

\* The types, one by one.
LEMMA ParserTypes ==
    ASSUME Parser!TypeOK
    PROVE  /\ event \in {"RTCPSent", "RTCPReceived", "Hangup"} /\ measure \in DOMAIN Parser!Variants
           /\ headers \in Seq(Parser!Sendable(measure))
           /\ variant \in 1..(Len(Parser!Variants[measure]) + 1)
           /\ sample \in Int /\ ok \in {"parsing", "yes", "no"}
           /\ Len(Parser!Variants[measure]) \in Nat
           /\ DOMAIN Parser!Variants[measure] = 1..Len(Parser!Variants[measure])
<1>1. /\ event \in {"RTCPSent", "RTCPReceived", "Hangup"} /\ measure \in DOMAIN Parser!Variants
      /\ headers \in Seq(Parser!Sendable(measure))
      /\ variant \in 1..(Len(Parser!Variants[measure]) + 1)
      /\ sample \in Int /\ ok \in {"parsing", "yes", "no"}
  BY Zenon DEF Parser!TypeOK
<1>2. /\ Len(Parser!Variants[measure]) \in Nat
      /\ DOMAIN Parser!Variants[measure] = 1..Len(Parser!Variants[measure])
  BY <1>1, SMT DEF Parser!Variants
<1> QED
  BY <1>1, <1>2, Zenon

\* The first header of a name that has been tried says nothing.
LEMMA TriedSaysNothing ==
    ASSUME Parser!TypeOK, NEW v, Tried(v), NEW j \in DOMAIN headers,
           headers[j].key = Parser!Variants[measure][v], Parser!First(j)
    PROVE  ~Parser!Says(headers[j])
<1> DEFINE key == Parser!Variants[measure][v]
<1>1. DOMAIN headers = 1..Len(headers) /\ Len(headers) \in Nat
  BY ParserTypes, LenProperties, Zenon
<1>2. j \in Parser!Hits(key)
  BY Zenon DEF Parser!Hits
<1>3. PICK i \in Parser!Hits(key) : Parser!Get(key) = headers[i] /\ \A k \in Parser!Hits(key) : i <= k
  BY <1>2, GetFirst, Zenon
<1>4. i \in DOMAIN headers /\ headers[i].key = key /\ i <= j
  BY <1>2, <1>3, Zenon DEF Parser!Hits
<1>5. i = j
  <2>1. i \notin 1..(j - 1)
    BY <1>4, Zenon DEF Parser!First
  <2> QED
    BY <1>1, <1>4, <2>1, SMT
<1>6. ~Parser!Usable(headers[j].n)
  BY <1>2, <1>3, <1>5, Zenon DEF Tried
<1> QED
  BY <1>6, Zenon DEF Parser!Says, Parser!Usable

\* No two names of a measurement are the same.
LEMMA NamesDiffer ==
    ASSUME measure \in DOMAIN Parser!Variants,
           NEW v \in DOMAIN Parser!Variants[measure], NEW w \in DOMAIN Parser!Variants[measure],
           Parser!Variants[measure][v] = Parser!Variants[measure][w]
    PROVE  v = w
<1>1. CASE measure = "jitter"
  BY <1>1, SMT DEF Parser!Variants
<1>2. CASE measure = "loss"
  BY <1>2, SMT DEF Parser!Variants
<1>3. CASE measure \in {"rtt", "packets"}
  BY <1>3, SMT DEF Parser!Variants
<1> QED
  BY <1>1, <1>2, <1>3, SMT DEF Parser!Variants

\* The number taken is that of the first header that has the name tried.
LEMMA TakesKeeps == ParserInv /\ Parser!Takes => ParserInv'
<1> SUFFICES ASSUME ParserInv, Parser!Takes PROVE ParserInv'
    OBVIOUS
<1> DEFINE h == Parser!Get(Parser!Here)
<1>1. /\ ok = "parsing" /\ variant <= Len(Parser!Variants[measure])
      /\ Parser!Hits(Parser!Here) # {} /\ Parser!Usable(h.n)
      /\ sample' = Parser!Converted(h.n) /\ ok' = "yes"
      /\ UNCHANGED <<event, measure, headers, variant>>
  BY Zenon DEF Parser!Takes, Parser!Trying, Parser!Found, Parser!Remaining
<1>2. Parser!TypeOK
  BY Zenon DEF ParserInv
<1>3. PICK i \in Parser!Hits(Parser!Here) : h = headers[i] /\ \A j \in Parser!Hits(Parser!Here) : i <= j
  BY <1>1, <1>2, GetFirst, Zenon
<1>4. i \in DOMAIN headers /\ h \in Parser!Sendable(measure)
  <2>1. i \in DOMAIN headers
    BY Zenon DEF Parser!Hits
  <2> QED
    <3>1. headers \in Seq(Parser!Sendable(measure))
      BY <1>2, ParserTypes, Zenon
    <3>2. i \in 1..Len(headers)
      BY <2>1, <3>1, LenProperties, Zenon
    <3>3. headers[i] \in Parser!Sendable(measure)
      BY <3>1, <3>2, ElementOfSeq, Zenon
    <3> QED
      BY <1>3, <2>1, <3>3, Zenon
<1> HIDE DEF h
<1>5. /\ Parser!Says(h) /\ sample' = Reading(h)
      /\ sample' \in Int /\ sample' # Parser!None
      /\ measure = "loss" => sample' \in 0..256
  BY <1>1, <1>2, <1>4, GuessRight, ParserTypes, Zenon
<1>6. Parser!TypeOK'
  BY <1>1, <1>2, <1>5, SMT DEF Parser!TypeOK
<1>7. \A v : Tried(v)' = Tried(v)
  BY <1>1, Zenon DEF Tried, Parser!Hits, Parser!Get, Parser!Usable
<1>8. (\A v \in 1..(variant - 1) : Tried(v))'
  BY <1>1, <1>7, Zenon DEF ParserInv
<1>9. Parser!Chosen(i)
  <2>1. DOMAIN headers = 1..Len(headers) /\ Len(headers) \in Nat
    BY <1>2, ParserTypes, LenProperties, Zenon
  <2>2. Parser!First(i)
    <3> SUFFICES ASSUME NEW j \in 1..(i - 1), headers[j].key = headers[i].key PROVE FALSE
      BY Zenon DEF Parser!First
    <3>1. j \in DOMAIN headers /\ ~(i <= j)
      BY <1>4, <2>1, SMT
    <3>2. j \in Parser!Hits(Parser!Here)
      BY <3>1, Zenon DEF Parser!Hits
    <3> QED
      BY <1>3, <3>1, <3>2, Zenon
  <2>3. ASSUME NEW j \in DOMAIN headers, Parser!First(j), Parser!Says(headers[j]),
               Parser!Before(headers[j].key, headers[i].key)
        PROVE  FALSE
    <3>1. PICK v, w \in DOMAIN Parser!Variants[measure] :
            /\ v < w /\ Parser!Variants[measure][v] = headers[j].key
            /\ Parser!Variants[measure][w] = headers[i].key
      BY <2>3, Zenon DEF Parser!Before
    <3>2. headers[i].key = Parser!Variants[measure][variant]
      BY Zenon DEF Parser!Hits, Parser!Here
    <3>3. DOMAIN Parser!Variants[measure] = 1..Len(Parser!Variants[measure])
          /\ Len(Parser!Variants[measure]) \in Nat /\ measure \in DOMAIN Parser!Variants
      BY <1>2, ParserTypes, Zenon
    <3>4. variant \in DOMAIN Parser!Variants[measure]
      <4>1. variant \in 1..(Len(Parser!Variants[measure]) + 1)
        BY <1>2, ParserTypes, Zenon
      <4> QED
        BY <1>1, <3>3, <4>1, SMT
    <3>5. w = variant
      BY <3>1, <3>2, <3>3, <3>4, NamesDiffer, Zenon
    <3>6. v \in 1..(variant - 1)
      BY <3>1, <3>3, <3>5, SMT
    <3>7. Tried(v)
      BY <3>6, Zenon DEF ParserInv
    <3> QED
      BY <1>2, <2>3, <3>1, <3>7, TriedSaysNothing, Zenon
  <2> QED
    BY <1>3, <1>5, <2>2, <2>3, Zenon DEF Parser!Chosen
<1>10. \E j \in DOMAIN headers' : Parser!Chosen(j)' /\ sample' = Reading(headers[j])'
  <2>1. Parser!Chosen(i)' /\ sample' = Reading(headers[i])'
    <3>1. Reading(headers[i])' = Reading(headers[i])
      BY <1>1, SMT DEF Reading, Parser!Misread, Parser!AsOtherUnit, Parser!InRange, Parser!Meant
    <3>2. Parser!Chosen(i)' = Parser!Chosen(i)
      BY <1>1, Zenon DEF Parser!Chosen, Parser!First, Parser!Says, Parser!Before
    <3> QED
      BY <1>3, <1>5, <1>9, <3>1, <3>2, Zenon
  <2> QED
    BY <1>1, <1>4, <2>1, Zenon
<1> QED
  BY <1>1, <1>5, <1>6, <1>8, <1>10, Zenon DEF ParserInv

\* A name that gives nothing is left for the next; the search ends after the last.
LEMMA OtherParserSteps ==
    ParserInv /\ (Parser!NotRtcp \/ Parser!TriesNext \/ Parser!NothingFound \/ UNCHANGED Parser!vars)
        => ParserInv'
<1> SUFFICES ASSUME ParserInv,
                    Parser!NotRtcp \/ Parser!TriesNext \/ Parser!NothingFound \/ UNCHANGED Parser!vars
             PROVE  ParserInv'
    OBVIOUS
<1>1. Parser!TypeOK
  BY Zenon DEF ParserInv
<1>2. UNCHANGED <<event, measure, headers, sample>>
  BY Zenon DEF Parser!NotRtcp, Parser!TriesNext, Parser!NothingFound, Parser!vars
<1>3. ok' = ok \/ (ok = "parsing" /\ ok' \in {"yes", "no"})
  BY Zenon DEF Parser!NotRtcp, Parser!TriesNext, Parser!NothingFound, Parser!Trying, Parser!vars
<1>4. variant' = variant \/ (Parser!TriesNext /\ ok = "parsing" /\ ok' = ok /\ variant' = variant + 1)
  BY Zenon DEF Parser!NotRtcp, Parser!TriesNext, Parser!NothingFound, Parser!Trying, Parser!vars
<1>5. \A v : Tried(v)' = Tried(v)
  BY <1>2, Zenon DEF Tried, Parser!Hits, Parser!Get, Parser!Usable
<1>6. Parser!TriesNext => Tried(variant) /\ variant <= Len(Parser!Variants[measure])
  BY Zenon DEF Parser!TriesNext, Parser!Found, Parser!Remaining, Parser!Here, Tried
<1>7. variant \in 1..(Len(Parser!Variants[measure]) + 1) /\ Len(Parser!Variants[measure]) \in Nat
  BY <1>1, ParserTypes, Zenon
<1>8. variant' \in 1..(Len(Parser!Variants[measure]) + 1)
  BY <1>4, <1>6, <1>7, SMT
<1>9. Parser!TypeOK'
  <2>1. ok' \in {"parsing", "yes", "no"}
    BY <1>1, <1>3, ParserTypes, Zenon
  <2> QED
    BY <1>1, <1>2, <1>8, <2>1, ParserTypes, Zenon DEF Parser!TypeOK
<1>10. (\A v \in 1..(variant - 1) : Tried(v))'
  <2>1. ASSUME NEW v \in 1..(variant' - 1) PROVE Tried(v)
    <3>1. v \in 1..(variant - 1) \/ (v = variant /\ Parser!TriesNext)
      BY <1>4, <1>7, SMT
    <3> QED
      BY <1>6, <3>1, Zenon DEF ParserInv
  <2> QED
    BY <1>5, <2>1, Zenon
<1>11. (ok = "yes" /\ sample = Parser!None => variant = Len(Parser!Variants[measure]) + 1)'
  <2>1. CASE Parser!NothingFound
    <3>1. ~(variant <= Len(Parser!Variants[measure])) /\ variant' = variant
      BY <2>1, Zenon DEF Parser!NothingFound, Parser!Remaining
    <3> QED
      BY <1>2, <1>7, <3>1, SMT
  <2>2. CASE ~Parser!NothingFound
    <3>1. ok' = "yes" => ok = "yes" /\ variant' = variant
      BY <1>4, <2>2, Zenon DEF Parser!NotRtcp, Parser!TriesNext, Parser!Trying, Parser!vars
    <3>2. sample = Parser!None /\ ok = "yes" => variant = Len(Parser!Variants[measure]) + 1
      BY Zenon DEF ParserInv
    <3> QED
      BY <1>2, <3>1, <3>2, Zenon
  <2> QED
    BY <2>1, <2>2, Zenon
<1>12. (sample # Parser!None =>
         /\ \E i \in DOMAIN headers : Parser!Chosen(i) /\ sample = Reading(headers[i])
         /\ measure = "loss" => sample \in 0..256)'
  <2>1. \A i : Parser!Chosen(i)' = Parser!Chosen(i) /\ Reading(headers[i])' = Reading(headers[i])
    <3>1. ASSUME NEW i PROVE Parser!Chosen(i)' = Parser!Chosen(i)
      BY <1>2, Zenon DEF Parser!Chosen, Parser!First, Parser!Says, Parser!Before
    <3>2. \A i : Reading(headers[i])' = Reading(headers[i])
      BY <1>2, SMT DEF Reading, Parser!Misread, Parser!AsOtherUnit, Parser!InRange, Parser!Meant
    <3> QED
      BY <3>1, <3>2, Zenon
  <2>2. ASSUME sample # Parser!None
        PROVE  /\ \E i \in DOMAIN headers : Parser!Chosen(i) /\ sample = Reading(headers[i])
               /\ measure = "loss" => sample \in 0..256
    BY <2>2, Zenon DEF ParserInv
  <2> QED
    BY <1>2, <2>1, <2>2, Zenon
<1>13. (ok = "parsing" => sample = Parser!None)'
  BY <1>2, <1>3, Zenon DEF ParserInv
<1> QED
  BY <1>9, <1>10, <1>11, <1>12, <1>13, Zenon DEF ParserInv

\* Where no name gave a number, the first header of each name says nothing.
LEMMA ParserInvImplies == ParserInv => SampleFaithful
<1> SUFFICES ASSUME ParserInv PROVE SampleFaithful
    OBVIOUS
<1>1. Parser!TypeOK
  BY Zenon DEF ParserInv
<1>2. ASSUME ok = "yes", sample = Parser!None, NEW i \in DOMAIN headers, Parser!First(i)
      PROVE  ~Parser!Says(headers[i])
  <2>1. headers \in Seq(Parser!Sendable(measure)) /\ measure \in DOMAIN Parser!Variants
    BY <1>1, ParserTypes, Zenon
  <2>2. DOMAIN headers = 1..Len(headers) /\ Len(headers) \in Nat
    BY <2>1, LenProperties, Zenon
  <2>3. headers[i] \in Parser!Sendable(measure)
    BY <2>1, <2>2, ElementOfSeq, Zenon
  <2>4. PICK v \in DOMAIN Parser!Variants[measure] : headers[i].key = Parser!Variants[measure][v]
    BY <2>1, <2>3, SendableType, Zenon
  <2>5. Tried(v)
    <3>1. variant = Len(Parser!Variants[measure]) + 1
      BY <1>2, Zenon DEF ParserInv
    <3>2. v \in 1..Len(Parser!Variants[measure]) /\ Len(Parser!Variants[measure]) \in Nat
      BY <1>1, ParserTypes, Zenon
    <3>3. v \in 1..(variant - 1)
      BY <3>1, <3>2, SMT
    <3> QED
      BY <3>3, Zenon DEF ParserInv
  <2> QED
    BY <1>1, <1>2, <2>4, <2>5, TriedSaysNothing, Zenon
<1>3. \A i : Reading(headers[i]) = IF Parser!Misread(headers[i]) THEN Parser!AsOtherUnit(headers[i])
                                                              ELSE Parser!InRange(headers[i])
  BY Zenon DEF Reading
<1> QED
  BY <1>2, <1>3, Zenon DEF SampleFaithful, Parser!SampleFaithful, ParserInv

\* Every step keeps it, whichever part runs.
LEMMA NextParserInv == ParserInv /\ [NextInputs]_allVars => ParserInv'
<1> SUFFICES ASSUME ParserInv, [NextInputs]_allVars PROVE ParserInv'
    OBVIOUS
<1>1. Parser!Next \/ UNCHANGED Parser!vars
  BY DEF NextInputs, allVars, AllEnded, parser, Parser!vars
<1> QED
  BY <1>1, TakesKeeps, OtherParserSteps, Zenon DEF Parser!Next

\* An event is one that Asterisk may send.
LEMMA InitParserInv == InitInputs => ParserInv
<1> SUFFICES ASSUME InitInputs PROVE ParserInv
    OBVIOUS
<1>1. \E e \in {"RTCPSent", "RTCPReceived", "Hangup"}, m \in DOMAIN Parser!Variants, k \in Nat :
         \E hs \in [1..k -> Parser!Sendable(m)] : Parser!Start(e, m, hs)
  <2>1. CASE part = "parser"
    <3>1. Measures \subseteq DOMAIN Parser!Variants /\ 0..MaxHeaders \subseteq Nat
      BY InputsAssumption, SMT DEF Parser!Variants
    <3>2. Parser!Init
      BY <2>1, Zenon DEF InitInputs
    <3> QED
      BY <3>1, <3>2, Zenon DEF Parser!Init
  <2>2. CASE part # "parser"
    <3>1. Parser!Start("Hangup", "jitter", <<>>)
      BY <2>2, Zenon DEF InitInputs
    <3>2. <<>> \in [1..0 -> Parser!Sendable("jitter")] /\ "jitter" \in DOMAIN Parser!Variants /\ 0 \in Nat
      BY SMT DEF Parser!Variants
    <3> QED
      BY <3>1, <3>2, Zenon
  <2> QED
    BY <2>1, <2>2, Zenon
<1>2. PICK e \in {"RTCPSent", "RTCPReceived", "Hangup"}, m \in DOMAIN Parser!Variants, k \in Nat :
         \E hs \in [1..k -> Parser!Sendable(m)] : Parser!Start(e, m, hs)
  BY <1>1, Zenon
<1>3. PICK hs \in [1..k -> Parser!Sendable(m)] : Parser!Start(e, m, hs)
  BY <1>2, Zenon
<1>4. /\ event = e /\ measure = m /\ headers = hs
      /\ variant = 1 /\ sample = Parser!None /\ ok = "parsing"
  BY <1>3, Zenon DEF Parser!Start
<1>5. hs \in Seq(Parser!Sendable(m))
  BY SeqDef, Zenon
<1>6. Len(Parser!Variants[m]) \in Nat /\ Parser!None \in Int
  BY SMT DEF Parser!Variants, Parser!None
<1>7. Parser!TypeOK
  BY <1>4, <1>5, <1>6, SMT DEF Parser!TypeOK
<1>8. 1..(variant - 1) = {}
  BY <1>4, SMT
<1> QED
  BY <1>4, <1>7, <1>8, Zenon DEF ParserInv

\* A sample is what the header that counts said, or that number in the other unit
\* if it can be taken for it, and a measurement that a header gives is not missed.
THEOREM ParseCorrect == SpecInputs => []SampleFaithful
  BY InitParserInv, NextParserInv, ParserInvImplies, PTL DEF SpecInputs

-----------------------------------------------------------------------------
(* Framing *)

\* A nonempty set of numbers up to m has a greatest one.
LEMMA GreatestNumber ==
    ASSUME NEW m \in Nat, NEW N \in SUBSET (0..m), N # {}
    PROVE  \E x \in N : \A y \in N : y <= x
<1> DEFINE Below == {k \in Nat : m - k \in N}
<1>1. PICK n \in N : TRUE
  OBVIOUS
<1>2. m - n \in Below /\ Below \subseteq Nat
  BY <1>1
<1>3. \E k \in Below : \A j \in Below : k <= j
  <2> HIDE DEF Below
  <2> QED
    BY <1>2, LeastNumber
<1>4. PICK k \in Below : \A j \in Below : k <= j
  BY <1>3
<1>5. m - k \in N /\ k \in Nat
  OBVIOUS
<1>6. \A y \in N : m - y \in Below /\ y \in Nat
  OBVIOUS
<1>7. \A y \in N : k <= m - y /\ y \in Nat
  BY <1>4, <1>6
<1> HIDE DEF Below
<1>8. \A y \in N : y <= m - k
  BY <1>5, <1>7
<1> QED
  BY <1>5, <1>8

\* A line that is not blank makes a header.
LEMMA FieldType ==
    ASSUME NEW line \in Framing!Lines, line # <<>>
    PROVE  Framing!Field(line) \in (Keys \cup {"Output"}) \X Values
<1>1. CASE \E v \in Values : line = <<v>>
  BY <1>1 DEF Framing!Field
<1>2. CASE line \in Keys \X Values
  BY <1>2 DEF Framing!Field
<1> QED
  BY <1>1, <1>2, Zenon DEF Framing!Lines

\* The frame at a line begins after the last blank line before it.
Begins(lines, last, b) ==
    /\ b = 0 \/ lines[b] = <<>>
    /\ \A j \in (b + 1)..last : lines[j] # <<>>
    /\ Framing!FrameTo(lines, last) = [i \in 1..(last - b) |-> Framing!Field(lines[b + i])]

\* Every line lies in a message that begins at some blank line, or at the start.
LEMMA FrameBegins ==
    ASSUME NEW lines, NEW last \in Nat
    PROVE  \E b \in 0..last : Begins(lines, last, b)
<1> DEFINE blanks == {j \in 0..last : j = 0 \/ lines[j] = <<>>}
<1>1. PICK b \in blanks : \A j \in blanks : j <= b
  <2>1. 0 \in blanks /\ blanks \in SUBSET (0..last)
    OBVIOUS
  <2> HIDE DEF blanks
  <2> QED
    BY <2>1, GreatestNumber
<1>2. Framing!Sets!Max(blanks) = b
  BY <1>1 DEF Framing!Sets!Max
<1>3. b \in 0..last /\ (b = 0 \/ lines[b] = <<>>)
  OBVIOUS
<1>4. \A j \in (b + 1)..last : lines[j] # <<>>
  BY <1>1
<1>5. Framing!FrameTo(lines, last) = [i \in 1..(last - (b + 1) + 1) |-> Framing!Field(lines[b + 1 + i - 1])]
  <2> HIDE DEF blanks
  <2> QED
    BY <1>2, Zenon DEF Framing!FrameTo, blanks
<1>6. last - (b + 1) + 1 = last - b /\ \A i \in 1..(last - b) : b + 1 + i - 1 = b + i
  BY <1>3
<1> HIDE DEF blanks
<1>7. Framing!FrameTo(lines, last) = [i \in 1..(last - b) |-> Framing!Field(lines[b + i])]
  BY <1>5, <1>6
<1> QED
  BY <1>3, <1>4, <1>7, Zenon DEF Begins

\* What comes after does not change a frame.
LEMMA FrameSame ==
    ASSUME NEW last \in Nat, NEW l1, NEW l2, \A i \in 1..last : l1[i] = l2[i]
    PROVE  Framing!FrameTo(l1, last) = Framing!FrameTo(l2, last)
<1>1. PICK b1 \in 0..last : Begins(l1, last, b1)
  BY FrameBegins, Zenon
<1>2. PICK b2 \in 0..last : Begins(l2, last, b2)
  BY FrameBegins, Zenon
<1> USE DEF Begins
<1>3. b1 = b2
  <2>1. CASE b1 < b2
    <3>1. b2 \in (b1 + 1)..last /\ b2 \in 1..last /\ b2 # 0
      BY <2>1
    <3> QED
      BY <1>1, <1>2, <3>1, Zenon
  <2>2. CASE b2 < b1
    <3>1. b1 \in (b2 + 1)..last /\ b1 \in 1..last /\ b1 # 0
      BY <2>2
    <3> QED
      BY <1>1, <1>2, <3>1, Zenon
  <2> QED
    BY <2>1, <2>2
<1>4. \A i \in 1..(last - b1) : l1[b1 + i] = l2[b1 + i]
  BY <1>1
<1> QED
  BY <1>1, <1>2, <1>3, <1>4

\* A frame is a sequence of headers, and empty after a blank line.
LEMMA FrameType ==
    ASSUME NEW lines \in Seq(Framing!Lines), NEW last \in 0..Len(lines)
    PROVE  /\ Framing!FrameTo(lines, last) \in Framing!Fields
           /\ Framing!FrameTo(lines, last) = <<>> <=> last = 0 \/ lines[last] = <<>>
<1>1. last \in Nat /\ Len(lines) \in Nat
  BY LenProperties
<1>2. PICK b \in 0..last : Begins(lines, last, b)
  BY <1>1, FrameBegins, Zenon
<1> USE DEF Begins
<1> DEFINE F == (Keys \cup {"Output"}) \X Values
<1>3. \A i \in 1..(last - b) : Framing!Field(lines[b + i]) \in F
  <2> SUFFICES ASSUME NEW i \in 1..(last - b) PROVE Framing!Field(lines[b + i]) \in F
      OBVIOUS
  <2>1. b + i \in 1..Len(lines) /\ b + i \in (b + 1)..last
    BY <1>1
  <2>2. lines[b + i] \in Framing!Lines /\ lines[b + i] # <<>>
    BY <1>2, <2>1, ElementOfSeq
  <2> QED
    BY <2>2, FieldType
<1>4. last - b \in Nat
  BY <1>1
<1>5. Framing!FrameTo(lines, last) \in Seq(F) /\ Len(Framing!FrameTo(lines, last)) = last - b
  <2> HIDE DEF F
  <2> QED
    BY <1>2, <1>3, <1>4
<1>6. Framing!FrameTo(lines, last) = <<>> <=> last - b = 0
  <2> HIDE DEF F
  <2> QED
    BY <1>4, <1>5, EmptySeq
<1>7. last - b = 0 <=> last = 0 \/ lines[last] = <<>>
  BY <1>1, <1>2
<1> QED
  BY <1>5, <1>6, <1>7 DEF Framing!Fields

\* A line that is not blank adds a header to the frame.
LEMMA FrameGrows ==
    ASSUME NEW lines \in Seq(Framing!Lines), NEW last \in 0..(Len(lines) - 1), lines[last + 1] # <<>>
    PROVE  Framing!FrameTo(lines, last + 1)
             = Append(Framing!FrameTo(lines, last), Framing!Field(lines[last + 1]))
<1>1. last \in Nat /\ last + 1 \in Nat /\ last + 1 \in 1..Len(lines) /\ Len(lines) \in Nat
  BY LenProperties
<1>2. PICK b \in 0..last : Begins(lines, last, b)
  BY <1>1, FrameBegins, Zenon
<1>3. PICK b2 \in 0..(last + 1) : Begins(lines, last + 1, b2)
  BY <1>1, FrameBegins, Zenon
<1> USE DEF Begins
<1>4. b2 = b
  BY <1>1, <1>2, <1>3
<1> DEFINE old == Framing!FrameTo(lines, last)
           new == Framing!FrameTo(lines, last + 1)
           field == Framing!Field(lines[last + 1])
           F == (Keys \cup {"Output"}) \X Values
<1>5. old \in Seq(F) /\ new \in Seq(F) /\ field \in F
  <2>1. lines[last + 1] \in Framing!Lines
    BY <1>1, ElementOfSeq
  <2>2. last \in 0..Len(lines) /\ last + 1 \in 0..Len(lines)
    BY <1>1
  <2>3. old \in Seq(F) /\ new \in Seq(F)
    BY <2>2, FrameType, Zenon DEF Framing!Fields
  <2>4. field \in F
    BY <2>1, FieldType
  <2> QED
    BY <2>3, <2>4
<1>6. /\ old = [i \in 1..(last - b) |-> Framing!Field(lines[b + i])]
      /\ new = [i \in 1..(last - b + 1) |-> Framing!Field(lines[b + i])]
      /\ field = Framing!Field(lines[b + (last - b + 1)])
      /\ last - b \in Nat
  BY <1>1, <1>2, <1>3, <1>4
<1> HIDE DEF old, new, field, F
<1>7. Len(old) = last - b /\ Len(new) = last - b + 1
  BY <1>5, <1>6
<1>8. Append(old, field) \in Seq(F) /\ Len(Append(old, field)) = last - b + 1
  BY <1>5, <1>6, <1>7, AppendProperties
<1>9. \A i \in 1..(last - b + 1) : Append(old, field)[i] = new[i]
  <2> SUFFICES ASSUME NEW i \in 1..(last - b + 1) PROVE Append(old, field)[i] = new[i]
      OBVIOUS
  <2>1. CASE i = last - b + 1
    <3>1. Append(old, field)[i] = field
      BY <1>5, <1>7, <2>1, AppendProperties
    <3> QED
      BY <1>6, <2>1, <3>1
  <2>2. CASE i # last - b + 1
    <3>1. i \in 1..(last - b)
      BY <1>6, <2>2
    <3>2. Append(old, field)[i] = old[i]
      BY <1>5, <1>7, <3>1, AppendProperties
    <3> QED
      BY <1>6, <3>1, <3>2
  <2> QED
    BY <2>1, <2>2
<1>10. new = Append(old, field)
  BY <1>5, <1>7, <1>8, <1>9, SeqEqual
<1> QED
  BY <1>10 DEF new, old, field

\* The last lines of the messages complete in the first n lines.
Lasts(n) == {i \in 1..(n - 1) : wire[i] # <<>> /\ wire[i + 1] = <<>>}

\* Those messages have been returned, in the order of their last lines.
Returned(n) ==
    /\ Len(returned) = Cardinality(Lasts(n))
    /\ \A last \in Lasts(n) :
          returned[Cardinality(Lasts(n) \cap 1..last)] = Framing!FrameTo(wire, last)

FramingInv ==
    /\ Framing!TypeOK
    /\ Returned(next - 1)
    /\ result = "reading" => fields = Framing!FrameTo(wire, next - 1)
    /\ result # "reading" => next = Len(wire) + 1
    /\ result = "EOF" <=> /\ result # "reading" /\ ending = "clean"
                          /\ wire = <<>> \/ wire[Len(wire)] = <<>>

\* The numbers it is about.
LEMMA LastsType ==
    ASSUME NEW n \in Nat
    PROVE  /\ IsFiniteSet(Lasts(n)) /\ Lasts(n) \subseteq 1..n
           /\ \A last \in Lasts(n) : Cardinality(Lasts(n) \cap 1..last) \in 1..Cardinality(Lasts(n))
           /\ Cardinality(Lasts(n)) \in Nat
<1>1. Lasts(n) \subseteq 1..n
  BY DEF Lasts
<1>2. IsFiniteSet(Lasts(n)) /\ Cardinality(Lasts(n)) \in Nat
  <2>1. IsFiniteSet(1..n)
    BY FS_Interval
  <2>2. IsFiniteSet(Lasts(n))
    BY <1>1, <2>1, FS_Subset, Zenon
  <2> QED
    BY <2>2, FS_CardinalityType
<1>3. ASSUME NEW last \in Lasts(n)
      PROVE  Cardinality(Lasts(n) \cap 1..last) \in 1..Cardinality(Lasts(n))
  <2> DEFINE upTo == Lasts(n) \cap 1..last
  <2>1. last \in upTo /\ upTo \subseteq Lasts(n)
    BY <1>1, <1>3
  <2> HIDE DEF upTo
  <2>2. IsFiniteSet(upTo) /\ Cardinality(upTo) <= Cardinality(Lasts(n)) /\ Cardinality(upTo) \in Nat
    BY <1>2, <2>1, FS_Subset, FS_CardinalityType
  <2>3. Cardinality(upTo) # 0
    BY <2>1, <2>2, FS_EmptySet
  <2> QED
    BY <1>2, <2>2, <2>3 DEF upTo
<1> QED
  BY <1>1, <1>2, <1>3

\* They stay as they are while nothing is returned.
LEMMA ReturnedSame ==
    ASSUME UNCHANGED <<wire, returned>>, Returned(next' - 1)
    PROVE  Returned(next - 1)'
<1>1. Lasts(next - 1)' = Lasts(next' - 1)
  BY DEF Lasts
<1>2. \A last : Framing!FrameTo(wire, last)' = Framing!FrameTo(wire, last)
  BY Zenon DEF Framing!FrameTo
<1> QED
  BY <1>1, <1>2, Zenon DEF Returned

\* What TLC compares with is what the invariant says.
LEMMA FramesMeansReturned ==
    ASSUME Framing!TypeOK, Returned(next - 1)
    PROVE  Framing!Frames(SubSeq(wire, 1, next - 1), returned)
<1> DEFINE n == next - 1
           read == SubSeq(wire, 1, n)
<1>1. wire \in Seq(Framing!Lines) /\ n \in 0..Len(wire) /\ Len(wire) \in Nat /\ n \in Nat
  BY LenProperties DEF Framing!TypeOK
<1>2. Len(read) = n /\ \A i \in 1..n : read[i] = wire[i]
  <2>1. \A i \in 1..n : wire[i] \in Framing!Lines
    BY <1>1, ElementOfSeq
  <2> HIDE DEF n
  <2>2. Len(read) = IF 1 <= n THEN n - 1 + 1 ELSE 0
    BY <1>1, <2>1, SubSeqProperties
  <2>3. \A i \in 1..(n - 1 + 1) : read[i] = wire[1 + i - 1]
    BY <1>1, <2>1, SubSeqProperties
  <2> HIDE DEF read
  <2> QED
    BY <1>1, <2>2, <2>3
<1> HIDE DEF n, read
<1>3. Framing!LastLines(read) = Lasts(n)
  BY <1>1, <1>2 DEF Framing!LastLines, Lasts
<1>4. \A last \in Lasts(n) : Framing!FrameTo(read, last) = Framing!FrameTo(wire, last)
  <2> SUFFICES ASSUME NEW last \in Lasts(n)
               PROVE  Framing!FrameTo(read, last) = Framing!FrameTo(wire, last)
      OBVIOUS
  <2>1. last \in 1..n
    BY <1>1, LastsType, Zenon
  <2>2. last \in Nat /\ \A i \in 1..last : read[i] = wire[i]
    BY <1>1, <1>2, <2>1
  <2> QED
    BY <2>2, FrameSame
<1>5. Returned(n)
  BY DEF n
<1>6. \A T : Framing!Cardinality(T) = Cardinality(T)
  BY Zenon DEF Framing!Cardinality, Cardinality
<1>7. Framing!Frames(read, returned)
  BY <1>3, <1>4, <1>5, <1>6, Zenon DEF Framing!Frames, Returned
<1> QED
  BY <1>7 DEF n, read

\* A line that is not blank belongs to the message that is being read.
LEMMA FieldLineKeeps == FramingInv /\ Framing!FieldLine => FramingInv'
<1> SUFFICES ASSUME FramingInv, Framing!FieldLine PROVE FramingInv'
    OBVIOUS
<1>1. /\ Framing!TypeOK /\ wire \in Seq(Framing!Lines) /\ fields \in Framing!Fields
      /\ next \in 1..Len(wire) /\ Len(wire) \in Nat /\ next \in Nat
  BY LenProperties DEF FramingInv, Framing!FieldLine, Framing!HasLine, Framing!TypeOK
<1>2. /\ wire[next] # <<>> /\ result = "reading" /\ next' = next + 1
      /\ fields' = Append(fields, Framing!Field(wire[next]))
      /\ UNCHANGED <<wire, ending, returned, result>>
  BY DEF Framing!FieldLine, Framing!HasLine
<1>3. fields' = Framing!FrameTo(wire, next)
  <2>1. next - 1 \in 0..(Len(wire) - 1) /\ next - 1 + 1 = next
    BY <1>1
  <2>2. Framing!FrameTo(wire, next) = Append(Framing!FrameTo(wire, next - 1), Framing!Field(wire[next]))
    <3> DEFINE n == next - 1
    <3>1. n \in 0..(Len(wire) - 1) /\ n + 1 = next
      BY <2>1
    <3> HIDE DEF n
    <3>2. Framing!FrameTo(wire, n + 1) = Append(Framing!FrameTo(wire, n), Framing!Field(wire[n + 1]))
      BY <1>1, <1>2, <3>1, FrameGrows
    <3> QED
      BY <3>1, <3>2 DEF n
  <2> QED
    BY <1>2, <2>2 DEF FramingInv
<1>4. Lasts(next) = Lasts(next - 1)
  BY <1>1, <1>2 DEF Lasts
<1>5. Returned(next - 1)'
  <2>1. Returned(next)
    BY <1>4, Zenon DEF FramingInv, Returned
  <2>2. next' - 1 = next
    BY <1>1, <1>2
  <2> QED
    BY <1>2, <2>1, <2>2, ReturnedSame
<1>6. fields' \in Framing!Fields
  BY <1>1, <1>3, FrameType
<1>7. Framing!TypeOK'
  BY <1>1, <1>2, <1>6 DEF Framing!TypeOK
<1> QED
  BY <1>1, <1>2, <1>3, <1>5, <1>7 DEF FramingInv

\* A blank line completes the message that is being read, if any of it has been.
LEMMA BlankLineKeeps == FramingInv /\ Framing!BlankLine => FramingInv'
<1> SUFFICES ASSUME FramingInv, Framing!BlankLine PROVE FramingInv'
    OBVIOUS
<1> DEFINE n == next - 1
<1>1. /\ Framing!TypeOK /\ wire \in Seq(Framing!Lines) /\ fields \in Framing!Fields
      /\ returned \in Seq(Framing!Fields)
      /\ next \in 1..Len(wire) /\ Len(wire) \in Nat /\ next \in Nat
  BY LenProperties DEF FramingInv, Framing!BlankLine, Framing!HasLine, Framing!TypeOK
<1>2. /\ wire[next] = <<>> /\ result = "reading" /\ next' = next + 1 /\ fields' = <<>>
      /\ returned' = IF fields # <<>> THEN Append(returned, fields) ELSE returned
      /\ UNCHANGED <<wire, ending, result>>
  BY DEF Framing!BlankLine, Framing!HasLine, Framing!Complete
<1>3. n \in 0..Len(wire) /\ n \in Nat /\ n + 1 = next
  BY <1>1
<1>4. fields = Framing!FrameTo(wire, n) /\ Returned(n)
  BY <1>2 DEF FramingInv
<1> HIDE DEF n
<1>5. fields = <<>> <=> n = 0 \/ wire[n] = <<>>
  BY <1>1, <1>3, <1>4, FrameType
<1>6. Lasts(next) = IF fields # <<>> THEN Lasts(n) \cup {n} ELSE Lasts(n)
  <2>1. Lasts(next) = {i \in 1..n : wire[i] # <<>> /\ wire[i + 1] = <<>>}
    BY <1>3 DEF Lasts
  <2>2. CASE fields # <<>>
    <3>1. n \in 1..n /\ wire[n] # <<>> /\ wire[n + 1] = <<>>
      BY <1>2, <1>3, <1>5, <2>2
    <3>2. \A i \in 1..n : i \in 1..(n - 1) \/ i = n
      BY <1>3
    <3>3. \A i \in 1..(n - 1) : i \in 1..n
      BY <1>3
    <3> QED
      BY <2>1, <2>2, <3>1, <3>2, <3>3, Zenon DEF Lasts
  <2>3. CASE fields = <<>>
    <3>1. \A i \in 1..n : wire[i] # <<>> => i \in 1..(n - 1)
      BY <1>3, <1>5, <2>3
    <3>2. \A i \in 1..(n - 1) : i \in 1..n
      BY <1>3
    <3> QED
      BY <2>1, <2>3, <3>1, <3>2, Zenon DEF Lasts
  <2> QED
    BY <2>2, <2>3
<1>7. Returned(next - 1)'
  <2>1. CASE fields = <<>>
    <3>1. UNCHANGED <<wire, returned>> /\ next' - 1 = next
      BY <1>1, <1>2, <2>1
    <3>2. Returned(next)
      BY <1>4, <1>6, <2>1, Zenon DEF Returned
    <3> QED
      BY <3>1, <3>2, ReturnedSame
  <2>2. CASE fields # <<>>
    <3>1. /\ IsFiniteSet(Lasts(n)) /\ Cardinality(Lasts(n)) \in Nat /\ n \notin Lasts(n)
          /\ \A last \in Lasts(n) : last \in 1..(n - 1)
      BY <1>3, LastsType DEF Lasts
    <3>2. Cardinality(Lasts(next)) = Len(returned) + 1
      BY <1>4, <1>6, <2>2, <3>1, FS_AddElement DEF Returned
    <3>3. returned' = Append(returned, fields) /\ Len(returned') = Len(returned) + 1
      BY <1>1, <1>2, <2>2, AppendProperties
    <3>4. ASSUME NEW last \in Lasts(n)
          PROVE  returned'[Cardinality(Lasts(next) \cap 1..last)] = Framing!FrameTo(wire, last)
      <4>1. Lasts(next) \cap 1..last = Lasts(n) \cap 1..last
        <5>1. n \notin 1..last
          BY <1>3, <3>1
        <5> QED
          BY <1>6, <2>2, <5>1
      <4>2. Cardinality(Lasts(n) \cap 1..last) \in 1..Len(returned)
        BY <1>3, <1>4, LastsType DEF Returned
      <4>3. returned'[Cardinality(Lasts(n) \cap 1..last)] = returned[Cardinality(Lasts(n) \cap 1..last)]
        BY <1>1, <3>3, <4>2, AppendProperties
      <4> QED
        BY <1>4, <4>1, <4>3 DEF Returned
    <3>5. returned'[Cardinality(Lasts(next) \cap 1..n)] = Framing!FrameTo(wire, n)
      <4>1. Lasts(next) \cap 1..n = Lasts(next)
        BY <1>3 DEF Lasts
      <4>2. returned'[Len(returned) + 1] = fields
        BY <1>1, <3>3, AppendProperties
      <4> QED
        BY <1>4, <3>2, <4>1, <4>2
    <3>6. \A last \in Lasts(next) :
             returned'[Cardinality(Lasts(next) \cap 1..last)] = Framing!FrameTo(wire, last)
      BY <1>6, <2>2, <3>4, <3>5
    <3>7. Lasts(next - 1)' = Lasts(next)
      <4>1. next' - 1 = next
        BY <1>1, <1>2
      <4> QED
        BY <1>2, <4>1 DEF Lasts
    <3>8. \A last : Framing!FrameTo(wire, last)' = Framing!FrameTo(wire, last)
      BY <1>2, Zenon DEF Framing!FrameTo
    <3> QED
      BY <3>2, <3>3, <3>6, <3>7, <3>8, Zenon DEF Returned
  <2> QED
    BY <2>1, <2>2
<1>8. fields' = Framing!FrameTo(wire, next)
  BY <1>1, <1>2, FrameType
<1>9. Framing!TypeOK'
  <2>1. returned' \in Seq(Framing!Fields)
    BY <1>1, <1>2, AppendProperties
  <2>2. fields' \in Framing!Fields
    BY <1>2, EmptySeq DEF Framing!Fields
  <2> QED
    BY <1>1, <1>2, <2>1, <2>2 DEF Framing!TypeOK
<1>10. (fields = Framing!FrameTo(wire, next - 1))'
  <2>1. next' - 1 = next
    BY <1>1, <1>2
  <2> QED
    BY <1>2, <1>8, <2>1
<1> QED
  BY <1>2, <1>7, <1>9, <1>10 DEF FramingInv

\* The end of the stream drops what is left of a message, and says so.
LEMMA StreamEndsKeeps == FramingInv /\ Framing!StreamEnds => FramingInv'
<1> SUFFICES ASSUME FramingInv, Framing!StreamEnds PROVE FramingInv'
    OBVIOUS
<1>1. /\ Framing!TypeOK /\ wire \in Seq(Framing!Lines) /\ Len(wire) \in Nat
      /\ result = "reading" /\ next = Len(wire) + 1
      /\ result' = Framing!CutOff /\ fields' = <<>> /\ UNCHANGED <<wire, ending, next, returned>>
  BY LenProperties DEF FramingInv, Framing!StreamEnds, Framing!TypeOK
<1>2. fields = <<>> <=> wire = <<>> \/ wire[Len(wire)] = <<>>
  <2> DEFINE n == next - 1
  <2>1. n = Len(wire) /\ n \in 0..Len(wire)
    BY <1>1
  <2>2. fields = Framing!FrameTo(wire, n)
    BY <1>1 DEF FramingInv
  <2> HIDE DEF n
  <2>3. fields = <<>> <=> n = 0 \/ wire[n] = <<>>
    BY <1>1, <2>1, <2>2, FrameType
  <2>4. n = 0 <=> wire = <<>>
    BY <1>1, <2>1, EmptySeq
  <2> QED
    BY <2>1, <2>3, <2>4
<1>3. result' \in {"EOF", "ErrUnexpectedEOF", "error"} /\ (result' = "EOF" <=> ending = "clean" /\ fields = <<>>)
  BY <1>1 DEF Framing!CutOff
<1>4. Returned(next - 1)'
  BY <1>1, ReturnedSame DEF FramingInv
<1>5. Framing!TypeOK'
  BY <1>1, <1>3, EmptySeq DEF Framing!TypeOK, Framing!Fields
<1> QED
  BY <1>1, <1>2, <1>3, <1>4, <1>5 DEF FramingInv

\* Every step keeps it, whichever part runs.
LEMMA NextFramingInv == FramingInv /\ [NextInputs]_allVars => FramingInv'
<1> SUFFICES ASSUME FramingInv, [NextInputs]_allVars PROVE FramingInv'
    OBVIOUS
<1>1. Framing!Next \/ UNCHANGED Framing!vars
  BY DEF NextInputs, allVars, AllEnded, framing, Framing!vars
<1>2. CASE UNCHANGED Framing!vars
  <2>1. UNCHANGED <<wire, ending, next, fields, returned, result>>
    BY <1>2 DEF Framing!vars
  <2>2. Returned(next - 1)'
    BY <2>1, ReturnedSame DEF FramingInv
  <2>3. Framing!TypeOK'
    BY <2>1 DEF FramingInv, Framing!TypeOK
  <2>4. Framing!FrameTo(wire, next - 1)' = Framing!FrameTo(wire, next - 1)
    BY <2>1, Zenon DEF Framing!FrameTo
  <2> QED
    BY <2>1, <2>2, <2>3, <2>4 DEF FramingInv
<1> QED
  BY <1>1, <1>2, FieldLineKeeps, BlankLineKeeps, StreamEndsKeeps, Zenon DEF Framing!Next

\* Nothing has been read at the start.
LEMMA InitFramingInv == InitInputs => FramingInv
<1> SUFFICES ASSUME InitInputs PROVE FramingInv
    OBVIOUS
<1>1. \E n \in Nat, how \in {"clean", "partial", "failure"} :
         \E lines \in [1..n -> Framing!Lines] : Framing!Start(lines, how)
  <2>1. CASE part = "framing"
    <3>1. 0..MaxLines \subseteq Nat
      BY InputsAssumption
    <3>2. Framing!Init
      BY <2>1, Zenon DEF InitInputs
    <3> QED
      BY <3>1, <3>2, Zenon DEF Framing!Init
  <2>2. CASE part # "framing"
    <3>1. Framing!Start(<<>>, "clean")
      BY <2>2, Zenon DEF InitInputs
    <3>2. <<>> \in [1..0 -> Framing!Lines] /\ 0 \in Nat
      OBVIOUS
    <3> QED
      BY <3>1, <3>2, Zenon
  <2> QED
    BY <2>1, <2>2, Zenon
<1>2. PICK n \in Nat, how \in {"clean", "partial", "failure"} :
         \E lines \in [1..n -> Framing!Lines] : Framing!Start(lines, how)
  BY <1>1, Zenon
<1>3. PICK lines \in [1..n -> Framing!Lines] : Framing!Start(lines, how)
  BY <1>2, Zenon
<1>4. wire = lines /\ ending = how /\ next = 1 /\ fields = <<>> /\ returned = <<>> /\ result = "reading"
  BY <1>3, Zenon DEF Framing!Start
<1>5. wire \in Seq(Framing!Lines) /\ Len(wire) \in Nat
  <2>1. wire \in Seq(Framing!Lines)
    BY <1>4, SeqDef, Zenon
  <2> QED
    BY <2>1, LenProperties
<1>6. Framing!TypeOK
  BY <1>4, <1>5, EmptySeq DEF Framing!TypeOK, Framing!Fields
<1>7. Lasts(0) = {} /\ next - 1 = 0
  BY <1>4 DEF Lasts
<1>8. Returned(0)
  BY <1>4, <1>7, FS_EmptySet, EmptySeq DEF Returned
<1>9. fields = Framing!FrameTo(wire, 0)
  BY <1>4, <1>5, FrameType
<1> QED
  BY <1>4, <1>6, <1>7, <1>8, <1>9 DEF FramingInv

\* Wherever the stream ends, exactly the messages that were complete have been
\* returned, and a clean EOF means that no part of one is dropped.
THEOREM FramingCorrect == SpecInputs => []FramesIntact
<1>1. FramingInv => FramesIntact
  BY FramesMeansReturned, Zenon DEF FramingInv, FramesIntact, Framing!FramesIntact
<1> QED
  BY <1>1, InitFramingInv, NextFramingInv, PTL DEF SpecInputs

-----------------------------------------------------------------------------
(* The metrics, and all the parts together *)

\* A phase that another part's behaviour leaves at rest keeps the metrics' invariant.
LEMMA InitMetricsInv == InitInputs => MetricsInv
<1> SUFFICES ASSUME InitInputs PROVE MetricsInv
  OBVIOUS
<1>1. CASE part = "metrics"
  BY <1>1, MetricsInit, Zenon DEF InitInputs
<1>2. CASE part # "metrics"
  <2>1. /\ phase = "core" /\ status = "done" /\ taken = <<>>
        /\ groups = NoGroups /\ linkedids = {} /\ sent = <<>>
    BY <1>2, Zenon DEF InitInputs
  <2>2. DOMAIN taken = {} /\ DOMAIN sent = {}
    BY <2>1
  <2>3. TypeOK
    <3>1. groups \in [DOMAIN groups -> Nat \ {0}] /\ DOMAIN groups = {}
      BY <2>1 DEF NoGroups
    <3>2. phase \in Phases
      BY <2>1 DEF Phases
    <3> QED
      BY <2>1, <3>1, <3>2 DEF TypeOK
  <2>4. RowsMatch /\ SentByRows /\ GroupsCount /\ CallsSeen /\ SeriesUnique /\ CallsCountedOnce
    BY <2>1, <2>2 DEF RowsMatch, SentByRows, GroupsCount, CallsSeen, SeriesUnique, CallsCountedOnce
  <2>5. GroupsAgree
    <3>1. DOMAIN PeerLabels = {} /\ DOMAIN EndpointLabels = {} /\ \A d : Sent(d) = {}
      BY <2>2 DEF PeerLabels, EndpointLabels, Sent
    <3>2. Counts("peers", PeerLabels) /\ Counts("endpoints", EndpointLabels)
      BY <3>1, Zenon DEF Counts
    <3> QED
      BY <2>1, <3>2 DEF GroupsAgree
  <2> QED
    BY <2>3, <2>4, <2>5, Zenon DEF MetricsInv
<1> QED
  BY <1>1, <1>2

\* No other part changes what the metrics are made of.
LEMMA NextMetricsInv == MetricsInv /\ [NextInputs]_allVars => MetricsInv'
<1> SUFFICES ASSUME MetricsInv, [NextInputs]_allVars PROVE [Next]_vars
  BY MetricsNext
<1> QED
  BY Zenon DEF NextInputs, AllEnded, allVars

\* Every variable of every part stays inside its type.
THEOREM InputsTypeCorrect == SpecInputs => []TypeOKInputs
<1> DEFINE PartOK == part \in Parts
           All == PartOK /\ MetricsInv /\ FramingInv /\ ParserInv /\ ConfigInv
<1>1. InitInputs => All
  <2>1. InitInputs => PartOK
    BY Zenon DEF InitInputs
  <2> QED
    BY <2>1, InitMetricsInv, InitFramingInv, InitParserInv, InitConfigInv, Zenon
<1>2. All /\ [NextInputs]_allVars => All'
  <2>1. PartOK /\ [NextInputs]_allVars => PartOK'
    BY Zenon DEF NextInputs, AllEnded, allVars
  <2> QED
    BY <2>1, NextMetricsInv, NextFramingInv, NextParserInv, NextConfigInv, Zenon
<1>3. All => TypeOKInputs
  BY Zenon DEF MetricsInv, FramingInv, ParserInv, ConfigInv, TypeOKInputs
<1> HIDE DEF All
<1> QED
  BY <1>1, <1>2, <1>3, PTL DEF SpecInputs

\* In whatever is run beside them, the phases of the scrape keep what is promised
\* of them.
THEOREM InputsMetricsCorrect == SpecInputs => [](SeriesUnique /\ GroupsAgree /\ CallsCountedOnce)
<1>1. MetricsInv => SeriesUnique /\ GroupsAgree /\ CallsCountedOnce
  BY Zenon DEF MetricsInv
<1> QED
  BY <1>1, InitMetricsInv, NextMetricsInv, PTL DEF SpecInputs
=============================================================================
