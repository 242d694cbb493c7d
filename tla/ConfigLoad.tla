------------------------------ MODULE ConfigLoad ------------------------------
(***************************************************************************)
(* From the environment and the command line to a serving exporter: Load,  *)
(* applyEnv and validate (internal/config/config.go), and the routes that  *)
(* run (cmd/freepbx-exporter/main.go) registers before it listens.         *)
(*                                                                         *)
(* One setting stands for all of its kind: username for the strings that   *)
(* must not be empty, pjsip for the switches, level for the words of a     *)
(* list; timeout and path are alone.  "" is an unset variable or an empty  *)
(* value; "bad" is neither a duration nor a truth value.  The paths are    *)
(* one of each kind that http.ServeMux (Go 1.25) tells apart.              *)
(***************************************************************************)
EXTENDS Integers, Sequences
Sets == INSTANCE FiniteSetsExt

CONSTANTS MaxArgs   \* bound: command-line arguments

VARIABLES
    env,        \* what each setting's environment variable holds
    args,       \* the command line: <<setting, value>>, or a word that is no flag
    arg,        \* the argument to parse next
    cfg,
    place       \* "env", "flags", "validate", "routes"; "serving", "refused", "crashed"

vars == <<env, args, arg, cfg, place>>

Settings == {"username", "timeout", "path", "pjsip", "level"}
Defaults == [username |-> "", timeout |-> "10s", path |-> "/metrics",
             pjsip |-> "off", level |-> "info"]

EnvValues == [username |-> {"", "me"}, timeout |-> {"", "bad", "5s"},
              path |-> {"", "stats", "/"}, pjsip |-> {"", "bad", "on"},
              level |-> {"", "loud"}]
FlagValues == [username |-> {"", "you"}, timeout |-> {"bad", "0s", "2s"},
               path |-> {"", "/stats", "/healthz", "/{x}", "/{p...}", "/{x", "/a b", "/x//y"},
               pjsip |-> {"bad", "off"}, level |-> {"debug"}]
Envs == [username : EnvValues.username, timeout : EnvValues.timeout, path : EnvValues.path,
         pjsip : EnvValues.pjsip, level : EnvValues.level]
Word == <<"word">>
Arguments == {Word} \cup UNION {{s} \X FlagValues[s] : s \in Settings}

Start(e, as) == env = e /\ args = as /\ arg = 1 /\ cfg = Defaults /\ place = "env"

Init == \E e \in Envs, n \in 0..MaxArgs : \E as \in [1..n -> Arguments] : Start(e, as)

-----------------------------------------------------------------------------
\* time.ParseDuration and strconv.ParseBool; any text is a string.
Parses(s, v) == s \in {"timeout", "pjsip"} => v # "bad"

\* A variable that is empty, or does not parse, counts for nothing.
EnvCounts(s) == env[s] # "" /\ Parses(s, env[s])

Applied(s) == IF EnvCounts(s) THEN env[s] ELSE cfg[s]

\* Registering a flag assigns its default, which is what applyEnv left there.
FlagDefaultAnew(s) == Defaults[s]
FlagDefault(s) == Applied(s)

ApplyEnv ==
    /\ place = "env"
    /\ place' = "flags"
    /\ cfg' = [s \in Settings |-> FlagDefault(s)]
    /\ UNCHANGED <<env, args, arg>>

\* fs.Parse takes the flags in order, fails at the first that does not parse ...
TakeFlag ==
    /\ place = "flags" /\ arg <= Len(args) /\ args[arg] # Word
    /\ IF Parses(args[arg][1], args[arg][2])
         THEN /\ cfg' = [cfg EXCEPT ![args[arg][1]] = args[arg][2]]
              /\ arg' = arg + 1
              /\ UNCHANGED place
         ELSE place' = "refused" /\ UNCHANGED <<arg, cfg>>
    /\ UNCHANGED <<env, args>>

\* ... and stops at the first word that is no flag: what follows, the value of a
\* switch given as a word of its own included, is dropped without an error.
TakeWord ==
    /\ place = "flags" /\ arg <= Len(args) /\ args[arg] = Word
    /\ arg' = Len(args) + 1
    /\ UNCHANGED <<env, args, cfg, place>>

FlagsEnd ==
    /\ place = "flags" /\ arg > Len(args)
    /\ place' = "validate"
    /\ UNCHANGED <<env, args, arg, cfg>>

Valid(c) ==
    /\ c.username # "" /\ c.timeout # "0s"
    /\ c.path \notin {"", "stats"}      \* it starts with a slash
    /\ c.level # "loud"

Validate ==
    /\ place = "validate"
    /\ place' = IF Valid(cfg) THEN "routes" ELSE "refused"
    /\ UNCHANGED <<env, args, arg, cfg>>

\* http.ServeMux.  It serves clean paths and redirects the others to them ...
Requests == {"/", "/healthz", "/metrics", "/stats", "/stats/now"}

\* ... takes what stands before a blank for a method, and a brace for a wildcard ...
WellFormed(pattern) == pattern \notin {"/{x", "/a b"}

Matches(pattern) ==
    CASE pattern \in {"/", "/{p...}"} -> Requests
      [] pattern = "/{x}" -> Requests \ {"/", "/stats/now"}
      [] OTHER -> Requests \cap {pattern}

\* ... and panics on a pattern that overlaps one it has, neither being the narrower.
Narrower(p, q) == Matches(p) \subseteq Matches(q) /\ Matches(p) # Matches(q)
Conflict(p, q) == Matches(p) \cap Matches(q) # {} /\ ~Narrower(p, q) /\ ~Narrower(q, p)

OwnRoutes == {"/healthz", "/"}

\* The telemetry path is registered first, then the exporter's own.
Registers(path) == WellFormed(path) /\ \A own \in OwnRoutes : ~Conflict(own, path)

Routes ==
    /\ place = "routes"
    /\ place' = IF Registers(cfg.path) THEN "serving" ELSE "crashed"
    /\ UNCHANGED <<env, args, arg, cfg>>

Next == ApplyEnv \/ TakeFlag \/ TakeWord \/ FlagsEnd \/ Validate \/ Routes

-----------------------------------------------------------------------------
(* Properties *)

Texts == UNION {EnvValues[s] \cup FlagValues[s] \cup {Defaults[s]} : s \in Settings}

TypeOK ==
    /\ env \in Envs /\ args \in Seq(Arguments) /\ arg \in 1..(Len(args) + 1)
    /\ cfg \in [Settings -> Texts]
    /\ place \in {"env", "flags", "validate", "routes", "serving", "refused", "crashed"}

\* The flags that count: those before any other word.
Given(s) == {i \in DOMAIN args : args[i][1] = s /\ \A j \in 1..i : args[j] # Word}
Resolved(s) ==
    CASE Given(s) # {} -> args[Sets!Max(Given(s))][2]
      [] Given(s) = {} /\ env[s] \notin {"", "bad"} -> env[s]
      [] OTHER -> Defaults[s]
Configured == [s \in Settings |-> Resolved(s)]
Unparsable == \E s \in {"timeout", "pjsip"} : \E i \in Given(s) : args[i][2] = "bad"

\* The paths that Load accepts and the mux does not: no pattern, or the whole of
\* what one of the exporter's own routes serves.
Fatal == {"/{x", "/a b", "/healthz", "/", "/{p...}"}

\* Where a request goes: to the narrowest pattern.
Goes(request, pattern) ==
    /\ request \in Matches(pattern)
    /\ \A p \in OwnRoutes \cup {cfg.path} : request \in Matches(p) => p = pattern \/ Narrower(pattern, p)
RoutesKept == \A own \in OwnRoutes : Goes(own, own)
MetricsExposed == Goes(cfg.path, cfg.path)

\* README.md: "flags win on conflict".  The exporter serves only under a
\* configuration in which the last flag of each setting wins over its variable,
\* and that over the default, and which is valid; it refuses to start only if
\* that configuration is invalid or a flag does not parse; it dies, after all
\* checks have passed, of exactly the telemetry paths the mux does not take; and
\* when it serves, no telemetry path has taken /healthz or the index page away,
\* and one without braces gives the metrics, unless it is not a clean path.
StartsAsConfigured ==
    /\ place \in {"serving", "crashed"} =>
          /\ cfg = Configured /\ Valid(cfg) /\ ~Unparsable
          /\ place = "crashed" <=> cfg.path \in Fatal
    /\ place = "refused" => Unparsable \/ ~Valid(Configured)
    /\ place = "serving" => RoutesKept /\ (cfg.path \notin {"/{x}", "/x//y"} => MetricsExposed)
=============================================================================
