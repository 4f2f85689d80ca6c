---------------------------- MODULE ConfigRules ----------------------------
(***************************************************************************)
(* The configuration of the three programs (internal/config): hgbuild      *)
(* config init writes an example file, config show loads one over the      *)
(* defaults, every hgbuild command checks the settings its flags make, and *)
(* Validate accepts a configuration or names the first setting that is     *)
(* wrong.                                                                  *)
(*                                                                         *)
(* A setting is named by its key in the file.  Durations are milliseconds, *)
(* the sampling rate counts tenths.  The key "undecodable" stands for any  *)
(* setting whose value is not of its type.                                 *)
(***************************************************************************)
EXTENDS Integers, Sequences, SequencesExt, FiniteSets

CONSTANTS
  FileSettings,   \* [keys -> the values an editor may give them in a file]
  FlagSets,       \* the settings hgbuild's flags may make, as functions
  StartFiles,     \* the settings already in the file, as functions
  MaxEdits        \* bound on the settings added to them

\* DefaultConfig.  TLS has no defaults: the zero values.
DefaultConfig ==
  [ coordinator_grpc_port |-> 9000, coordinator_http_port |-> 8080,
    worker_port |-> 9001, worker_max_parallel |-> 4,
    worker_timeout |-> 300000, worker_heartbeat_sec |-> 30,
    client_timeout |-> 30000,
    cache_enable |-> TRUE, cache_max_size_mb |-> 1024, cache_ttl_hours |-> 168,
    cache_dir |-> "~/.cache/hybridgrid",
    log_level |-> "info", log_format |-> "console", log_file |-> "",
    log_rotation_max_size_mb |-> 100, log_rotation_max_backups |-> 3,
    log_rotation_max_age_days |-> 28,
    tls_enabled |-> FALSE, tls_cert_file |-> "", tls_key_file |-> "",
    tls_client_ca |-> "", tls_require_client_cert |-> FALSE,
    tracing_enable |-> FALSE, tracing_endpoint |-> "localhost:4317",
    tracing_sample_rate |-> 1 ]

Keys == DOMAIN DefaultConfig
SwitchKeys == {"cache_enable", "tls_enabled", "tls_require_client_cert", "tracing_enable"}
TextKeys == {"cache_dir", "log_level", "log_format", "log_file", "tls_cert_file",
             "tls_key_file", "tls_client_ca", "tracing_endpoint"}
FlagKeys == {"client_timeout", "tls_cert_file", "tls_key_file", "tls_client_ca",
             "tracing_enable", "tracing_endpoint", "tracing_sample_rate"}

\* A value of the type the setting is decoded into.
IsValue(key, v) ==
  /\ key \in SwitchKeys => v \in BOOLEAN
  /\ key \in TextKeys => v \in STRING
  /\ key \in Keys \ (SwitchKeys \cup TextKeys) => v \in Int

IsSettings(s, keys) == DOMAIN s \subseteq keys /\ \A k \in DOMAIN s : IsValue(k, s[k])

ASSUME ConfigAssumption ==
  /\ DOMAIN FileSettings \subseteq Keys \cup {"undecodable"}
  /\ \A k \in DOMAIN FileSettings : \A v \in FileSettings[k] : IsValue(k, v)
  /\ \A s \in StartFiles : IsSettings(s, Keys)
  /\ \A f \in FlagSets : IsSettings(f, FlagKeys)
  /\ MaxEdits \in Nat

CoordinatorKeys == {"coordinator_grpc_port", "coordinator_http_port"}

\* The file WriteExample writes: the defaults, except that the worker counts its
\* processors itself; the log file and the TLS files are comments.
Example ==
  [k \in Keys \ {"log_file", "tls_cert_file", "tls_key_file", "tls_client_ca",
                  "tls_require_client_cert"} |->
     IF k = "worker_max_parallel" THEN 0 ELSE DefaultConfig[k]]

Missing == [missing |-> TRUE]
NoConfig == [status |-> "none"]

VARIABLES
  configFiles,   \* [places -> settings]: "flag" is the file --config names,
                 \* "init" ~/.hybridgrid/config.yaml, "search" the first of
                 \* ./, ~/.config/hybridgrid, /etc/hybridgrid that has a file
  envSet,        \* HG_COORDINATOR is set
  edits,         \* the settings added by hand
  loaded,        \* what the last command made of its configuration
  verdict        \* the setting Validate names, "ok" if it accepts

configVars == <<configFiles, envSet, edits, loaded, verdict>>

ConfigInit ==
  /\ configFiles \in {[p \in {"flag", "init", "search"} |->
                         IF p = at THEN s ELSE Missing] :
                        at \in {"flag", "search"}, s \in StartFiles}
  /\ envSet \in BOOLEAN
  /\ edits = 0
  /\ loaded = NoConfig
  /\ verdict = "none"

-----------------------------------------------------------------------------

\* viper's merge: the file's settings replace the defaults.  AutomaticEnv with
\* the prefix HG takes HG_COORDINATOR for the whole coordinator section and hides
\* the section's settings in the file.
Merge(settings) ==
  [k \in Keys |-> IF k \in DOMAIN settings /\ ~(envSet /\ k \in CoordinatorKeys)
                  THEN settings[k] ELSE DefaultConfig[k]]

\* Load: no file in the search path is fine, a missing file that was named is
\* not, nor one with a value of the wrong type.
Load(place) ==
  LET s == configFiles[place]
  IN IF s = Missing
     THEN IF place = "search" THEN [status |-> "loaded", cfg |-> DefaultConfig]
                              ELSE [status |-> "unreadable"]
     ELSE IF "undecodable" \in DOMAIN s THEN [status |-> "unreadable"]
     ELSE [status |-> "loaded", cfg |-> Merge(s)]

-----------------------------------------------------------------------------

\* One check of a Validate method: nothing, or the setting its error names.
Check(key, ok) == IF ok THEN <<>> ELSE <<key>>

MaxPort == 65535
IsPort(p) == p \in 1..MaxPort
Second == 1000

\* The ports are checked one by one, and may coincide.
CoordinatorChecksEach(c) ==
  Check("coordinator_grpc_port", IsPort(c.coordinator_grpc_port))
  \o Check("coordinator_http_port", IsPort(c.coordinator_http_port))

CoordinatorChecks(c) ==
  Check("coordinator_grpc_port", IsPort(c.coordinator_grpc_port))
  \o Check("coordinator_http_port", IsPort(c.coordinator_http_port))
  \o Check("coordinator_grpc_port", c.coordinator_grpc_port # c.coordinator_http_port)

WorkerChecks(c) ==
  Check("worker_port", IsPort(c.worker_port))
  \o Check("worker_max_parallel", c.worker_max_parallel >= 0)
  \o Check("worker_timeout", c.worker_timeout >= 0)
  \o Check("worker_timeout", ~(c.worker_timeout > 0 /\ c.worker_timeout < Second))
  \o Check("worker_heartbeat_sec", c.worker_heartbeat_sec >= 0)

ClientChecks(c) ==
  Check("client_timeout", c.client_timeout >= 0)
  \o Check("client_timeout", ~(c.client_timeout > 0 /\ c.client_timeout < Second))

CacheChecks(c) ==
  IF ~c.cache_enable THEN <<>>
  ELSE Check("cache_max_size_mb", c.cache_max_size_mb > 0)
       \o Check("cache_ttl_hours", c.cache_ttl_hours > 0)
       \o Check("cache_dir", c.cache_dir # "")

RotationChecks(c) ==
  IF c.log_file = "" THEN <<>>
  ELSE Check("log_rotation_max_size_mb", c.log_rotation_max_size_mb > 0)
       \o Check("log_rotation_max_backups", c.log_rotation_max_backups >= 0)
       \o Check("log_rotation_max_age_days", c.log_rotation_max_age_days > 0)

LogChecks(c) ==
  Check("log_level", c.log_level \in {"debug", "info", "warn", "error", "fatal"})
  \o Check("log_format", c.log_format \in {"console", "json"})
  \o RotationChecks(c)

TLSChecks(c) ==
  IF ~c.tls_enabled THEN <<>>
  ELSE Check("tls_cert_file", c.tls_cert_file # "")
       \o Check("tls_key_file", c.tls_key_file # "")
       \o Check("tls_client_ca", ~(c.tls_require_client_cert /\ c.tls_client_ca = ""))

TracingChecks(c) ==
  IF ~c.tracing_enable THEN <<>>
  ELSE Check("tracing_endpoint", c.tracing_endpoint # "")
       \o Check("tracing_sample_rate", c.tracing_sample_rate \in 0..10)

\* The first error is returned.
FirstError(errors) == IF errors = <<>> THEN "ok" ELSE Head(errors)

Validate(c) ==
  FirstError(CoordinatorChecks(c) \o WorkerChecks(c) \o ClientChecks(c)
             \o CacheChecks(c) \o LogChecks(c) \o TLSChecks(c) \o TracingChecks(c))

-----------------------------------------------------------------------------

\* An editor adds or changes a setting of a file that is there.
Edit(place, key, value) ==
  /\ edits < MaxEdits /\ configFiles[place] # Missing
  /\ edits' = edits + 1
  /\ configFiles' = [configFiles EXCEPT
       ![place] = [k \in DOMAIN @ \cup {key} |-> IF k = key THEN value ELSE @[k]]]
  /\ loaded' = NoConfig /\ verdict' = "none"
  /\ UNCHANGED envSet

\* hgbuild config init: the example replaces the file --config names or the one
\* in ~/.hybridgrid, where config show does not look.
WriteExample(place) ==
  /\ place \in {"flag", "init"} /\ configFiles[place] # Example
  /\ configFiles' = [configFiles EXCEPT ![place] = Example]
  /\ loaded' = NoConfig /\ verdict' = "none"
  /\ UNCHANGED <<envSet, edits>>

\* hgbuild config show, with or without --config: a configuration that cannot be
\* loaded is shown as the defaults.
ConfigShow(place) ==
  /\ place \in {"flag", "search"} /\ loaded = NoConfig
  /\ LET r == Load(place)
         c == IF r.status = "loaded" THEN r.cfg ELSE DefaultConfig
     IN /\ loaded' = [status |-> r.status, place |-> place, cfg |-> c]
        /\ verdict' = Validate(c)
  /\ UNCHANGED <<configFiles, envSet, edits>>

\* PersistentPreRunE: TLS is enabled by any of its file flags; the client, the
\* TLS and the tracing section are validated.
FlagConfig(flags) ==
  LET c == [k \in Keys |-> IF k \in DOMAIN flags THEN flags[k] ELSE DefaultConfig[k]]
  IN [c EXCEPT !.tls_enabled = c.tls_cert_file # "" \/ c.tls_key_file # ""
                               \/ c.tls_client_ca # ""]

PreRun(flags) ==
  /\ loaded = NoConfig /\ edits = 0
  /\ LET c == FlagConfig(flags)
     IN /\ loaded' = [status |-> "flags", place |-> "flags", cfg |-> c]
        /\ verdict' = FirstError(ClientChecks(c) \o TLSChecks(c) \o TracingChecks(c))
  /\ UNCHANGED <<configFiles, envSet, edits>>

ConfigNext ==
  \/ \E place \in {"flag", "search"}, k \in DOMAIN FileSettings :
       \E v \in FileSettings[k] : Edit(place, k, v)
  \/ \E place \in {"flag", "init"} : WriteExample(place)
  \/ \E place \in {"flag", "search"} : ConfigShow(place)
  \/ \E f \in FlagSets : PreRun(f)

ConfigSpec == ConfigInit /\ [][ConfigNext]_configVars

-----------------------------------------------------------------------------

\* A duration the programs can wait for, or none at all.
Waitable(ms) == ms = 0 \/ ms >= Second

\* What a coordinator, a worker and a client need to run with a configuration.
Usable(c) ==
  /\ c.coordinator_grpc_port \in 1..MaxPort /\ c.coordinator_http_port \in 1..MaxPort
  /\ Cardinality({c.coordinator_grpc_port, c.coordinator_http_port}) = 2
  /\ c.worker_port \in 1..MaxPort /\ c.worker_max_parallel >= 0
  /\ Waitable(c.worker_timeout) /\ Waitable(c.client_timeout)
  /\ c.worker_heartbeat_sec >= 0
  /\ c.cache_enable => /\ c.cache_max_size_mb > 0 /\ c.cache_ttl_hours > 0
                       /\ c.cache_dir # ""
  /\ c.log_level \in {"debug", "info", "warn", "error", "fatal"}
  /\ c.log_format \in {"console", "json"}
  /\ c.log_file # "" => /\ c.log_rotation_max_size_mb > 0
                        /\ c.log_rotation_max_backups >= 0
                        /\ c.log_rotation_max_age_days > 0
  /\ c.tls_enabled => c.tls_cert_file # "" /\ c.tls_key_file # ""
  /\ c.tls_require_client_cert /\ c.tls_enabled => c.tls_client_ca # ""
  /\ c.tracing_enable => c.tracing_endpoint # "" /\ c.tracing_sample_rate <= 10
                         /\ c.tracing_sample_rate >= 0

\* The settings without which the setting key could not be wrong: those of the
\* file that make the section matter.
Causes(key) ==
  {key} \cup CASE key = "coordinator_grpc_port" -> {"coordinator_http_port"}
               [] key \in {"tls_cert_file", "tls_key_file"} -> {"tls_enabled"}
               [] key = "tls_client_ca" -> {"tls_require_client_cert"}
               [] OTHER -> {}

\* Load followed by Validate judges the configuration that is in force and blames
\* the file alone.  A configuration of a file is accepted exactly when the
\* programs can run with it, also when a setting collides with a default; the
\* example file is accepted; the setting named by an error was made by the file,
\* or follows from one it made, and without those settings the error is gone; and
\* hgbuild's own check of its flags accepts no timeout or pair of certificate and
\* key that Validate would refuse.
ConfigAccepted ==
  verdict # "none" =>
    /\ loaded.status # "flags" => ((verdict = "ok") <=> Usable(loaded.cfg))
    /\ loaded.status = "flags" /\ verdict = "ok" => Usable(loaded.cfg)
    /\ loaded.status = "unreadable" => verdict = "ok"
    /\ loaded.status = "loaded" =>
         LET s == configFiles[loaded.place]
             without(ks) == [k \in DOMAIN s \ ks |-> s[k]]
         IN /\ s = Missing \/ s = Example => verdict = "ok"
            /\ verdict # "ok" => /\ Causes(verdict) \cap DOMAIN s # {}
                                 /\ Validate(Merge(without(Causes(verdict)))) # verdict

=============================================================================
