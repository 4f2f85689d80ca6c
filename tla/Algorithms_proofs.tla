-------------------------- MODULE Algorithms_proofs --------------------------
(***************************************************************************)
(* Theorems about the computations without a protocol: the configuration   *)
(* rules, for any settings in files and flags, the dependency graph, for   *)
(* Makefiles and compilation databases of any length, and mobile builds,   *)
(* for any orders, trees of files and machines.                            *)
(***************************************************************************)
EXTENDS ConfigRules, DepGraph, MobileBuilds, DataLemmas

-----------------------------------------------------------------------------
(***************************************************************************)
(* Configurations.  Validate returns the first of a list of errors; the    *)
(* lemmas say which settings the errors of each section name.              *)
(***************************************************************************)

LEMMA KeysAre ==
  Keys = {"coordinator_grpc_port", "coordinator_http_port", "worker_port", "worker_max_parallel",
          "worker_timeout", "worker_heartbeat_sec", "client_timeout", "cache_enable",
          "cache_max_size_mb", "cache_ttl_hours", "cache_dir", "log_level", "log_format", "log_file",
          "log_rotation_max_size_mb", "log_rotation_max_backups", "log_rotation_max_age_days",
          "tls_enabled", "tls_cert_file", "tls_key_file", "tls_client_ca", "tls_require_client_cert",
          "tracing_enable", "tracing_endpoint", "tracing_sample_rate"}
BY DEF Keys, DefaultConfig

LEMMA ErrorLists ==
  /\ <<>> \in Seq(Keys) /\ \A k : k \notin Range(<<>>)
  /\ \A x \in Keys : <<x>> \in Seq(Keys) /\ \A k : k \in Range(<<x>>) <=> k = x
<1>1. <<>> \in Seq(Keys) /\ \A k : k \notin Range(<<>>)
  BY DEF Range
<1>2. ASSUME NEW x \in Keys PROVE <<x>> \in Seq(Keys) /\ \A k : k \in Range(<<x>>) <=> k = x
  BY DEF Range
<1>3. QED
  BY <1>1, <1>2

(* What a concatenation contains. *)
LEMMA JoinedRange ==
  ASSUME NEW S, NEW a \in Seq(S), NEW b \in Seq(S)
  PROVE  a \o b \in Seq(S) /\ \A k : k \in Range(a \o b) <=> k \in Range(a) \/ k \in Range(b)
<1>1. a \o b \in Seq(S) /\ Len(a \o b) = Len(a) + Len(b)
  OBVIOUS
<1>2. /\ \A i \in 1 .. Len(a) : (a \o b)[i] = a[i]
      /\ \A i \in 1 .. Len(b) : (a \o b)[Len(a) + i] = b[i]
  OBVIOUS
<1>3. ASSUME NEW k, k \in Range(a \o b) PROVE k \in Range(a) \/ k \in Range(b)
  <2>1. PICK i \in 1 .. Len(a \o b) : k = (a \o b)[i]
    BY <1>1, <1>3 DEF Range
  <2>2. CASE i <= Len(a)
    BY <1>2, <2>1, <2>2 DEF Range
  <2>3. CASE i > Len(a)
    <3>1. i - Len(a) \in 1 .. Len(b) /\ Len(a) + (i - Len(a)) = i
      BY <1>1, <2>1, <2>3
    <3>2. QED
      BY <1>2, <2>1, <3>1 DEF Range
  <2>4. QED
    BY <2>2, <2>3
<1>4. ASSUME NEW k, k \in Range(a) \/ k \in Range(b) PROVE k \in Range(a \o b)
  <2>1. CASE k \in Range(a)
    <3>1. PICK i \in 1 .. Len(a) : k = a[i]
      BY <2>1 DEF Range
    <3>2. i \in 1 .. Len(a \o b) /\ (a \o b)[i] = k
      BY <1>1, <1>2, <3>1
    <3>3. QED
      BY <1>1, <3>2 DEF Range
  <2>2. CASE k \in Range(b)
    <3>1. PICK i \in 1 .. Len(b) : k = b[i]
      BY <2>2 DEF Range
    <3>2. Len(a) + i \in 1 .. Len(a \o b) /\ (a \o b)[Len(a) + i] = k
      BY <1>1, <1>2, <3>1
    <3>3. QED
      BY <1>1, <3>2 DEF Range
  <2>3. QED
    BY <1>4, <2>1, <2>2
<1>5. QED
  BY <1>1, <1>3, <1>4

LEMMA JoinedErrors ==
  ASSUME NEW a \in Seq(Keys), NEW b \in Seq(Keys)
  PROVE  a \o b \in Seq(Keys) /\ \A k : k \in Range(a \o b) <=> k \in Range(a) \/ k \in Range(b)
BY JoinedRange

LEMMA JoinedTexts ==
  ASSUME NEW a \in Seq(STRING), NEW b \in Seq(STRING)
  PROVE  a \o b \in Seq(STRING) /\ Range(a \o b) = Range(a) \cup Range(b)
BY JoinedRange


LEMMA CoordinatorErrors ==
  ASSUME NEW c
  PROVE  /\ CoordinatorChecks(c) \in Seq(Keys)
         /\ \A k : k \in Range(CoordinatorChecks(c)) <=>
                      \/ (k = "coordinator_grpc_port" /\ ~(IsPort(c.coordinator_grpc_port)))
                      \/ (k = "coordinator_http_port" /\ ~(IsPort(c.coordinator_http_port)))
                      \/ (k = "coordinator_grpc_port" /\ ~(c.coordinator_grpc_port # c.coordinator_http_port))
<1> DEFINE e1 == Check("coordinator_grpc_port", IsPort(c.coordinator_grpc_port))
           e2 == Check("coordinator_http_port", IsPort(c.coordinator_http_port))
           e3 == Check("coordinator_grpc_port", c.coordinator_grpc_port # c.coordinator_http_port)
           f2 == e1 \o e2
           f3 == f2 \o e3
<1>1. e1 \in Seq(Keys) /\ \A k : k \in Range(e1) <=> k = "coordinator_grpc_port" /\ ~(IsPort(c.coordinator_grpc_port))
  <2>1. <<"coordinator_grpc_port">> \in Seq(Keys) /\ \A k : k \in Range(<<"coordinator_grpc_port">>) <=> k = "coordinator_grpc_port"
    BY ErrorLists, KeysAre
  <2>2. QED
    BY <2>1, ErrorLists DEF Check
<1>2. e2 \in Seq(Keys) /\ \A k : k \in Range(e2) <=> k = "coordinator_http_port" /\ ~(IsPort(c.coordinator_http_port))
  <2>1. <<"coordinator_http_port">> \in Seq(Keys) /\ \A k : k \in Range(<<"coordinator_http_port">>) <=> k = "coordinator_http_port"
    BY ErrorLists, KeysAre
  <2>2. QED
    BY <2>1, ErrorLists DEF Check
<1>3. e3 \in Seq(Keys) /\ \A k : k \in Range(e3) <=> k = "coordinator_grpc_port" /\ ~(c.coordinator_grpc_port # c.coordinator_http_port)
  <2>1. <<"coordinator_grpc_port">> \in Seq(Keys) /\ \A k : k \in Range(<<"coordinator_grpc_port">>) <=> k = "coordinator_grpc_port"
    BY ErrorLists, KeysAre
  <2>2. QED
    BY <2>1, ErrorLists DEF Check
<1>4. CoordinatorChecks(c) = f3
  BY DEF CoordinatorChecks
<1> HIDE DEF e1, e2, e3
<1>5. f2 \in Seq(Keys) /\ \A k : k \in Range(f2) <=> k \in Range(e1) \/ k \in Range(e2)
  BY <1>1, <1>2, JoinedErrors
<1> HIDE DEF f2
<1>6. f3 \in Seq(Keys) /\ \A k : k \in Range(f3) <=> k \in Range(e1) \/ k \in Range(e2) \/ k \in Range(e3)
  BY <1>5, <1>3, JoinedErrors
<1> HIDE DEF f3
<1>7. CoordinatorChecks(c) \in Seq(Keys) /\ \A k : k \in Range(CoordinatorChecks(c)) <=> k \in Range(f3)
  BY <1>4, <1>6
<1>8. QED
  BY <1>1, <1>2, <1>3, <1>6, <1>7, Zenon

LEMMA WorkerErrors ==
  ASSUME NEW c
  PROVE  /\ WorkerChecks(c) \in Seq(Keys)
         /\ \A k : k \in Range(WorkerChecks(c)) <=>
                      \/ (k = "worker_port" /\ ~(IsPort(c.worker_port)))
                      \/ (k = "worker_max_parallel" /\ ~(c.worker_max_parallel >= 0))
                      \/ (k = "worker_timeout" /\ ~(c.worker_timeout >= 0))
                      \/ (k = "worker_timeout" /\ (c.worker_timeout > 0 /\ c.worker_timeout < Second))
                      \/ (k = "worker_heartbeat_sec" /\ ~(c.worker_heartbeat_sec >= 0))
<1> DEFINE e1 == Check("worker_port", IsPort(c.worker_port))
           e2 == Check("worker_max_parallel", c.worker_max_parallel >= 0)
           e3 == Check("worker_timeout", c.worker_timeout >= 0)
           e4 == Check("worker_timeout", ~(c.worker_timeout > 0 /\ c.worker_timeout < Second))
           e5 == Check("worker_heartbeat_sec", c.worker_heartbeat_sec >= 0)
           f2 == e1 \o e2
           f3 == f2 \o e3
           f4 == f3 \o e4
           f5 == f4 \o e5
<1>1. e1 \in Seq(Keys) /\ \A k : k \in Range(e1) <=> k = "worker_port" /\ ~(IsPort(c.worker_port))
  <2>1. <<"worker_port">> \in Seq(Keys) /\ \A k : k \in Range(<<"worker_port">>) <=> k = "worker_port"
    BY ErrorLists, KeysAre
  <2>2. QED
    BY <2>1, ErrorLists DEF Check
<1>2. e2 \in Seq(Keys) /\ \A k : k \in Range(e2) <=> k = "worker_max_parallel" /\ ~(c.worker_max_parallel >= 0)
  <2>1. <<"worker_max_parallel">> \in Seq(Keys) /\ \A k : k \in Range(<<"worker_max_parallel">>) <=> k = "worker_max_parallel"
    BY ErrorLists, KeysAre
  <2>2. QED
    BY <2>1, ErrorLists DEF Check
<1>3. e3 \in Seq(Keys) /\ \A k : k \in Range(e3) <=> k = "worker_timeout" /\ ~(c.worker_timeout >= 0)
  <2>1. <<"worker_timeout">> \in Seq(Keys) /\ \A k : k \in Range(<<"worker_timeout">>) <=> k = "worker_timeout"
    BY ErrorLists, KeysAre
  <2>2. QED
    BY <2>1, ErrorLists DEF Check
<1>4. e4 \in Seq(Keys) /\ \A k : k \in Range(e4) <=> k = "worker_timeout" /\ (c.worker_timeout > 0 /\ c.worker_timeout < Second)
  <2>1. <<"worker_timeout">> \in Seq(Keys) /\ \A k : k \in Range(<<"worker_timeout">>) <=> k = "worker_timeout"
    BY ErrorLists, KeysAre
  <2>2. QED
    BY <2>1, ErrorLists DEF Check
<1>5. e5 \in Seq(Keys) /\ \A k : k \in Range(e5) <=> k = "worker_heartbeat_sec" /\ ~(c.worker_heartbeat_sec >= 0)
  <2>1. <<"worker_heartbeat_sec">> \in Seq(Keys) /\ \A k : k \in Range(<<"worker_heartbeat_sec">>) <=> k = "worker_heartbeat_sec"
    BY ErrorLists, KeysAre
  <2>2. QED
    BY <2>1, ErrorLists DEF Check
<1>6. WorkerChecks(c) = f5
  BY DEF WorkerChecks
<1> HIDE DEF e1, e2, e3, e4, e5
<1>7. f2 \in Seq(Keys) /\ \A k : k \in Range(f2) <=> k \in Range(e1) \/ k \in Range(e2)
  BY <1>1, <1>2, JoinedErrors
<1> HIDE DEF f2
<1>8. f3 \in Seq(Keys) /\ \A k : k \in Range(f3) <=> k \in Range(e1) \/ k \in Range(e2) \/ k \in Range(e3)
  BY <1>7, <1>3, JoinedErrors
<1> HIDE DEF f3
<1>9. f4 \in Seq(Keys) /\ \A k : k \in Range(f4) <=> k \in Range(e1) \/ k \in Range(e2) \/ k \in Range(e3) \/ k \in Range(e4)
  BY <1>8, <1>4, JoinedErrors
<1> HIDE DEF f4
<1>10. f5 \in Seq(Keys) /\ \A k : k \in Range(f5) <=> k \in Range(e1) \/ k \in Range(e2) \/ k \in Range(e3) \/ k \in Range(e4) \/ k \in Range(e5)
  BY <1>9, <1>5, JoinedErrors
<1> HIDE DEF f5
<1>11. WorkerChecks(c) \in Seq(Keys) /\ \A k : k \in Range(WorkerChecks(c)) <=> k \in Range(f5)
  BY <1>6, <1>10
<1>12. QED
  <2>1. ASSUME NEW k
        PROVE  k \in Range(WorkerChecks(c)) <=> k \in Range(e1) \/ k \in Range(e2) \/ k \in Range(e3) \/ k \in Range(e4) \/ k \in Range(e5)
    BY <1>10, <1>11, Zenon
  <2>2. QED
    BY <1>1, <1>2, <1>3, <1>4, <1>5, <1>11, <2>1, ZenonT(30)

LEMMA ClientErrors ==
  ASSUME NEW c
  PROVE  /\ ClientChecks(c) \in Seq(Keys)
         /\ \A k : k \in Range(ClientChecks(c)) <=>
                      \/ (k = "client_timeout" /\ ~(c.client_timeout >= 0))
                      \/ (k = "client_timeout" /\ (c.client_timeout > 0 /\ c.client_timeout < Second))
<1> DEFINE e1 == Check("client_timeout", c.client_timeout >= 0)
           e2 == Check("client_timeout", ~(c.client_timeout > 0 /\ c.client_timeout < Second))
           f2 == e1 \o e2
<1>1. e1 \in Seq(Keys) /\ \A k : k \in Range(e1) <=> k = "client_timeout" /\ ~(c.client_timeout >= 0)
  <2>1. <<"client_timeout">> \in Seq(Keys) /\ \A k : k \in Range(<<"client_timeout">>) <=> k = "client_timeout"
    BY ErrorLists, KeysAre
  <2>2. QED
    BY <2>1, ErrorLists DEF Check
<1>2. e2 \in Seq(Keys) /\ \A k : k \in Range(e2) <=> k = "client_timeout" /\ (c.client_timeout > 0 /\ c.client_timeout < Second)
  <2>1. <<"client_timeout">> \in Seq(Keys) /\ \A k : k \in Range(<<"client_timeout">>) <=> k = "client_timeout"
    BY ErrorLists, KeysAre
  <2>2. QED
    BY <2>1, ErrorLists DEF Check
<1>3. ClientChecks(c) = f2
  BY DEF ClientChecks
<1> HIDE DEF e1, e2
<1>4. f2 \in Seq(Keys) /\ \A k : k \in Range(f2) <=> k \in Range(e1) \/ k \in Range(e2)
  BY <1>1, <1>2, JoinedErrors
<1> HIDE DEF f2
<1>5. ClientChecks(c) \in Seq(Keys) /\ \A k : k \in Range(ClientChecks(c)) <=> k \in Range(f2)
  BY <1>3, <1>4
<1>6. QED
  BY <1>1, <1>2, <1>4, <1>5, Zenon

LEMMA CacheErrors ==
  ASSUME NEW c
  PROVE  /\ CacheChecks(c) \in Seq(Keys)
         /\ \A k : k \in Range(CacheChecks(c)) <=>
                   /\ ~(~c.cache_enable)
                   /\ \/ (k = "cache_max_size_mb" /\ ~(c.cache_max_size_mb > 0))
                      \/ (k = "cache_ttl_hours" /\ ~(c.cache_ttl_hours > 0))
                      \/ (k = "cache_dir" /\ ~(c.cache_dir # ""))
<1> DEFINE e1 == Check("cache_max_size_mb", c.cache_max_size_mb > 0)
           e2 == Check("cache_ttl_hours", c.cache_ttl_hours > 0)
           e3 == Check("cache_dir", c.cache_dir # "")
           f2 == e1 \o e2
           f3 == f2 \o e3
<1>1. e1 \in Seq(Keys) /\ \A k : k \in Range(e1) <=> k = "cache_max_size_mb" /\ ~(c.cache_max_size_mb > 0)
  <2>1. <<"cache_max_size_mb">> \in Seq(Keys) /\ \A k : k \in Range(<<"cache_max_size_mb">>) <=> k = "cache_max_size_mb"
    BY ErrorLists, KeysAre
  <2>2. QED
    BY <2>1, ErrorLists DEF Check
<1>2. e2 \in Seq(Keys) /\ \A k : k \in Range(e2) <=> k = "cache_ttl_hours" /\ ~(c.cache_ttl_hours > 0)
  <2>1. <<"cache_ttl_hours">> \in Seq(Keys) /\ \A k : k \in Range(<<"cache_ttl_hours">>) <=> k = "cache_ttl_hours"
    BY ErrorLists, KeysAre
  <2>2. QED
    BY <2>1, ErrorLists DEF Check
<1>3. e3 \in Seq(Keys) /\ \A k : k \in Range(e3) <=> k = "cache_dir" /\ ~(c.cache_dir # "")
  <2>1. <<"cache_dir">> \in Seq(Keys) /\ \A k : k \in Range(<<"cache_dir">>) <=> k = "cache_dir"
    BY ErrorLists, KeysAre
  <2>2. QED
    BY <2>1, ErrorLists DEF Check
<1>4. CacheChecks(c) = IF ~c.cache_enable THEN <<>> ELSE f3
  BY DEF CacheChecks
<1> HIDE DEF e1, e2, e3
<1>5. f2 \in Seq(Keys) /\ \A k : k \in Range(f2) <=> k \in Range(e1) \/ k \in Range(e2)
  BY <1>1, <1>2, JoinedErrors
<1> HIDE DEF f2
<1>6. f3 \in Seq(Keys) /\ \A k : k \in Range(f3) <=> k \in Range(e1) \/ k \in Range(e2) \/ k \in Range(e3)
  BY <1>5, <1>3, JoinedErrors
<1> HIDE DEF f3
<1>7. CASE ~c.cache_enable
  BY <1>4, <1>7, ErrorLists
<1>8. CASE ~(~c.cache_enable)
  <2>1. CacheChecks(c) = f3
    BY <1>4, <1>8
  <2>2. QED
    BY <2>1, <1>1, <1>2, <1>3, <1>6, <1>8, Zenon
<1>9. QED
  BY <1>7, <1>8

LEMMA RotationErrors ==
  ASSUME NEW c
  PROVE  /\ RotationChecks(c) \in Seq(Keys)
         /\ \A k : k \in Range(RotationChecks(c)) <=>
                   /\ ~(c.log_file = "")
                   /\ \/ (k = "log_rotation_max_size_mb" /\ ~(c.log_rotation_max_size_mb > 0))
                      \/ (k = "log_rotation_max_backups" /\ ~(c.log_rotation_max_backups >= 0))
                      \/ (k = "log_rotation_max_age_days" /\ ~(c.log_rotation_max_age_days > 0))
<1> DEFINE e1 == Check("log_rotation_max_size_mb", c.log_rotation_max_size_mb > 0)
           e2 == Check("log_rotation_max_backups", c.log_rotation_max_backups >= 0)
           e3 == Check("log_rotation_max_age_days", c.log_rotation_max_age_days > 0)
           f2 == e1 \o e2
           f3 == f2 \o e3
<1>1. e1 \in Seq(Keys) /\ \A k : k \in Range(e1) <=> k = "log_rotation_max_size_mb" /\ ~(c.log_rotation_max_size_mb > 0)
  <2>1. <<"log_rotation_max_size_mb">> \in Seq(Keys) /\ \A k : k \in Range(<<"log_rotation_max_size_mb">>) <=> k = "log_rotation_max_size_mb"
    BY ErrorLists, KeysAre
  <2>2. QED
    BY <2>1, ErrorLists DEF Check
<1>2. e2 \in Seq(Keys) /\ \A k : k \in Range(e2) <=> k = "log_rotation_max_backups" /\ ~(c.log_rotation_max_backups >= 0)
  <2>1. <<"log_rotation_max_backups">> \in Seq(Keys) /\ \A k : k \in Range(<<"log_rotation_max_backups">>) <=> k = "log_rotation_max_backups"
    BY ErrorLists, KeysAre
  <2>2. QED
    BY <2>1, ErrorLists DEF Check
<1>3. e3 \in Seq(Keys) /\ \A k : k \in Range(e3) <=> k = "log_rotation_max_age_days" /\ ~(c.log_rotation_max_age_days > 0)
  <2>1. <<"log_rotation_max_age_days">> \in Seq(Keys) /\ \A k : k \in Range(<<"log_rotation_max_age_days">>) <=> k = "log_rotation_max_age_days"
    BY ErrorLists, KeysAre
  <2>2. QED
    BY <2>1, ErrorLists DEF Check
<1>4. RotationChecks(c) = IF c.log_file = "" THEN <<>> ELSE f3
  BY DEF RotationChecks
<1> HIDE DEF e1, e2, e3
<1>5. f2 \in Seq(Keys) /\ \A k : k \in Range(f2) <=> k \in Range(e1) \/ k \in Range(e2)
  BY <1>1, <1>2, JoinedErrors
<1> HIDE DEF f2
<1>6. f3 \in Seq(Keys) /\ \A k : k \in Range(f3) <=> k \in Range(e1) \/ k \in Range(e2) \/ k \in Range(e3)
  BY <1>5, <1>3, JoinedErrors
<1> HIDE DEF f3
<1>7. CASE c.log_file = ""
  BY <1>4, <1>7, ErrorLists
<1>8. CASE ~(c.log_file = "")
  <2>1. RotationChecks(c) = f3
    BY <1>4, <1>8
  <2>2. QED
    BY <2>1, <1>1, <1>2, <1>3, <1>6, <1>8, Zenon
<1>9. QED
  BY <1>7, <1>8

LEMMA LogErrors ==
  ASSUME NEW c
  PROVE  /\ LogChecks(c) \in Seq(Keys)
         /\ \A k : k \in Range(LogChecks(c)) <=>
                      \/ (k = "log_level" /\ ~(c.log_level \in {"debug", "info", "warn", "error", "fatal"}))
                      \/ (k = "log_format" /\ ~(c.log_format \in {"console", "json"}))
                      \/ k \in Range(RotationChecks(c))
<1> DEFINE e1 == Check("log_level", c.log_level \in {"debug", "info", "warn", "error", "fatal"})
           e2 == Check("log_format", c.log_format \in {"console", "json"})
           e3 == RotationChecks(c)
           f2 == e1 \o e2
           f3 == f2 \o e3
<1>1. e1 \in Seq(Keys) /\ \A k : k \in Range(e1) <=> k = "log_level" /\ ~(c.log_level \in {"debug", "info", "warn", "error", "fatal"})
  <2>1. <<"log_level">> \in Seq(Keys) /\ \A k : k \in Range(<<"log_level">>) <=> k = "log_level"
    BY ErrorLists, KeysAre
  <2>2. QED
    BY <2>1, ErrorLists DEF Check
<1>2. e2 \in Seq(Keys) /\ \A k : k \in Range(e2) <=> k = "log_format" /\ ~(c.log_format \in {"console", "json"})
  <2>1. <<"log_format">> \in Seq(Keys) /\ \A k : k \in Range(<<"log_format">>) <=> k = "log_format"
    BY ErrorLists, KeysAre
  <2>2. QED
    BY <2>1, ErrorLists DEF Check
<1>3. e3 \in Seq(Keys)
  BY RotationErrors
<1>4. LogChecks(c) = f3
  BY DEF LogChecks
<1> HIDE DEF e1, e2, e3
<1>5. f2 \in Seq(Keys) /\ \A k : k \in Range(f2) <=> k \in Range(e1) \/ k \in Range(e2)
  BY <1>1, <1>2, JoinedErrors
<1> HIDE DEF f2
<1>6. f3 \in Seq(Keys) /\ \A k : k \in Range(f3) <=> k \in Range(e1) \/ k \in Range(e2) \/ k \in Range(e3)
  BY <1>5, <1>3, JoinedErrors
<1> HIDE DEF f3
<1>7. LogChecks(c) \in Seq(Keys) /\ \A k : k \in Range(LogChecks(c)) <=> k \in Range(f3)
  BY <1>4, <1>6
<1>8. QED
  BY <1>1, <1>2, <1>6, <1>7, Zenon DEF e3

LEMMA TLSErrors ==
  ASSUME NEW c
  PROVE  /\ TLSChecks(c) \in Seq(Keys)
         /\ \A k : k \in Range(TLSChecks(c)) <=>
                   /\ ~(~c.tls_enabled)
                   /\ \/ (k = "tls_cert_file" /\ ~(c.tls_cert_file # ""))
                      \/ (k = "tls_key_file" /\ ~(c.tls_key_file # ""))
                      \/ (k = "tls_client_ca" /\ (c.tls_require_client_cert /\ c.tls_client_ca = ""))
<1> DEFINE e1 == Check("tls_cert_file", c.tls_cert_file # "")
           e2 == Check("tls_key_file", c.tls_key_file # "")
           e3 == Check("tls_client_ca", ~(c.tls_require_client_cert /\ c.tls_client_ca = ""))
           f2 == e1 \o e2
           f3 == f2 \o e3
<1>1. e1 \in Seq(Keys) /\ \A k : k \in Range(e1) <=> k = "tls_cert_file" /\ ~(c.tls_cert_file # "")
  <2>1. <<"tls_cert_file">> \in Seq(Keys) /\ \A k : k \in Range(<<"tls_cert_file">>) <=> k = "tls_cert_file"
    BY ErrorLists, KeysAre
  <2>2. QED
    BY <2>1, ErrorLists DEF Check
<1>2. e2 \in Seq(Keys) /\ \A k : k \in Range(e2) <=> k = "tls_key_file" /\ ~(c.tls_key_file # "")
  <2>1. <<"tls_key_file">> \in Seq(Keys) /\ \A k : k \in Range(<<"tls_key_file">>) <=> k = "tls_key_file"
    BY ErrorLists, KeysAre
  <2>2. QED
    BY <2>1, ErrorLists DEF Check
<1>3. e3 \in Seq(Keys) /\ \A k : k \in Range(e3) <=> k = "tls_client_ca" /\ (c.tls_require_client_cert /\ c.tls_client_ca = "")
  <2>1. <<"tls_client_ca">> \in Seq(Keys) /\ \A k : k \in Range(<<"tls_client_ca">>) <=> k = "tls_client_ca"
    BY ErrorLists, KeysAre
  <2>2. QED
    BY <2>1, ErrorLists DEF Check
<1>4. TLSChecks(c) = IF ~c.tls_enabled THEN <<>> ELSE f3
  BY DEF TLSChecks
<1> HIDE DEF e1, e2, e3
<1>5. f2 \in Seq(Keys) /\ \A k : k \in Range(f2) <=> k \in Range(e1) \/ k \in Range(e2)
  BY <1>1, <1>2, JoinedErrors
<1> HIDE DEF f2
<1>6. f3 \in Seq(Keys) /\ \A k : k \in Range(f3) <=> k \in Range(e1) \/ k \in Range(e2) \/ k \in Range(e3)
  BY <1>5, <1>3, JoinedErrors
<1> HIDE DEF f3
<1>7. CASE ~c.tls_enabled
  BY <1>4, <1>7, ErrorLists
<1>8. CASE ~(~c.tls_enabled)
  <2>1. TLSChecks(c) = f3
    BY <1>4, <1>8
  <2>2. QED
    BY <2>1, <1>1, <1>2, <1>3, <1>6, <1>8, Zenon
<1>9. QED
  BY <1>7, <1>8

LEMMA TracingErrors ==
  ASSUME NEW c
  PROVE  /\ TracingChecks(c) \in Seq(Keys)
         /\ \A k : k \in Range(TracingChecks(c)) <=>
                   /\ ~(~c.tracing_enable)
                   /\ \/ (k = "tracing_endpoint" /\ ~(c.tracing_endpoint # ""))
                      \/ (k = "tracing_sample_rate" /\ ~(c.tracing_sample_rate \in 0..10))
<1> DEFINE e1 == Check("tracing_endpoint", c.tracing_endpoint # "")
           e2 == Check("tracing_sample_rate", c.tracing_sample_rate \in 0..10)
           f2 == e1 \o e2
<1>1. e1 \in Seq(Keys) /\ \A k : k \in Range(e1) <=> k = "tracing_endpoint" /\ ~(c.tracing_endpoint # "")
  <2>1. <<"tracing_endpoint">> \in Seq(Keys) /\ \A k : k \in Range(<<"tracing_endpoint">>) <=> k = "tracing_endpoint"
    BY ErrorLists, KeysAre
  <2>2. QED
    BY <2>1, ErrorLists DEF Check
<1>2. e2 \in Seq(Keys) /\ \A k : k \in Range(e2) <=> k = "tracing_sample_rate" /\ ~(c.tracing_sample_rate \in 0..10)
  <2>1. <<"tracing_sample_rate">> \in Seq(Keys) /\ \A k : k \in Range(<<"tracing_sample_rate">>) <=> k = "tracing_sample_rate"
    BY ErrorLists, KeysAre
  <2>2. QED
    BY <2>1, ErrorLists DEF Check
<1>3. TracingChecks(c) = IF ~c.tracing_enable THEN <<>> ELSE f2
  BY DEF TracingChecks
<1> HIDE DEF e1, e2
<1>4. f2 \in Seq(Keys) /\ \A k : k \in Range(f2) <=> k \in Range(e1) \/ k \in Range(e2)
  BY <1>1, <1>2, JoinedErrors
<1> HIDE DEF f2
<1>5. CASE ~c.tracing_enable
  BY <1>3, <1>5, ErrorLists
<1>6. CASE ~(~c.tracing_enable)
  <2>1. TracingChecks(c) = f2
    BY <1>3, <1>6
  <2>2. QED
    BY <2>1, <1>1, <1>2, <1>4, <1>6, Zenon
<1>7. QED
  BY <1>5, <1>6
(* The verdict is a setting that some section's error names. *)
LEMMA FirstErrorIs ==
  ASSUME NEW e \in Seq(Keys)
  PROVE  /\ FirstError(e) = "ok" <=> \A k : k \notin Range(e)
         /\ FirstError(e) # "ok" => FirstError(e) \in Range(e) /\ FirstError(e) \in Keys
<1>1. CASE e = <<>>
  BY <1>1, ErrorLists DEF FirstError
<1>2. CASE e # <<>>
  <2>1. 1 \in DOMAIN e /\ e[1] = Head(e) /\ e[1] \in Keys
    BY <1>2
  <2>2. Head(e) \in Range(e)
    BY <2>1 DEF Range
  <2>3. Head(e) # "ok"
    BY <2>1, KeysAre
  <2>4. FirstError(e) = Head(e)
    BY <1>2 DEF FirstError
  <2>5. QED
    BY <2>1, <2>2, <2>3, <2>4
<1>3. QED
  BY <1>1, <1>2

(* The settings the flags' sections and the other sections name. *)
FlagErrors(c) == Range(ClientChecks(c)) \cup Range(TLSChecks(c)) \cup Range(TracingChecks(c))
Errors(c) == FlagErrors(c) \cup Range(CoordinatorChecks(c)) \cup Range(WorkerChecks(c))
             \cup Range(CacheChecks(c)) \cup Range(LogChecks(c))

LEMMA FlagVerdict ==
  ASSUME NEW c
  PROVE  LET v == FirstError(ClientChecks(c) \o TLSChecks(c) \o TracingChecks(c))
         IN v = "ok" <=> FlagErrors(c) = {}
<1> DEFINE a == ClientChecks(c)
           b == TLSChecks(c)
           d == TracingChecks(c)
           ab == a \o b
           e == ab \o d
<1>1. a \in Seq(Keys) /\ b \in Seq(Keys) /\ d \in Seq(Keys)
  BY ClientErrors, TLSErrors, TracingErrors
<1> HIDE DEF a, b, d
<1>2. ab \in Seq(Keys) /\ \A k : k \in Range(ab) <=> k \in Range(a) \/ k \in Range(b)
  BY <1>1, JoinedErrors
<1> HIDE DEF ab
<1>3. e \in Seq(Keys) /\ \A k : k \in Range(e) <=> k \in Range(ab) \/ k \in Range(d)
  BY <1>1, <1>2, JoinedErrors
<1>4. FirstError(e) = "ok" <=> \A k : k \notin Range(e)
  BY <1>3, FirstErrorIs
<1>5. FlagErrors(c) = Range(a) \cup Range(b) \cup Range(d)
  BY DEF FlagErrors, a, b, d
<1>6. FirstError(e) = "ok" <=> FlagErrors(c) = {}
  BY <1>2, <1>3, <1>4, <1>5
<1>7. QED
  BY <1>6 DEF ab, a, b, d

LEMMA ValidateVerdict ==
  ASSUME NEW c
  PROVE  /\ Validate(c) = "ok" <=> Errors(c) = {}
         /\ Validate(c) # "ok" => Validate(c) \in Errors(c) /\ Validate(c) \in Keys
<1> DEFINE s1 == CoordinatorChecks(c)
           s2 == WorkerChecks(c)
           s3 == ClientChecks(c)
           s4 == CacheChecks(c)
           s5 == LogChecks(c)
           s6 == TLSChecks(c)
           s7 == TracingChecks(c)
           t2 == s1 \o s2
           t3 == t2 \o s3
           t4 == t3 \o s4
           t5 == t4 \o s5
           t6 == t5 \o s6
           t7 == t6 \o s7
<1>1. /\ s1 \in Seq(Keys) /\ s2 \in Seq(Keys) /\ s3 \in Seq(Keys) /\ s4 \in Seq(Keys)
      /\ s5 \in Seq(Keys) /\ s6 \in Seq(Keys) /\ s7 \in Seq(Keys)
  <2>1. s1 \in Seq(Keys) /\ s2 \in Seq(Keys)
    BY CoordinatorErrors, WorkerErrors, Zenon
  <2>2. s3 \in Seq(Keys) /\ s4 \in Seq(Keys)
    BY ClientErrors, CacheErrors, Zenon
  <2>3. s5 \in Seq(Keys) /\ s6 \in Seq(Keys)
    BY LogErrors, TLSErrors, Zenon
  <2>4. s7 \in Seq(Keys)
    BY TracingErrors, Zenon
  <2>5. QED
    BY <2>1, <2>2, <2>3, <2>4
<1>2. Validate(c) = FirstError(t7)
  BY DEF Validate
<1>3. Errors(c) = Range(s1) \cup Range(s2) \cup Range(s3) \cup Range(s4) \cup Range(s5) \cup Range(s6) \cup Range(s7)
  BY DEF Errors, FlagErrors
<1> HIDE DEF s1, s2, s3, s4, s5, s6, s7
<1>4. t2 \in Seq(Keys) /\ Range(t2) = Range(s1) \cup Range(s2)
  BY <1>1, JoinedErrors
<1> HIDE DEF t2
<1>5. t3 \in Seq(Keys) /\ Range(t3) = Range(t2) \cup Range(s3)
  BY <1>1, <1>4, JoinedErrors
<1> HIDE DEF t3
<1>6. t4 \in Seq(Keys) /\ Range(t4) = Range(t3) \cup Range(s4)
  BY <1>1, <1>5, JoinedErrors
<1> HIDE DEF t4
<1>7. t5 \in Seq(Keys) /\ Range(t5) = Range(t4) \cup Range(s5)
  BY <1>1, <1>6, JoinedErrors
<1> HIDE DEF t5
<1>8. t6 \in Seq(Keys) /\ Range(t6) = Range(t5) \cup Range(s6)
  BY <1>1, <1>7, JoinedErrors
<1> HIDE DEF t6
<1>9. t7 \in Seq(Keys) /\ Range(t7) = Range(t6) \cup Range(s7)
  BY <1>1, <1>8, JoinedErrors
<1> HIDE DEF t7
<1>10. Range(t7) = Errors(c)
  BY <1>3, <1>4, <1>5, <1>6, <1>7, <1>8, <1>9
<1>11. QED
  BY <1>2, <1>9, <1>10, FirstErrorIs

-----------------------------------------------------------------------------
(* What can be run is what has no errors. *)

(* A configuration whose numeric settings are numbers. *)
NumberKeys == Keys \ (SwitchKeys \cup TextKeys)
IsConfig(c) == \A k \in NumberKeys : c[k] \in Int

LEMMA ConfigNumbers ==
  ASSUME NEW c, IsConfig(c)
  PROVE  /\ c.coordinator_grpc_port \in Int /\ c.coordinator_http_port \in Int
         /\ c.worker_timeout \in Int /\ c.client_timeout \in Int /\ c.tracing_sample_rate \in Int
<1>1. \A k \in NumberKeys : c[k] \in Int
  BY DEF IsConfig
<1>2. {"coordinator_grpc_port", "coordinator_http_port", "worker_timeout", "client_timeout",
       "tracing_sample_rate"} \subseteq NumberKeys
  BY KeysAre DEF NumberKeys, SwitchKeys, TextKeys
<1>3. QED
  BY <1>1, <1>2

CoordinatorUsable(c) ==
  IsPort(c.coordinator_grpc_port) /\ IsPort(c.coordinator_http_port) /\ c.coordinator_grpc_port # c.coordinator_http_port
WorkerUsable(c) ==
  /\ IsPort(c.worker_port) /\ c.worker_max_parallel >= 0 /\ Waitable(c.worker_timeout)
  /\ c.worker_heartbeat_sec >= 0
CacheUsable(c) ==
  c.cache_enable => c.cache_max_size_mb > 0 /\ c.cache_ttl_hours > 0 /\ c.cache_dir # ""
LogUsable(c) ==
  /\ c.log_level \in {"debug", "info", "warn", "error", "fatal"}
  /\ c.log_format \in {"console", "json"}
  /\ c.log_file # "" => /\ c.log_rotation_max_size_mb > 0
                        /\ c.log_rotation_max_backups >= 0
                        /\ c.log_rotation_max_age_days > 0
TLSUsable(c) ==
  c.tls_enabled => /\ c.tls_cert_file # "" /\ c.tls_key_file # ""
                   /\ ~(c.tls_require_client_cert /\ c.tls_client_ca = "")
TracingUsable(c) ==
  c.tracing_enable => c.tracing_endpoint # "" /\ c.tracing_sample_rate \in 0 .. 10

LEMMA TwoPorts ==
  ASSUME NEW a, NEW b
  PROVE  Cardinality({a, b}) = 2 <=> a # b
<1>1. IsFiniteSet({}) /\ Cardinality({}) = 0
  BY FS_EmptySet
<1>2. IsFiniteSet({b}) /\ Cardinality({b}) = 1
  BY FS_Singleton
<1>3. CASE a = b
  <2>1. {a, b} = {b}
    BY <1>3
  <2>2. QED
    BY <1>2, <1>3, <2>1
<1>4. CASE a # b
  <2>1. {a, b} = {b} \cup {a} /\ a \notin {b}
    BY <1>4
  <2>2. Cardinality({b} \cup {a}) = Cardinality({b}) + 1
    BY <1>2, <2>1, FS_AddElement
  <2>3. QED
    BY <1>2, <1>4, <2>1, <2>2
<1>5. QED
  BY <1>3, <1>4

LEMMA UsableParts ==
  ASSUME NEW c, IsConfig(c)
  PROVE  Usable(c) <=> /\ CoordinatorUsable(c) /\ WorkerUsable(c) /\ Waitable(c.client_timeout)
                       /\ CacheUsable(c) /\ LogUsable(c) /\ TLSUsable(c) /\ TracingUsable(c)
<1>1. Cardinality({c.coordinator_grpc_port, c.coordinator_http_port}) = 2
        <=> c.coordinator_grpc_port # c.coordinator_http_port
  BY TwoPorts
<1>2. c.tracing_sample_rate \in 0 .. 10 <=> c.tracing_sample_rate <= 10 /\ c.tracing_sample_rate >= 0
  BY ConfigNumbers
<1>3. CASE Usable(c)
  <2>1. CoordinatorUsable(c) /\ WorkerUsable(c) /\ Waitable(c.client_timeout)
    BY <1>1, <1>3, Zenon DEF Usable, CoordinatorUsable, WorkerUsable, IsPort
  <2>2. CacheUsable(c) /\ LogUsable(c)
    BY <1>3, Zenon DEF Usable, CacheUsable, LogUsable
  <2>3. TLSUsable(c) /\ TracingUsable(c)
    BY <1>2, <1>3, Zenon DEF Usable, TLSUsable, TracingUsable
  <2>4. QED
    BY <1>3, <2>1, <2>2, <2>3
<1>4. CASE /\ CoordinatorUsable(c) /\ WorkerUsable(c) /\ Waitable(c.client_timeout)
           /\ CacheUsable(c) /\ LogUsable(c) /\ TLSUsable(c) /\ TracingUsable(c)
  <2>1. /\ c.coordinator_grpc_port \in 1..MaxPort /\ c.coordinator_http_port \in 1..MaxPort
        /\ Cardinality({c.coordinator_grpc_port, c.coordinator_http_port}) = 2
        /\ c.worker_port \in 1..MaxPort /\ c.worker_max_parallel >= 0
        /\ Waitable(c.worker_timeout) /\ c.worker_heartbeat_sec >= 0
    BY <1>1, <1>4, Zenon DEF CoordinatorUsable, WorkerUsable, IsPort
  <2>2. /\ c.tls_enabled => c.tls_cert_file # "" /\ c.tls_key_file # ""
        /\ c.tls_require_client_cert /\ c.tls_enabled => c.tls_client_ca # ""
    BY <1>4, Zenon DEF TLSUsable
  <2>3. c.tracing_enable => c.tracing_endpoint # "" /\ c.tracing_sample_rate <= 10 /\ c.tracing_sample_rate >= 0
    BY <1>2, <1>4, Zenon DEF TracingUsable
  <2>4. QED
    BY <1>4, <2>1, <2>2, <2>3, Zenon DEF Usable, CacheUsable, LogUsable
<1>5. QED
  BY <1>3, <1>4

LEMMA WaitableIs == \A t \in Int : Waitable(t) <=> t >= 0 /\ ~(t > 0 /\ t < Second)
BY SMT DEF Waitable, Second

LEMMA SectionsUsable ==
  ASSUME NEW c, IsConfig(c)
  PROVE  /\ Range(CoordinatorChecks(c)) = {} <=> CoordinatorUsable(c)
         /\ Range(WorkerChecks(c)) = {} <=> WorkerUsable(c)
         /\ Range(ClientChecks(c)) = {} <=> Waitable(c.client_timeout)
         /\ Range(CacheChecks(c)) = {} <=> CacheUsable(c)
         /\ Range(LogChecks(c)) = {} <=> LogUsable(c)
         /\ Range(TLSChecks(c)) = {} <=> TLSUsable(c)
         /\ Range(TracingChecks(c)) = {} <=> TracingUsable(c)
<1>1. Range(CoordinatorChecks(c)) = {} <=> CoordinatorUsable(c)
  BY CoordinatorErrors, Zenon DEF CoordinatorUsable
<1>2. Range(WorkerChecks(c)) = {} <=> WorkerUsable(c)
  <2>1. Waitable(c.worker_timeout) <=> c.worker_timeout >= 0 /\ ~(c.worker_timeout > 0 /\ c.worker_timeout < Second)
    BY WaitableIs, ConfigNumbers
  <2>2. QED
    BY <2>1, WorkerErrors, Zenon DEF WorkerUsable
<1>3. Range(ClientChecks(c)) = {} <=> Waitable(c.client_timeout)
  <2>1. Waitable(c.client_timeout) <=> c.client_timeout >= 0 /\ ~(c.client_timeout > 0 /\ c.client_timeout < Second)
    BY WaitableIs, ConfigNumbers
  <2>2. \A k : k \in Range(ClientChecks(c)) =>
               ~(c.client_timeout >= 0) \/ (c.client_timeout > 0 /\ c.client_timeout < Second)
    BY ClientErrors, Zenon
  <2>3. ~(c.client_timeout >= 0) \/ (c.client_timeout > 0 /\ c.client_timeout < Second)
          => "client_timeout" \in Range(ClientChecks(c))
    BY ClientErrors, Zenon
  <2>4. QED
    BY <2>1, <2>2, <2>3, Zenon
<1>4. Range(CacheChecks(c)) = {} <=> CacheUsable(c)
  BY CacheErrors, Zenon DEF CacheUsable
<1>5. Range(LogChecks(c)) = {} <=> LogUsable(c)
  BY LogErrors, RotationErrors, Zenon DEF LogUsable
<1>6. Range(TLSChecks(c)) = {} <=> TLSUsable(c)
  BY TLSErrors, Zenon DEF TLSUsable
<1>7. Range(TracingChecks(c)) = {} <=> TracingUsable(c)
  BY TracingErrors, Zenon DEF TracingUsable
<1>8. QED
  BY <1>1, <1>2, <1>3, <1>4, <1>5, <1>6, <1>7

LEMMA AcceptedIsUsable ==
  ASSUME NEW c, IsConfig(c)
  PROVE  Validate(c) = "ok" <=> Usable(c)
<1>1. Errors(c) = {} <=> Usable(c)
  BY SectionsUsable, UsableParts DEF Errors, FlagErrors
<1>2. QED
  BY <1>1, ValidateVerdict


-----------------------------------------------------------------------------
(* The defaults are a configuration the programs can run with. *)

LEMMA DefaultNumbers ==
  LET d == DefaultConfig
  IN /\ IsPort(d.coordinator_grpc_port) /\ IsPort(d.coordinator_http_port) /\ IsPort(d.worker_port)
     /\ d.coordinator_grpc_port # d.coordinator_http_port
     /\ d.worker_max_parallel >= 0 /\ d.worker_heartbeat_sec >= 0
     /\ d.worker_timeout >= 0 /\ ~(d.worker_timeout > 0 /\ d.worker_timeout < Second)
     /\ d.client_timeout >= 0 /\ ~(d.client_timeout > 0 /\ d.client_timeout < Second)
     /\ d.cache_max_size_mb > 0 /\ d.cache_ttl_hours > 0
     /\ d.log_rotation_max_size_mb > 0 /\ d.log_rotation_max_backups >= 0
     /\ d.log_rotation_max_age_days > 0 /\ d.tracing_sample_rate \in 0 .. 10
BY SMT DEF DefaultConfig, IsPort, MaxPort, Second

LEMMA DefaultSwitches ==
  LET d == DefaultConfig
  IN /\ d.cache_enable = TRUE /\ d.tls_enabled = FALSE
     /\ d.tls_require_client_cert = FALSE /\ d.tracing_enable = FALSE
BY SMT DEF DefaultConfig

LEMMA DefaultTexts ==
  LET d == DefaultConfig
  IN /\ d.cache_dir = "~/.cache/hybridgrid" /\ d.log_level = "info" /\ d.log_format = "console"
     /\ d.log_file = "" /\ d.tls_cert_file = "" /\ d.tls_key_file = "" /\ d.tls_client_ca = ""
     /\ d.tracing_endpoint = "localhost:4317"
BY SMT DEF DefaultConfig

LEMMA DefaultIntegers ==
  LET d == DefaultConfig
  IN /\ d.coordinator_grpc_port \in Int /\ d.coordinator_http_port \in Int /\ d.worker_port \in Int
     /\ d.worker_max_parallel \in Int /\ d.worker_timeout \in Int /\ d.worker_heartbeat_sec \in Int
     /\ d.client_timeout \in Int /\ d.cache_max_size_mb \in Int /\ d.cache_ttl_hours \in Int
     /\ d.log_rotation_max_size_mb \in Int /\ d.log_rotation_max_backups \in Int /\ d.log_rotation_max_age_days \in Int
     /\ d.tracing_sample_rate \in Int
BY SMT DEF DefaultConfig

LEMMA DefaultIsConfig == IsConfig(DefaultConfig)
<1>1. ASSUME NEW k \in NumberKeys
      PROVE  k \in {"coordinator_grpc_port", "coordinator_http_port", "worker_port", "worker_max_parallel",
            "worker_timeout", "worker_heartbeat_sec", "client_timeout", "cache_max_size_mb",
            "cache_ttl_hours", "log_rotation_max_size_mb", "log_rotation_max_backups",
            "log_rotation_max_age_days", "tracing_sample_rate"}
  BY KeysAre DEF NumberKeys, SwitchKeys, TextKeys
<1>2. QED
  BY <1>1, DefaultIntegers, Zenon DEF IsConfig

(* An error names a setting only when one of its causes is not at its default. *)
LEMMA Blame ==
  ASSUME NEW c, NEW k, k \in Errors(c)
  PROVE  \E x \in Causes(k) \cap Keys : c[x] # DefaultConfig[x]
<1>1. k \in Causes(k)
  BY DEF Causes
<1>2. CASE k \in Range(CoordinatorChecks(c))
  <2>1. k = "coordinator_grpc_port" \/ k = "coordinator_http_port"
    BY <1>2, CoordinatorErrors, Zenon
  <2>2. CASE k = "coordinator_http_port"
    <3>1. ~IsPort(c.coordinator_http_port)
      BY <1>2, <2>2, CoordinatorErrors
    <3>2. c[k] # DefaultConfig[k] /\ k \in Keys
      BY <2>2, <3>1, DefaultNumbers, KeysAre, Zenon
    <3>3. QED
      BY <1>1, <3>2
  <2>3. CASE k = "coordinator_grpc_port"
    <3>1. ~IsPort(c.coordinator_grpc_port) \/ c.coordinator_grpc_port = c.coordinator_http_port
      BY <1>2, <2>3, CoordinatorErrors
    <3>2. c["coordinator_grpc_port"] # DefaultConfig["coordinator_grpc_port"]
            \/ c["coordinator_http_port"] # DefaultConfig["coordinator_http_port"]
      BY <3>1, DefaultNumbers, Zenon
    <3>3. {"coordinator_grpc_port", "coordinator_http_port"} \subseteq Causes(k) \cap Keys
      BY <2>3, KeysAre DEF Causes
    <3>4. QED
      BY <3>2, <3>3
  <2>4. QED
    BY <2>1, <2>2, <2>3
<1>3. CASE k \in Range(WorkerChecks(c))
  <2>1. \/ k = "worker_port" /\ ~IsPort(c.worker_port)
        \/ k = "worker_max_parallel" /\ ~(c.worker_max_parallel >= 0)
        \/ k = "worker_timeout" /\ ~(c.worker_timeout >= 0)
        \/ k = "worker_timeout" /\ (c.worker_timeout > 0 /\ c.worker_timeout < Second)
        \/ k = "worker_heartbeat_sec" /\ ~(c.worker_heartbeat_sec >= 0)
    BY <1>3, WorkerErrors
  <2>2. c[k] # DefaultConfig[k] /\ k \in Keys
    BY <2>1, DefaultNumbers, KeysAre, Zenon
  <2>3. QED
    BY <1>1, <2>2
<1>4. CASE k \in Range(ClientChecks(c))
  <2>1. \/ k = "client_timeout" /\ ~(c.client_timeout >= 0)
        \/ k = "client_timeout" /\ (c.client_timeout > 0 /\ c.client_timeout < Second)
    BY <1>4, ClientErrors
  <2>2. c[k] # DefaultConfig[k] /\ k \in Keys
    BY <2>1, DefaultNumbers, KeysAre, Zenon
  <2>3. QED
    BY <1>1, <2>2
<1>5. CASE k \in Range(CacheChecks(c))
  <2>1. \/ k = "cache_max_size_mb" /\ ~(c.cache_max_size_mb > 0)
        \/ k = "cache_ttl_hours" /\ ~(c.cache_ttl_hours > 0)
        \/ k = "cache_dir" /\ c.cache_dir = ""
    BY <1>5, CacheErrors
  <2>2. c[k] # DefaultConfig[k] /\ k \in Keys
    BY <2>1, DefaultNumbers, DefaultTexts, KeysAre, Zenon
  <2>3. QED
    BY <1>1, <2>2
<1>6. CASE k \in Range(LogChecks(c))
  <2>1. \/ k = "log_level" /\ ~(c.log_level \in {"debug", "info", "warn", "error", "fatal"})
        \/ k = "log_format" /\ ~(c.log_format \in {"console", "json"})
        \/ k \in Range(RotationChecks(c))
    BY <1>6, LogErrors
  <2>2. k \in Range(RotationChecks(c)) =>
          \/ k = "log_rotation_max_size_mb" /\ ~(c.log_rotation_max_size_mb > 0)
          \/ k = "log_rotation_max_backups" /\ ~(c.log_rotation_max_backups >= 0)
          \/ k = "log_rotation_max_age_days" /\ ~(c.log_rotation_max_age_days > 0)
    BY RotationErrors
  <2>3. c[k] # DefaultConfig[k] /\ k \in Keys
    BY <2>1, <2>2, DefaultNumbers, DefaultTexts, KeysAre, Zenon
  <2>4. QED
    BY <1>1, <2>3
<1>7. CASE k \in Range(TLSChecks(c))
  <2>1. /\ c.tls_enabled
        /\ \/ k = "tls_cert_file"
           \/ k = "tls_key_file"
           \/ k = "tls_client_ca" /\ c.tls_require_client_cert
    BY <1>7, TLSErrors, Zenon
  <2>2. /\ c["tls_enabled"] # DefaultConfig["tls_enabled"]
        /\ k = "tls_client_ca" => c["tls_require_client_cert"] # DefaultConfig["tls_require_client_cert"]
    BY <2>1, DefaultSwitches
  <2>3. /\ {"tls_enabled", "tls_require_client_cert"} \subseteq Keys
        /\ k = "tls_client_ca" => "tls_require_client_cert" \in Causes(k)
        /\ k \in {"tls_cert_file", "tls_key_file"} => "tls_enabled" \in Causes(k)
    BY KeysAre DEF Causes
  <2>4. QED
    BY <2>1, <2>2, <2>3
<1>8. CASE k \in Range(TracingChecks(c))
  <2>1. \/ k = "tracing_endpoint" /\ c.tracing_endpoint = ""
        \/ k = "tracing_sample_rate" /\ ~(c.tracing_sample_rate \in 0..10)
    BY <1>8, TracingErrors
  <2>2. c[k] # DefaultConfig[k] /\ k \in Keys
    BY <2>1, DefaultNumbers, DefaultTexts, KeysAre, Zenon
  <2>3. QED
    BY <1>1, <2>2
<1>9. QED
  BY <1>2, <1>3, <1>4, <1>5, <1>6, <1>7, <1>8 DEF Errors, FlagErrors

(* Outside the settings of the flags, the defaults are what the sections need. *)
LEMMA OtherSectionsUsable ==
  ASSUME NEW c, IsConfig(c),
         \A k \in Keys \ (FlagKeys \cup {"tls_enabled", "worker_max_parallel"}) : c[k] = DefaultConfig[k],
         c.worker_max_parallel >= 0
  PROVE  CoordinatorUsable(c) /\ WorkerUsable(c) /\ CacheUsable(c) /\ LogUsable(c)
<1>1. Keys \ (FlagKeys \cup {"tls_enabled", "worker_max_parallel"})
        = {"coordinator_grpc_port", "coordinator_http_port", "worker_port",
           "worker_timeout", "worker_heartbeat_sec", "cache_enable",
           "cache_max_size_mb", "cache_ttl_hours", "cache_dir", "log_level", "log_format", "log_file",
           "log_rotation_max_size_mb", "log_rotation_max_backups", "log_rotation_max_age_days",
           "tls_require_client_cert"}
  BY KeysAre DEF FlagKeys
<1>2. \A k \in {"coordinator_grpc_port", "coordinator_http_port", "worker_port",
           "worker_timeout", "worker_heartbeat_sec", "cache_enable",
           "cache_max_size_mb", "cache_ttl_hours", "cache_dir", "log_level", "log_format", "log_file",
           "log_rotation_max_size_mb", "log_rotation_max_backups", "log_rotation_max_age_days",
           "tls_require_client_cert"} : c[k] = DefaultConfig[k]
  BY <1>1, Zenon
<1>3. CoordinatorUsable(c)
  BY <1>2, DefaultNumbers, Zenon DEF CoordinatorUsable
<1>4. WorkerUsable(c)
  <2>1. c["worker_timeout"] = DefaultConfig["worker_timeout"]
    BY <1>2, Zenon
  <2>2. c.worker_timeout >= 0 /\ ~(c.worker_timeout > 0 /\ c.worker_timeout < Second)
    BY <2>1, DefaultNumbers, Zenon
  <2>3. Waitable(c.worker_timeout)
    BY <2>2, ConfigNumbers, WaitableIs, Zenon
  <2>4. c["worker_port"] = DefaultConfig["worker_port"]
          /\ c["worker_heartbeat_sec"] = DefaultConfig["worker_heartbeat_sec"]
    BY <1>2, Zenon
  <2>5. QED
    BY <2>3, <2>4, DefaultNumbers, Zenon DEF WorkerUsable
<1>5. CacheUsable(c)
  BY <1>2, DefaultNumbers, DefaultTexts, Zenon DEF CacheUsable
<1>6. LogUsable(c)
  BY <1>2, DefaultTexts, Zenon DEF LogUsable
<1>7. QED
  BY <1>3, <1>4, <1>5, <1>6

LEMMA UsableNearDefaults ==
  ASSUME NEW c, IsConfig(c), \A k \in Keys \ {"worker_max_parallel"} : c[k] = DefaultConfig[k],
         c.worker_max_parallel >= 0
  PROVE  Usable(c)
<1>1. CoordinatorUsable(c) /\ WorkerUsable(c) /\ CacheUsable(c) /\ LogUsable(c)
  <2>1. \A k \in Keys \ (FlagKeys \cup {"tls_enabled", "worker_max_parallel"}) : c[k] = DefaultConfig[k]
    BY Zenon
  <2>2. QED
    BY <2>1, OtherSectionsUsable
<1>2. {"client_timeout", "tls_enabled", "tracing_enable"} \subseteq Keys \ {"worker_max_parallel"}
  BY KeysAre
<1>3. /\ c["client_timeout"] = DefaultConfig["client_timeout"]
      /\ c["tls_enabled"] = DefaultConfig["tls_enabled"]
      /\ c["tracing_enable"] = DefaultConfig["tracing_enable"]
  BY <1>2, Zenon
<1>4. Waitable(c.client_timeout)
  BY <1>3, DefaultNumbers, ConfigNumbers, WaitableIs, Zenon
<1>5. TLSUsable(c) /\ TracingUsable(c)
  BY <1>3, DefaultSwitches, Zenon DEF TLSUsable, TracingUsable
<1>6. QED
  BY <1>1, <1>4, <1>5, UsableParts

LEMMA DefaultsUsable == Usable(DefaultConfig) /\ Validate(DefaultConfig) = "ok"
<1>1. Usable(DefaultConfig)
  BY DefaultNumbers, DefaultIsConfig, UsableNearDefaults
<1>2. QED
  BY <1>1, DefaultIsConfig, AcceptedIsUsable

-----------------------------------------------------------------------------
(* What the commands load. *)

(* The settings of a file, those that are numbers being numbers. *)
AreSettings(s) ==
  DOMAIN s \subseteq Keys \cup {"undecodable"} /\ \A k \in DOMAIN s \cap NumberKeys : s[k] \in Int

LEMMA MergeIsConfig ==
  ASSUME NEW s, AreSettings(s)
  PROVE  IsConfig(Merge(s))
<1> DEFINE m == Merge(s)
<1>1. \A k \in Keys : m[k] = IF k \in DOMAIN s /\ ~(envSet /\ k \in CoordinatorKeys)
                             THEN s[k] ELSE DefaultConfig[k]
  BY DEF Merge
<1> HIDE DEF m
<1>2. ASSUME NEW k \in NumberKeys PROVE m[k] \in Int
  <2>1. (m[k] = s[k] /\ k \in DOMAIN s) \/ m[k] = DefaultConfig[k]
    BY <1>1 DEF NumberKeys
  <2>2. DefaultConfig[k] \in Int
    BY DefaultIsConfig DEF IsConfig
  <2>3. QED
    BY <2>1, <2>2 DEF AreSettings
<1>3. IsConfig(m)
  BY <1>2 DEF IsConfig
<1>4. QED
  BY <1>3 DEF m

LEMMA MergedExample == Usable(Merge(Example))
<1> DEFINE m == Merge(Example)
<1>1. \A k \in DOMAIN Example : k \in Keys /\ Example[k] = IF k = "worker_max_parallel" THEN 0 ELSE DefaultConfig[k]
  BY DEF Example
<1>2. \A k \in Keys : m[k] = DefaultConfig[k] \/ (k = "worker_max_parallel" /\ m[k] = 0)
  BY <1>1 DEF Merge
<1> HIDE DEF m
<1>3. \A k \in NumberKeys : DefaultConfig[k] \in Int
  BY DefaultIsConfig DEF IsConfig
<1>4. 0 \in Int
  OBVIOUS
<1>5. IsConfig(m)
  BY <1>2, <1>3, <1>4, Zenon DEF IsConfig, NumberKeys
<1>6. "worker_max_parallel" \in Keys
  BY KeysAre
<1>7. m["worker_max_parallel"] >= 0
  <2>1. CASE m["worker_max_parallel"] = 0
    BY <2>1
  <2>2. CASE m["worker_max_parallel"] = DefaultConfig["worker_max_parallel"]
    BY <2>2, DefaultNumbers, Zenon
  <2>3. QED
    BY <1>2, <1>6, <2>1, <2>2
<1>8. \A k \in Keys \ {"worker_max_parallel"} : m[k] = DefaultConfig[k]
  BY <1>2
<1>9. Usable(m)
  BY <1>5, <1>7, <1>8, UsableNearDefaults
<1>10. QED
  BY <1>9 DEF m

(* Every command loads the defaults, the defaults overridden by a file, or by *)
(* the flags, and the verdict is Validate's, for the flags that of their      *)
(* sections.                                                                  *)
Places == {"flag", "init", "search"}

FilesTyped ==
  /\ DOMAIN configFiles = Places /\ configFiles = [p \in Places |-> configFiles[p]]
  /\ \A p \in Places : configFiles[p] = Missing \/ AreSettings(configFiles[p])

ShownVerdict ==
  /\ loaded.status \in {"loaded", "unreadable"} /\ loaded.place \in {"flag", "search"}
  /\ verdict = Validate(loaded.cfg)
  /\ loaded.status = "unreadable" => loaded.cfg = DefaultConfig
  /\ loaded.status = "loaded" =>
       \/ configFiles[loaded.place] = Missing /\ loaded.cfg = DefaultConfig
       \/ configFiles[loaded.place] # Missing /\ loaded.cfg = Merge(configFiles[loaded.place])

FlagsVerdict ==
  /\ loaded.status = "flags"
  /\ \E f \in FlagSets : loaded.cfg = FlagConfig(f)
  /\ verdict = FirstError(ClientChecks(loaded.cfg) \o TLSChecks(loaded.cfg) \o TracingChecks(loaded.cfg))

ConfigInv ==
  /\ FilesTyped
  /\ verdict # "none" => ShownVerdict \/ FlagsVerdict

LEMMA ExampleIsSettings == AreSettings(Example) /\ Example # Missing
<1>1. /\ DOMAIN Example \subseteq Keys /\ "worker_port" \in DOMAIN Example
      /\ \A k \in DOMAIN Example : Example[k] = IF k = "worker_max_parallel" THEN 0 ELSE DefaultConfig[k]
  BY KeysAre DEF Example
<1>2. AreSettings(Example)
  BY <1>1, DefaultIsConfig DEF AreSettings, IsConfig
<1>3. "worker_port" \notin DOMAIN Missing
  BY DEF Missing
<1>4. QED
  BY <1>1, <1>2, <1>3

LEMMA StartIsSettings == \A s \in StartFiles : AreSettings(s)
BY ConfigAssumption DEF IsSettings, IsValue, AreSettings, NumberKeys

LEMMA ConfigInvInit == ConfigInit => ConfigInv
<1> SUFFICES ASSUME ConfigInit PROVE ConfigInv
  OBVIOUS
<1>1. PICK at \in {"flag", "search"}, s \in StartFiles :
        configFiles = [p \in Places |-> IF p = at THEN s ELSE Missing]
  BY DEF ConfigInit, Places
<1>2. FilesTyped
  BY <1>1, StartIsSettings DEF FilesTyped
<1>3. QED
  BY <1>2 DEF ConfigInit, ConfigInv

LEMMA EditKeepsConfigInv ==
  ASSUME ConfigInv, NEW place \in {"flag", "search"}, NEW key \in DOMAIN FileSettings,
         NEW value \in FileSettings[key], Edit(place, key, value)
  PROVE  ConfigInv'
<1> DEFINE s == configFiles[place]
           t == [k \in DOMAIN s \cup {key} |-> IF k = key THEN value ELSE s[k]]
<1>1. place \in Places /\ AreSettings(s)
  BY DEF ConfigInv, FilesTyped, Edit, Places
<1>2. configFiles' = [configFiles EXCEPT ![place] = t] /\ verdict' = "none"
  BY DEF Edit
<1>3. key \in Keys \cup {"undecodable"} /\ (key \in NumberKeys => value \in Int)
  BY ConfigAssumption DEF IsValue, NumberKeys
<1>4. AreSettings(t)
  <2>1. DOMAIN t = DOMAIN s \cup {key} /\ \A k \in DOMAIN t : t[k] = IF k = key THEN value ELSE s[k]
    OBVIOUS
  <2> HIDE DEF t, s
  <2>2. QED
    BY <1>1, <1>3, <2>1 DEF AreSettings
<1> HIDE DEF s, t
<1>5. FilesTyped'
  BY <1>1, <1>2, <1>4 DEF ConfigInv, FilesTyped
<1>6. QED
  BY <1>2, <1>5 DEF ConfigInv

LEMMA ExampleKeepsConfigInv ==
  ASSUME ConfigInv, NEW place \in {"flag", "init"}, WriteExample(place)
  PROVE  ConfigInv'
<1>1. place \in Places /\ configFiles' = [configFiles EXCEPT ![place] = Example] /\ verdict' = "none"
  BY DEF WriteExample, Places
<1>2. FilesTyped'
  BY <1>1, ExampleIsSettings DEF ConfigInv, FilesTyped
<1>3. QED
  BY <1>1, <1>2 DEF ConfigInv

LEMMA ShowKeepsConfigInv ==
  ASSUME ConfigInv, NEW place \in {"flag", "search"}, ConfigShow(place)
  PROVE  ConfigInv'
<1> DEFINE r == Load(place)
           c == IF r.status = "loaded" THEN r.cfg ELSE DefaultConfig
<1>1. /\ loaded' = [status |-> r.status, place |-> place, cfg |-> c]
      /\ verdict' = Validate(c) /\ configFiles' = configFiles /\ envSet' = envSet
  BY DEF ConfigShow
<1>2. \/ r.status = "unreadable"
      \/ /\ r.status = "loaded"
         /\ \/ configFiles[place] = Missing /\ r.cfg = DefaultConfig
            \/ configFiles[place] # Missing /\ r.cfg = Merge(configFiles[place])
  BY DEF Load
<1> HIDE DEF r
<1>3. /\ r.status \in {"loaded", "unreadable"}
      /\ r.status = "unreadable" => c = DefaultConfig
      /\ r.status = "loaded" =>
           \/ configFiles[place] = Missing /\ c = DefaultConfig
           \/ configFiles[place] # Missing /\ c = Merge(configFiles[place])
  BY <1>2
<1> HIDE DEF c
<1>4. loaded'.status = r.status /\ loaded'.place = place /\ loaded'.cfg = c
  BY <1>1
<1>5. \A s : Merge(s)' = Merge(s)
  BY <1>1 DEF Merge
<1>6. ShownVerdict'
  BY <1>1, <1>3, <1>4, Zenon DEF ShownVerdict, Merge
<1>7. FilesTyped'
  BY <1>1 DEF ConfigInv, FilesTyped
<1>8. QED
  BY <1>6, <1>7 DEF ConfigInv

LEMMA PreRunKeepsConfigInv ==
  ASSUME ConfigInv, NEW f \in FlagSets, PreRun(f)
  PROVE  ConfigInv'
<1> DEFINE c == FlagConfig(f)
<1>1. /\ loaded' = [status |-> "flags", place |-> "flags", cfg |-> c]
      /\ verdict' = FirstError(ClientChecks(c) \o TLSChecks(c) \o TracingChecks(c))
      /\ configFiles' = configFiles
  BY DEF PreRun
<1>2. c = FlagConfig(f)
  OBVIOUS
<1> HIDE DEF c
<1>3. loaded'.status = "flags" /\ loaded'.cfg = c
  BY <1>1
<1>4. FlagsVerdict'
  BY <1>1, <1>2, <1>3, Zenon DEF FlagsVerdict
<1>5. FilesTyped'
  BY <1>1 DEF ConfigInv, FilesTyped
<1>6. QED
  BY <1>4, <1>5 DEF ConfigInv

LEMMA ConfigInvNext == ConfigInv /\ [ConfigNext]_configVars => ConfigInv'
<1> SUFFICES ASSUME ConfigInv, [ConfigNext]_configVars PROVE ConfigInv'
  OBVIOUS
<1>1. CASE ConfigNext
  BY <1>1, EditKeepsConfigInv, ExampleKeepsConfigInv, ShowKeepsConfigInv, PreRunKeepsConfigInv DEF ConfigNext
<1>2. CASE UNCHANGED configVars
  BY <1>2 DEF configVars, ConfigInv, FilesTyped, ShownVerdict, FlagsVerdict, Merge
<1>3. QED
  BY <1>1, <1>2

(* The error a file is blamed for goes away with the settings that cause it. *)
LEMMA FileIsBlamed ==
  ASSUME NEW s, Validate(Merge(s)) # "ok"
  PROVE  LET v == Validate(Merge(s))
             t == [k \in DOMAIN s \ Causes(v) |-> s[k]]
         IN Causes(v) \cap DOMAIN s # {} /\ Validate(Merge(t)) # v
<1> DEFINE v == Validate(Merge(s))
           t == [k \in DOMAIN s \ Causes(v) |-> s[k]]
           m == Merge(s)
           n == Merge(t)
<1>1. \A k \in Keys : k \notin DOMAIN s => m[k] = DefaultConfig[k]
  BY DEF Merge
<1>2. \A k \in Keys : k \in Causes(v) => n[k] = DefaultConfig[k]
  <2>1. DOMAIN t = DOMAIN s \ Causes(v)
    OBVIOUS
  <2> HIDE DEF t, v
  <2>2. QED
    BY <2>1 DEF Merge
<1> HIDE DEF m, n
<1>3. v = Validate(m) /\ v # "ok"
  BY DEF m
<1> HIDE DEF v, t
<1>4. v \in Errors(m)
  BY <1>3, ValidateVerdict
<1>5. Causes(v) \cap DOMAIN s # {}
  BY <1>1, <1>4, Blame
<1>6. Validate(n) # v
  <2> SUFFICES ASSUME Validate(n) = v PROVE FALSE
    OBVIOUS
  <2>1. v \in Errors(n)
    BY <1>3, ValidateVerdict
  <2>2. QED
    BY <1>2, <2>1, Blame
<1>7. QED
  BY <1>5, <1>6 DEF n, t, v

LEMMA FlagsConfig ==
  ASSUME NEW f \in FlagSets, NEW c, c = FlagConfig(f)
  PROVE  /\ \A k \in Keys \ (FlagKeys \cup {"tls_enabled"}) : c[k] = DefaultConfig[k]
         /\ IsConfig(c)
<1> DEFINE d == [k \in Keys |-> IF k \in DOMAIN f THEN f[k] ELSE DefaultConfig[k]]
<1>1. \A k \in Keys : d[k] = IF k \in DOMAIN f THEN f[k] ELSE DefaultConfig[k]
  OBVIOUS
<1>2. \A k \in Keys \ {"tls_enabled"} : c[k] = d[k]
  BY DEF FlagConfig
<1> HIDE DEF d
<1>3. DOMAIN f \subseteq FlagKeys /\ \A k \in DOMAIN f : IsValue(k, f[k])
  BY ConfigAssumption DEF IsSettings
<1>4. \A k \in Keys \ (FlagKeys \cup {"tls_enabled"}) : c[k] = DefaultConfig[k]
  BY <1>1, <1>2, <1>3
<1>5. "tls_enabled" \notin NumberKeys
  BY DEF NumberKeys, SwitchKeys
<1>6. ASSUME NEW k \in NumberKeys PROVE c[k] \in Int
  <2>1. k \in Keys \ {"tls_enabled"} /\ DefaultConfig[k] \in Int
    BY <1>5, DefaultIsConfig DEF NumberKeys, IsConfig
  <2>2. k \in DOMAIN f => f[k] \in Int
    BY <1>3 DEF IsValue, NumberKeys
  <2>3. QED
    BY <1>1, <1>2, <2>1, <2>2
<1>7. QED
  BY <1>4, <1>6 DEF IsConfig

LEMMA FlagsAccepted ==
  ASSUME NEW f \in FlagSets, NEW c, c = FlagConfig(f), FlagErrors(c) = {}
  PROVE  Usable(c)
<1>1. IsConfig(c)
  BY FlagsConfig
<1>2. \A k \in Keys \ (FlagKeys \cup {"tls_enabled", "worker_max_parallel"}) : c[k] = DefaultConfig[k]
  BY FlagsConfig
<1>3. "worker_max_parallel" \in Keys \ (FlagKeys \cup {"tls_enabled"})
  BY KeysAre DEF FlagKeys
<1>4. c["worker_max_parallel"] = DefaultConfig["worker_max_parallel"]
  BY <1>3, FlagsConfig
<1>5. c.worker_max_parallel >= 0
  BY <1>4, DefaultNumbers, Zenon
<1>6. CoordinatorUsable(c) /\ WorkerUsable(c) /\ CacheUsable(c) /\ LogUsable(c)
  BY <1>1, <1>2, <1>5, OtherSectionsUsable
<1>7. Range(ClientChecks(c)) = {} /\ Range(TLSChecks(c)) = {} /\ Range(TracingChecks(c)) = {}
  BY DEF FlagErrors
<1>8. Waitable(c.client_timeout) /\ TLSUsable(c) /\ TracingUsable(c)
  BY <1>1, <1>7, SectionsUsable
<1>9. QED
  BY <1>1, <1>6, <1>8, UsableParts

LEMMA InvImpliesAccepted == ConfigInv => ConfigAccepted
<1> SUFFICES ASSUME ConfigInv, verdict # "none" PROVE ConfigAccepted
  BY DEF ConfigAccepted
<1>1. CASE FlagsVerdict
  <2>1. PICK f \in FlagSets : loaded.cfg = FlagConfig(f)
    BY <1>1 DEF FlagsVerdict
  <2>2. verdict = "ok" => FlagErrors(loaded.cfg) = {}
    BY <1>1, FlagVerdict, Zenon DEF FlagsVerdict
  <2>3. verdict = "ok" => Usable(loaded.cfg)
    BY <2>1, <2>2, FlagsAccepted
  <2>4. loaded.status = "flags"
    BY <1>1 DEF FlagsVerdict
  <2>5. QED
    BY <2>3, <2>4 DEF ConfigAccepted
<1>2. CASE ShownVerdict
  <2> DEFINE c == loaded.cfg
             s == configFiles[loaded.place]
  <2>1. verdict = Validate(c) /\ loaded.status \in {"loaded", "unreadable"} /\ loaded.place \in Places
    BY <1>2 DEF ShownVerdict, Places
  <2>2. c = DefaultConfig \/ (loaded.status = "loaded" /\ s # Missing /\ c = Merge(s))
    BY <1>2 DEF ShownVerdict
  <2>3. s = Missing \/ AreSettings(s)
    BY <2>1 DEF ConfigInv, FilesTyped
  <2>4. loaded.status = "unreadable" => c = DefaultConfig
    BY <1>2 DEF ShownVerdict
  <2> HIDE DEF c, s
  <2>5. IsConfig(c)
    BY <2>2, <2>3, DefaultIsConfig, MergeIsConfig
  <2>6. (verdict = "ok") <=> Usable(c)
    BY <2>1, <2>5, AcceptedIsUsable
  <2>7. c = DefaultConfig => verdict = "ok"
    BY <2>6, DefaultsUsable
  <2>8. s = Missing \/ s = Example => verdict = "ok"
    BY <2>2, <2>6, <2>7, MergedExample
  <2>9. verdict # "ok" => c = Merge(s)
    BY <2>2, <2>7
  <2>10. verdict # "ok" =>
           /\ Causes(verdict) \cap DOMAIN s # {}
           /\ Validate(Merge([k \in DOMAIN s \ Causes(verdict) |-> s[k]])) # verdict
    BY <2>1, <2>9, FileIsBlamed
  <2>11. QED
    BY <2>1, <2>4, <2>6, <2>7, <2>8, <2>10 DEF ConfigAccepted, c, s
<1>3. QED
  BY <1>1, <1>2 DEF ConfigInv

(* A configuration is accepted exactly when the programs can run with it, the *)
(* example and the defaults are, and an error blames a setting of the file    *)
(* without which it is gone, for files and flags with any settings.           *)
THEOREM ConfigIsAccepted == ConfigSpec => []ConfigAccepted
<1>1. ConfigSpec => []ConfigInv
  BY ConfigInvInit, ConfigInvNext, PTL DEF ConfigSpec
<1>2. QED
  BY <1>1, InvImpliesAccepted, PTL

-----------------------------------------------------------------------------
(***************************************************************************)
(* Dependency graphs.  A line of a Makefile is closed when the logical     *)
(* line it belongs to is complete, open while continuations are awaited.   *)
(***************************************************************************)

ClosesAt(i, j) ==
  j \in i .. Len(given) /\ ~given[j].cont /\ \A k \in i .. (j - 1) : given[k].cont
Closed(i) == \E j \in i .. Len(given) : ClosesAt(i, j)
AllContinued(i) == \A k \in i .. Len(given) : given[k].cont

DepsAt(i) == UNION {Range(given[k].deps) : k \in Extent(i)}
IsRule(r, i) ==
  /\ r.kind = given[i].kind /\ r.target = given[i].target /\ r.stem = given[i].stem
  /\ r.deps \in Seq(STRING) /\ Range(r.deps) = DepsAt(i)

(* The logical line in the making is what joined holds. *)
LinesOK ==
  /\ given \in Seq(MakeLines)
  /\ \A i \in 1 .. Len(given) : given[i].kind = "more" <=> i > 1 /\ given[i - 1].cont
  /\ \A i \in 1 .. Len(given) : Closed(i) \/ (joined # NoLine /\ AllContinued(i))
  /\ joined # NoLine =>
       \E i \in 1 .. Len(given) : given[i].kind # "more" /\ AllContinued(i) /\ IsRule(joined, i)

(* A rule is drawn, or remembered, or was replaced by a later one. *)
EdgesOf(r) == RuleEdges(r.target, Prerequisites(r))
Drawn(i) == EdgesAt(i) \subseteq edges
Remembered(i) ==
  /\ parse.rule # NoLine /\ EdgesOf(parse.rule) = EdgesAt(i)
  /\ HasRecipe(i) => parse.inRecipe \/ (joined # NoLine /\ joined.kind = "recipe")
Replaced(i) ==
  /\ \E j \in TakenForRules : j > i
  /\ ~HasRecipe(i)
  /\ \E j \in i .. Len(given) : ClosesAt(i, j) /\ j < Len(given)

MakeInv ==
  /\ LinesOK
  /\ parse.rule # NoLine => \E i \in TakenForRules : Closed(i) /\ EdgesOf(parse.rule) = EdgesAt(i)
  /\ \A e \in edges : \E i \in TakenForRules : Closed(i) /\ e \in EdgesAt(i)
  /\ \A i \in TakenForRules : Closed(i) => Drawn(i) \/ Remembered(i) \/ Replaced(i)

MakeDone ==
  /\ \A e \in edges : \E i \in TakenForRules : e \in EdgesAt(i)
  /\ \A i \in TakenForRules :
       HasRecipe(i) \/ (\A j \in TakenForRules : j <= i) => EdgesAt(i) \subseteq edges

CompileDone ==
  \A i \in 1 .. Len(given) : <<SourceOf(given[i]), OutputOf(given[i]), "compiles_to">> \in edges

EdgesHaveNodes == \A e \in edges : {e[1], e[2]} \subseteq DOMAIN nodes

GraphInv ==
  /\ graphFile \in {"Makefile", "compile_commands.json"}
  /\ graphFile = "Makefile" => IF parsed THEN MakeDone ELSE MakeInv
  /\ graphFile = "compile_commands.json" => given \in Seq(CompileCommands) /\ CompileDone
  /\ EdgesHaveNodes

LEMMA LineFields ==
  ASSUME NEW l \in MakeLines
  PROVE  /\ l.kind \in LineKinds /\ l.deps \in Seq(STRING) /\ l.cont \in BOOLEAN
         /\ l.kind # "pattern" => l.stem = ""
BY GraphAssumption

LEMMA KindsAre == "none" \notin LineKinds /\ NoLine.kind = "none"
BY DEF LineKinds, NoLine

LEMMA OneExtent ==
  ASSUME NEW i, NEW j, given \in Seq(MakeLines), i \in 1 .. Len(given), ClosesAt(i, j)
  PROVE  Extent(i) = i .. j
<1>1. Len(given) \in Nat /\ j \in i .. Len(given) /\ ~given[j].cont
      /\ \A k \in i .. (j - 1) : given[k].cont
  BY DEF ClosesAt
<1>2. ASSUME NEW k \in Extent(i) PROVE k \in i .. j
  <2>1. k \in i .. Len(given) /\ \A m \in i .. (k - 1) : given[m].cont
    BY <1>2 DEF Extent
  <2>2. ~(k > j)
    BY <1>1, <2>1
  <2>3. QED
    BY <1>1, <2>1, <2>2
<1>3. ASSUME NEW k \in i .. j PROVE k \in Extent(i)
  <2>1. k \in i .. Len(given) /\ \A m \in i .. (k - 1) : m \in i .. (j - 1)
    BY <1>1
  <2>2. QED
    BY <1>1, <2>1 DEF Extent
<1>4. QED
  BY <1>2, <1>3

LEMMA OpenExtent ==
  ASSUME NEW i, given \in Seq(MakeLines), i \in 1 .. Len(given),
         \A k \in i .. (Len(given) - 1) : given[k].cont
  PROVE  Extent(i) = i .. Len(given)
BY DEF Extent

LEMMA OneEnd ==
  ASSUME NEW i, NEW j, given \in Seq(MakeLines), i \in 1 .. Len(given), ClosesAt(i, j)
  PROVE  HasRecipe(i) <=> j < Len(given) /\ given[j + 1].kind = "recipe"
<1>1. Extent(i) = i .. j
  BY OneExtent
<1>2. Len(given) \in Nat /\ j \in i .. j /\ ~given[j].cont /\ \A k \in i .. (j - 1) : given[k].cont
  BY DEF ClosesAt
<1>3. \A k \in i .. j : ~given[k].cont => k = j
  BY <1>2
<1>4. QED
  BY <1>1, <1>2, <1>3 DEF HasRecipe

LEMMA Appended ==
  ASSUME NEW S, NEW l \in S, given \in Seq(S), given' = Append(given, l)
  PROVE  /\ given' \in Seq(S) /\ Len(given) \in Nat /\ Len(given') = Len(given) + 1
         /\ \A k \in 1 .. Len(given) : given'[k] = given[k]
         /\ given'[Len(given) + 1] = l
OBVIOUS

(* What a closed line stands for does not change when the file goes on. *)
LEMMA ClosedStays ==
  ASSUME NEW i, NEW j, NEW l \in MakeLines, given \in Seq(MakeLines), given' = Append(given, l),
         i \in 1 .. Len(given), ClosesAt(i, j)
  PROVE  /\ ClosesAt(i, j)' /\ i \in 1 .. Len(given')
         /\ EdgesAt(i)' = EdgesAt(i)
<1>1. /\ given' \in Seq(MakeLines) /\ Len(given) \in Nat /\ Len(given') = Len(given) + 1
      /\ \A k \in 1 .. Len(given) : given'[k] = given[k]
  BY Appended
<1>2. j \in i .. Len(given) /\ ~given[j].cont /\ \A k \in i .. (j - 1) : given[k].cont
  BY DEF ClosesAt
<1>3. i \in 1 .. Len(given') /\ j \in i .. Len(given') /\ ~given'[j].cont
      /\ \A k \in i .. (j - 1) : given'[k].cont
  BY <1>1, <1>2
<1>4. ClosesAt(i, j)'
  BY <1>3 DEF ClosesAt
<1>5. Extent(i) = i .. j
  BY OneExtent
<1>6. Extent(i)' = i .. j
  <2>1. ASSUME NEW k \in Extent(i)' PROVE k \in i .. j
    <3>1. k \in i .. Len(given') /\ \A m \in i .. (k - 1) : given'[m].cont
      BY <2>1 DEF Extent
    <3>2. ~(k > j)
      BY <1>1, <1>3, <3>1
    <3>3. QED
      BY <1>1, <1>3, <3>1, <3>2
  <2>2. ASSUME NEW k \in i .. j PROVE k \in Extent(i)'
    <3>1. k \in i .. Len(given') /\ \A m \in i .. (k - 1) : m \in i .. (j - 1)
      BY <1>1, <1>3
    <3>2. QED
      BY <1>3, <3>1 DEF Extent
  <2>3. QED
    BY <2>1, <2>2
<1>7. \A k \in i .. j : given'[k] = given[k]
  BY <1>1, <1>2
<1>8. given'[i] = given[i]
  BY <1>1
<1>9. UNION {Range(given'[k].deps) : k \in i .. j} = UNION {Range(given[k].deps) : k \in i .. j}
  BY <1>7
<1>10. PrerequisitesAt(i)' = PrerequisitesAt(i)
  BY <1>5, <1>6, <1>8, <1>9 DEF PrerequisitesAt
<1>11. EdgesAt(i)' = EdgesAt(i)
  BY <1>8, <1>10 DEF EdgesAt
<1>12. QED
  BY <1>3, <1>4, <1>11

LEMMA RecipeAfter ==
  ASSUME NEW i, NEW j, NEW l \in MakeLines, given \in Seq(MakeLines), given' = Append(given, l),
         i \in 1 .. Len(given), ClosesAt(i, j)
  PROVE  HasRecipe(i)' <=> HasRecipe(i) \/ (j = Len(given) /\ l.kind = "recipe")
<1>1. /\ given' \in Seq(MakeLines) /\ Len(given) \in Nat /\ Len(given') = Len(given) + 1
      /\ \A k \in 1 .. Len(given) : given'[k] = given[k]
      /\ given'[Len(given) + 1] = l
  BY Appended
<1>2. ClosesAt(i, j)' /\ i \in 1 .. Len(given')
  BY ClosedStays
<1>5. j \in 1 .. Len(given)
  BY DEF ClosesAt
<1>3. HasRecipe(i) <=> j < Len(given) /\ given[j + 1].kind = "recipe"
  BY OneEnd
<1>4. HasRecipe(i)' <=> j < Len(given') /\ given'[j + 1].kind = "recipe"
  <2>1. given' \in Seq(MakeLines) /\ i \in 1 .. Len(given') /\ ClosesAt(i, j)'
    BY <1>1, <1>2
  <2>2. Extent(i)' = i .. j
    <3>1. /\ Len(given') \in Nat /\ j \in i .. Len(given') /\ ~given'[j].cont
          /\ \A k \in i .. (j - 1) : given'[k].cont
      BY <1>1, <1>2 DEF ClosesAt
    <3>2. ASSUME NEW k \in Extent(i)' PROVE k \in i .. j
      <4>1. k \in i .. Len(given') /\ \A m \in i .. (k - 1) : given'[m].cont
        BY <3>2 DEF Extent
      <4>2. ~(k > j)
        BY <3>1, <4>1
      <4>3. QED
        BY <3>1, <4>1, <4>2
    <3>3. ASSUME NEW k \in i .. j PROVE k \in Extent(i)'
      <4>1. k \in i .. Len(given') /\ \A m \in i .. (k - 1) : m \in i .. (j - 1)
        BY <3>1
      <4>2. QED
        BY <3>1, <4>1 DEF Extent
    <3>4. QED
      BY <3>2, <3>3
  <2>3. /\ j \in i .. j /\ ~given'[j].cont /\ \A k \in i .. (j - 1) : given'[k].cont
    BY <1>2 DEF ClosesAt
  <2>4. ASSUME NEW k \in i .. j, ~given'[k].cont PROVE k = j
    <3>1. k \in i .. (j - 1) \/ k = j
      BY <1>1, <1>5
    <3>2. QED
      BY <2>3, <2>4, <3>1, Zenon
  <2>5. QED
    BY <2>2, <2>3, <2>4 DEF HasRecipe
<1>6. j < Len(given) => given'[j + 1] = given[j + 1]
  BY <1>1, <1>5
<1>7. QED
  BY <1>1, <1>3, <1>4, <1>5, <1>6

(* The line the parser handles after reading l, and where it starts. *)
LEMMA LineRead ==
  ASSUME LinesOK, NEW l \in MakeLines, NEW line, line = Join(joined, l),
         given' = Append(given, l), (joined # NoLine) = (l.kind = "more")
  PROVE  /\ line # NoLine /\ line.cont = l.cont
         /\ IF joined = NoLine THEN line = l ELSE line.kind = joined.kind
         /\ \E i \in 1 .. Len(given') :
              /\ given'[i].kind # "more" /\ IsRule(line, i)'
              /\ \A k \in i .. Len(given) : given'[k].cont
              /\ \A k \in i .. Len(given) : k \in 1 .. Len(given) /\ given[k].cont
<1>1. /\ given' \in Seq(MakeLines) /\ Len(given) \in Nat /\ Len(given') = Len(given) + 1
      /\ \A k \in 1 .. Len(given) : given'[k] = given[k]
      /\ given'[Len(given) + 1] = l
  BY Appended DEF LinesOK
<1>2. l.kind \in LineKinds /\ l.deps \in Seq(STRING)
  BY LineFields
<1>3. CASE joined = NoLine
  <2>1. line = l
    BY <1>3 DEF Join
  <2>2. line # NoLine
    BY <1>2, <2>1, KindsAre
  <2>0. PICK i \in Nat : i = Len(given) + 1
    BY <1>1
  <2>3. i \in 1 .. Len(given') /\ given'[i] = l /\ given'[i].kind # "more"
    BY <1>1, <1>3, <2>0
  <2>4. Extent(i)' = {i}
    BY <1>1, <2>0 DEF Extent
  <2>5. DepsAt(i)' = Range(l.deps)
    BY <2>3, <2>4 DEF DepsAt
  <2>6. IsRule(line, i)'
    BY <1>2, <2>1, <2>3, <2>5 DEF IsRule
  <2>7. i .. Len(given) = {}
    BY <1>1, <2>0
  <2>8. QED
    BY <1>3, <2>1, <2>2, <2>3, <2>6, <2>7
<1>4. CASE joined # NoLine
  <2>1. PICK i \in 1 .. Len(given) :
          given[i].kind # "more" /\ AllContinued(i) /\ IsRule(joined, i)
    BY <1>4 DEF LinesOK
  <2>2. line = [kind |-> joined.kind, target |-> joined.target, stem |-> joined.stem,
                deps |-> joined.deps \o l.deps, cont |-> l.cont]
    BY <1>4 DEF Join
  <2>3. /\ line.kind = joined.kind /\ line.target = joined.target /\ line.stem = joined.stem
        /\ line.deps = joined.deps \o l.deps /\ line.cont = l.cont
    <3> DEFINE a == joined.kind
               b == joined.target
               c == joined.stem
               d == joined.deps \o l.deps
               e == l.cont
    <3>1. line = [kind |-> a, target |-> b, stem |-> c, deps |-> d, cont |-> e]
      BY <2>2
    <3> HIDE DEF a, b, c, d, e
    <3>2. line.kind = a /\ line.target = b /\ line.stem = c /\ line.deps = d /\ line.cont = e
      BY <3>1
    <3>3. QED
      BY <3>2 DEF a, b, c, d, e
  <2>4. /\ joined.kind = given[i].kind /\ joined.target = given[i].target /\ joined.stem = given[i].stem
        /\ joined.deps \in Seq(STRING) /\ Range(joined.deps) = DepsAt(i)
    BY <2>1 DEF IsRule
  <2>5. given[i] \in MakeLines
    BY <2>1 DEF LinesOK
  <2>6. line # NoLine
    BY <2>3, <2>4, <2>5, LineFields, KindsAre
  <2>7. \A k \in i .. Len(given) : k \in 1 .. Len(given) /\ given[k].cont
    BY <1>1, <2>1 DEF AllContinued
  <2>8. Extent(i) = i .. Len(given)
    BY <1>1, <2>1, <2>7, OpenExtent, SMTT(30) DEF LinesOK
  <2>9. Extent(i)' = i .. Len(given')
    BY <1>1, <2>1, <2>7 DEF Extent
  <2>10. DepsAt(i)' = DepsAt(i) \cup Range(l.deps)
    <3>1. i .. Len(given') = (i .. Len(given)) \cup {Len(given) + 1}
      BY <1>1, <2>1
    <3>2. \A k \in i .. Len(given) : given'[k] = given[k]
      BY <1>1, <2>7
    <3>3. DepsAt(i)' = UNION {Range(given'[k].deps) : k \in (i .. Len(given)) \cup {Len(given) + 1}}
      BY <2>9, <3>1 DEF DepsAt
    <3>4. DepsAt(i) = UNION {Range(given[k].deps) : k \in i .. Len(given)}
      BY <2>8 DEF DepsAt
    <3>5. QED
      BY <1>1, <3>2, <3>3, <3>4
  <2>11. line.deps \in Seq(STRING) /\ Range(line.deps) = Range(joined.deps) \cup Range(l.deps)
    BY <1>2, <2>3, <2>4, JoinedTexts
  <2>12. given'[i] = given[i] /\ i \in 1 .. Len(given')
    BY <1>1, <2>1
  <2>13. IsRule(line, i)'
    BY <2>3, <2>4, <2>10, <2>11, <2>12 DEF IsRule
  <2>14. \A k \in i .. Len(given) : given'[k].cont
    BY <1>1, <2>7
  <2>15. QED
    BY <1>4, <2>1, <2>3, <2>6, <2>7, <2>12, <2>13, <2>14
<1>5. QED
  BY <1>3, <1>4

LEMMA JoinedIff ==
  ASSUME LinesOK
  PROVE  joined # NoLine <=> Len(given) > 0 /\ given[Len(given)].cont
<1>1. Len(given) \in Nat
  BY DEF LinesOK
<1>2. ASSUME joined # NoLine PROVE Len(given) > 0 /\ given[Len(given)].cont
  <2>1. PICK i \in 1 .. Len(given) : AllContinued(i)
    BY <1>2 DEF LinesOK
  <2>2. Len(given) \in i .. Len(given) /\ Len(given) > 0
    BY <1>1
  <2>3. QED
    BY <2>1, <2>2 DEF AllContinued
<1>3. ASSUME joined = NoLine, Len(given) > 0 PROVE ~given[Len(given)].cont
  <2>1. Len(given) \in 1 .. Len(given)
    BY <1>1, <1>3
  <2>2. Closed(Len(given))
    BY <1>3, <2>1 DEF LinesOK
  <2>3. PICK j \in Len(given) .. Len(given) : ClosesAt(Len(given), j)
    BY <2>2 DEF Closed
  <2>4. j = Len(given)
    BY <1>1
  <2>5. QED
    BY <2>3, <2>4 DEF ClosesAt
<1>4. QED
  BY <1>2, <1>3

(* Reading a line closes the open lines, or leaves them open. *)
LEMMA ReadCloses ==
  ASSUME LinesOK, NEW l \in MakeLines, given' = Append(given, l), ~l.cont,
         NEW n, n = Len(given'),
         NEW i \in 1 .. n, \A k \in i .. Len(given) : given'[k].cont
  PROVE  ClosesAt(i, n)'
<1>1. /\ Len(given) \in Nat /\ Len(given') = Len(given) + 1 /\ given'[Len(given) + 1] = l
  BY Appended DEF LinesOK
<1>2. n \in i .. Len(given') /\ n - 1 = Len(given)
  BY <1>1
<1>3. ~given'[n].cont
  BY <1>1
<1>4. \A k \in i .. (n - 1) : given'[k].cont
  BY <1>2
<1>5. QED
  BY <1>2, <1>3, <1>4 DEF ClosesAt

LEMMA LinesKept ==
  ASSUME LinesOK, NEW l \in MakeLines, ReadMakeLine(l)
  PROVE  LinesOK'
<1>1. given' = Append(given, l) /\ (joined # NoLine) = (l.kind = "more")
  BY DEF ReadMakeLine
<1>2. /\ given' \in Seq(MakeLines) /\ Len(given) \in Nat /\ Len(given') = Len(given) + 1
      /\ \A k \in 1 .. Len(given) : given'[k] = given[k]
      /\ given'[Len(given) + 1] = l
  BY <1>1, Appended DEF LinesOK
<1>3. PICK line : line = Join(joined, l)
  OBVIOUS
<1>4. IF l.cont THEN joined' = line ELSE joined' = NoLine
  BY <1>3, Zenon DEF ReadMakeLine
<1>5. /\ line # NoLine
      /\ \E i \in 1 .. Len(given') :
              /\ given'[i].kind # "more" /\ IsRule(line, i)'
              /\ \A k \in i .. Len(given) : given'[k].cont
  BY <1>1, <1>3, LineRead, ZenonT(60)
<1>6. ASSUME NEW i \in 1 .. Len(given')
      PROVE  given'[i].kind = "more" <=> i > 1 /\ given'[i - 1].cont
  <2>1. CASE i \in 1 .. Len(given)
    <3>1. given'[i] = given[i] /\ (i > 1 => given'[i - 1] = given[i - 1])
      BY <1>2, <2>1
    <3>2. given[i].kind = "more" <=> i > 1 /\ given[i - 1].cont
      BY <2>1 DEF LinesOK
    <3>3. QED
      BY <3>1, <3>2
  <2>2. CASE i = Len(given) + 1
    <3>1. given'[i].kind = "more" <=> joined # NoLine
      BY <1>1, <1>2, <2>2
    <3>2. joined # NoLine <=> Len(given) > 0 /\ given[Len(given)].cont
      BY JoinedIff
    <3>3. i - 1 = Len(given) /\ (i > 1 <=> Len(given) > 0)
            /\ (Len(given) > 0 => given'[Len(given)] = given[Len(given)])
      BY <1>2, <2>2
    <3>4. QED
      BY <3>1, <3>2, <3>3
  <2>3. QED
    BY <1>2, <2>1, <2>2
<1>7. ASSUME NEW i \in 1 .. Len(given')
      PROVE  Closed(i)' \/ (joined' # NoLine /\ AllContinued(i)')
  <2>1. CASE i \in 1 .. Len(given) /\ Closed(i)
    <3>1. PICK j \in i .. Len(given) : ClosesAt(i, j)
      BY <2>1 DEF Closed
    <3>2. ClosesAt(i, j)'
      BY <1>1, <2>1, <3>1, ClosedStays DEF LinesOK
    <3>3. j \in i .. Len(given')
      BY <1>2
    <3>4. QED
      BY <3>2, <3>3 DEF Closed
  <2>2. CASE ~(i \in 1 .. Len(given) /\ Closed(i))
    <3>1. \A k \in i .. Len(given) : given'[k].cont
      <4>1. CASE i \in 1 .. Len(given)
        <5>1. AllContinued(i)
          BY <2>2, <4>1 DEF LinesOK
        <5>2. \A k \in i .. Len(given) : given'[k] = given[k]
          BY <1>2, <4>1
        <5>3. QED
          BY <5>1, <5>2 DEF AllContinued
      <4>2. CASE i \notin 1 .. Len(given)
        BY <1>2, <4>2
      <4>3. QED
        BY <4>1, <4>2
    <3>2. CASE ~l.cont
      <4>0. PICK n \in Nat : n = Len(given')
        BY <1>2
      <4>1. ClosesAt(i, n)'
        BY <1>1, <3>1, <3>2, <4>0, ReadCloses
      <4>2. n \in i .. Len(given')
        BY <1>2, <4>0
      <4>3. QED
        BY <4>1, <4>2 DEF Closed
    <3>3. CASE l.cont
      <4>1. joined' # NoLine
        BY <1>4, <1>5, <3>3
      <4>2. \A k \in i .. Len(given') : k \in i .. Len(given) \/ k = Len(given) + 1
        BY <1>2
      <4>3. AllContinued(i)'
        BY <1>2, <3>1, <3>3, <4>2 DEF AllContinued
      <4>4. QED
        BY <4>1, <4>3
    <3>4. QED
      BY <3>2, <3>3
  <2>3. QED
    BY <2>1, <2>2
<1>8. ASSUME joined' # NoLine
      PROVE  \E i \in 1 .. Len(given') :
               given'[i].kind # "more" /\ AllContinued(i)' /\ IsRule(joined, i)'
  <2>1. l.cont /\ joined' = line
    BY <1>4, <1>8
  <2>2. PICK i \in 1 .. Len(given') :
              /\ given'[i].kind # "more" /\ IsRule(line, i)'
              /\ \A k \in i .. Len(given) : given'[k].cont
    BY <1>5
  <2>3. \A k \in i .. Len(given') : k \in i .. Len(given) \/ k = Len(given) + 1
    BY <1>2
  <2>4. AllContinued(i)'
    BY <1>2, <2>1, <2>2, <2>3 DEF AllContinued
  <2>5. IsRule(joined, i)'
    BY <2>1, <2>2 DEF IsRule
  <2>6. QED
    BY <2>2, <2>4, <2>5
<1>9. QED
  BY <1>2, <1>6, <1>7, <1>8 DEF LinesOK

(* What the parser does with a line: it awaits the rest of it, or it handles a *)
(* recipe line, the end of a recipe, or any other line.                        *)
Awaits(line) == joined' = line /\ UNCHANGED <<parse, edges>>
InRecipe(line) ==
  line.kind = "recipe" /\ parse'.rule = parse.rule /\ parse'.inRecipe /\ edges' = edges
EndsRecipe(line) ==
  /\ line.kind # "recipe" /\ parse.rule # NoLine
  /\ edges' = edges \cup EdgesOf(parse.rule)
  /\ parse'.rule = IF StartsRule(line) THEN line ELSE NoLine
PassesBy(line) ==
  /\ line.kind # "recipe" /\ ~(parse.inRecipe /\ parse.rule # NoLine)
  /\ edges' = edges
  /\ IF StartsRule(line) THEN parse'.rule = line ELSE parse' = parse

LEMMA Handled ==
  ASSUME NEW l, ReadMakeLine(l), NEW line, line = Join(joined, l)
  PROVE  \/ l.cont /\ Awaits(line)
         \/ ~l.cont /\ joined' = NoLine /\ (InRecipe(line) \/ EndsRecipe(line) \/ PassesBy(line))
<1>1. CASE l.cont
  BY <1>1, Zenon DEF ReadMakeLine, Awaits
<1>2. CASE ~l.cont
  <2>1. joined' = NoLine /\ HandleLine(line)
    BY <1>2, Zenon DEF ReadMakeLine
  <2>2. CASE line.kind = "recipe" /\ parse' = [rule |-> parse.rule, inRecipe |-> TRUE] /\ UNCHANGED <<nodes, edges>>
    <3> DEFINE r == parse.rule
    <3>1. parse' = [rule |-> r, inRecipe |-> TRUE] /\ edges' = edges
      BY <2>2
    <3> HIDE DEF r
    <3>2. parse'.rule = r /\ parse'.inRecipe = TRUE
      BY <3>1
    <3>3. InRecipe(line)
      BY <2>2, <3>1, <3>2, Zenon DEF InRecipe, r
    <3>4. QED
      BY <1>2, <2>1, <3>3
  <2>3. CASE line.kind # "recipe" /\ Flush(line)
    <3>1. /\ parse.rule # NoLine
          /\ parse' = IF StartsRule(line) THEN [rule |-> line, inRecipe |-> FALSE] ELSE NoRule
          /\ edges' = edges \cup EdgesOf(parse.rule)
      BY <2>3, Zenon DEF Flush, processRule, EdgesOf
    <3>2. parse'.rule = IF StartsRule(line) THEN line ELSE NoLine
      BY <3>1 DEF NoRule
    <3>3. EndsRecipe(line)
      BY <2>3, <3>1, <3>2, Zenon DEF EndsRecipe
    <3>4. QED
      BY <1>2, <2>1, <3>3
  <2>4. CASE /\ line.kind # "recipe"
             /\ ~(parse.inRecipe /\ parse.rule # NoLine)
             /\ parse' = IF StartsRule(line) THEN [rule |-> line, inRecipe |-> parse.inRecipe] ELSE parse
             /\ UNCHANGED <<nodes, edges>>
    <3> DEFINE b == parse.inRecipe
    <3>1. StartsRule(line) => parse' = [rule |-> line, inRecipe |-> b]
      BY <2>4
    <3> HIDE DEF b
    <3>2. StartsRule(line) => parse'.rule = line
      BY <3>1
    <3>3. PassesBy(line)
      BY <2>4, <3>2, Zenon DEF PassesBy
    <3>4. QED
      BY <1>2, <2>1, <3>3
  <2>5. QED
    BY <1>2, <2>1, <2>2, <2>3, <2>4, Zenon DEF HandleLine
<1>3. QED
  BY <1>1, <1>2

LEMMA OldRuleStays ==
  ASSUME MakeInv, NEW l \in MakeLines, given' = Append(given, l), NEW i \in TakenForRules, Closed(i)
  PROVE  i \in TakenForRules' /\ Closed(i)' /\ EdgesAt(i)' = EdgesAt(i)
<1>1. given \in Seq(MakeLines) /\ i \in 1 .. Len(given)
  BY DEF MakeInv, LinesOK, TakenForRules, RuleLines, AssignLines
<1>2. PICK j \in i .. Len(given) : ClosesAt(i, j)
  BY DEF Closed
<1>3. ClosesAt(i, j)' /\ i \in 1 .. Len(given') /\ EdgesAt(i)' = EdgesAt(i)
  BY <1>1, <1>2, ClosedStays
<1>4. j \in i .. Len(given') /\ given'[i] = given[i]
  BY <1>1, <1>2, Appended
<1>5. QED
  BY <1>3, <1>4 DEF Closed, TakenForRules, RuleLines, AssignLines

LEMMA EdgesOfRule ==
  ASSUME NEW r, NEW i, IsRule(r, i)'
  PROVE  EdgesOf(r) = EdgesAt(i)'
BY DEF IsRule, EdgesOf, Prerequisites, EdgesAt, PrerequisitesAt, DepsAt

(* The status of a rule that was complete before the line was read. *)
LEMMA StatusKept ==
  ASSUME MakeInv, NEW l \in MakeLines, ReadMakeLine(l), NEW i \in TakenForRules, Closed(i)
  PROVE  Drawn(i)' \/ Remembered(i)' \/ Replaced(i)'
<1>1. /\ LinesOK /\ given' = Append(given, l) /\ (joined # NoLine) = (l.kind = "more")
      /\ given \in Seq(MakeLines) /\ i \in 1 .. Len(given)
  BY DEF MakeInv, LinesOK, ReadMakeLine, TakenForRules, RuleLines, AssignLines
<1>2. Len(given) \in Nat /\ Len(given') = Len(given) + 1
  BY <1>1, Appended
<1>3. i \in TakenForRules' /\ EdgesAt(i)' = EdgesAt(i)
  BY <1>1, OldRuleStays
<1>4. PICK line : line = Join(joined, l)
  OBVIOUS
<1>5. line # NoLine /\ IF joined = NoLine THEN line = l ELSE line.kind = joined.kind
  BY <1>1, <1>4, LineRead, Zenon
<1>6. \/ l.cont /\ Awaits(line)
      \/ ~l.cont /\ joined' = NoLine /\ (InRecipe(line) \/ EndsRecipe(line) \/ PassesBy(line))
  BY <1>4, Handled
<1>7. edges \subseteq edges'
  BY <1>6 DEF Awaits, InRecipe, EndsRecipe, PassesBy
<1>8. CASE Drawn(i)
  BY <1>3, <1>7, <1>8 DEF Drawn
<1>9. CASE Replaced(i)
  <2>1. PICK j \in TakenForRules : j > i
    BY <1>9 DEF Replaced
  <2>2. j \in TakenForRules'
    BY <1>1, <1>2, <2>1, Appended DEF TakenForRules, RuleLines, AssignLines
  <2>3. PICK m \in i .. Len(given) : ClosesAt(i, m) /\ m < Len(given)
    BY <1>9 DEF Replaced
  <2>4. ~HasRecipe(i)'
    <3>1. HasRecipe(i)' <=> HasRecipe(i) \/ (m = Len(given) /\ l.kind = "recipe")
      BY <1>1, <2>3, RecipeAfter
    <3>2. ~HasRecipe(i)
      BY <1>9 DEF Replaced
    <3>3. QED
      BY <1>2, <2>3, <3>1, <3>2
  <2>5. ClosesAt(i, m)' /\ m \in i .. Len(given') /\ m < Len(given')
    BY <1>1, <1>2, <2>3, ClosedStays
  <2>6. QED
    BY <2>1, <2>2, <2>4, <2>5 DEF Replaced
<1>10. CASE Remembered(i)
  <2>1. PICK m \in i .. Len(given) : ClosesAt(i, m)
    BY DEF Closed
  <2>2. HasRecipe(i)' <=> HasRecipe(i) \/ (m = Len(given) /\ l.kind = "recipe")
    BY <1>1, <2>1, RecipeAfter
  <2>3. /\ parse.rule # NoLine /\ EdgesOf(parse.rule) = EdgesAt(i)
        /\ HasRecipe(i) => parse.inRecipe \/ (joined # NoLine /\ joined.kind = "recipe")
    BY <1>10 DEF Remembered
  <2>4. HasRecipe(i)' => parse.inRecipe \/ line.kind = "recipe"
    BY <1>1, <1>5, <2>2, <2>3
  <2>5. CASE l.cont /\ Awaits(line)
    <3>1. parse' = parse /\ joined' = line
      BY <2>5 DEF Awaits
    <3>2. QED
      BY <1>3, <1>5, <2>3, <2>4, <3>1 DEF Remembered, EdgesOf, Prerequisites
  <2>6. CASE InRecipe(line)
    BY <1>3, <2>3, <2>6 DEF Remembered, InRecipe, EdgesOf, Prerequisites
  <2>7. CASE EndsRecipe(line)
    BY <1>3, <2>3, <2>7 DEF Drawn, EndsRecipe
  <2>8. CASE ~l.cont /\ PassesBy(line)
    <3>1. ~HasRecipe(i)'
      BY <2>3, <2>4, <2>8 DEF PassesBy
    <3>2. CASE StartsRule(line)
      <4>1. PICK s \in 1 .. Len(given') :
              /\ given'[s].kind # "more" /\ IsRule(line, s)'
              /\ \A k \in s .. Len(given) : k \in 1 .. Len(given) /\ given[k].cont
        BY <1>1, <1>4, LineRead, Zenon
      <4>2. line.kind = given'[s].kind /\ line.kind \in {"rule", "pattern", "assign"}
        BY <3>2, <4>1 DEF StartsRule, IsRule
      <4>3. s \in TakenForRules'
        BY <4>2 DEF TakenForRules, RuleLines, AssignLines
      <4>4. ~given[m].cont
        BY <2>1 DEF ClosesAt
      <4>5. s > i
        BY <1>1, <1>2, <2>1, <4>1, <4>4
      <4>6. ClosesAt(i, m)' /\ m \in i .. Len(given') /\ m < Len(given')
        BY <1>1, <1>2, <2>1, ClosedStays
      <4>7. QED
        BY <3>1, <4>3, <4>5, <4>6 DEF Replaced
    <3>3. CASE ~StartsRule(line)
      <4>1. parse' = parse
        BY <2>8, <3>3 DEF PassesBy
      <4>2. QED
        BY <1>3, <2>3, <3>1, <4>1 DEF Remembered, EdgesOf, Prerequisites
    <3>4. QED
      BY <3>2, <3>3
  <2>9. QED
    BY <1>6, <2>5, <2>6, <2>7, <2>8
<1>11. QED
  BY <1>8, <1>9, <1>10 DEF MakeInv

(* A rule that the line completes. *)
LEMMA NewRuleStatus ==
  ASSUME MakeInv, NEW l \in MakeLines, ReadMakeLine(l), NEW i \in TakenForRules', Closed(i)',
         ~(i \in TakenForRules /\ Closed(i))
  PROVE  Drawn(i)' \/ Remembered(i)' \/ Replaced(i)'
<1>1. /\ LinesOK /\ given' = Append(given, l) /\ (joined # NoLine) = (l.kind = "more")
      /\ given \in Seq(MakeLines)
  BY DEF MakeInv, LinesOK, ReadMakeLine
<1>2. /\ given' \in Seq(MakeLines) /\ Len(given) \in Nat /\ Len(given') = Len(given) + 1
      /\ \A k \in 1 .. Len(given) : given'[k] = given[k]
      /\ given'[Len(given) + 1] = l
  BY <1>1, Appended
<1>3. i \in 1 .. Len(given') /\ given'[i].kind \in {"rule", "pattern", "assign"}
  BY DEF TakenForRules, RuleLines, AssignLines
<1>4. \A k \in i .. Len(given) : given'[k].cont
  <2>1. CASE i \in 1 .. Len(given)
    <3>1. given'[i] = given[i]
      BY <1>2, <2>1
    <3>2. i \in TakenForRules
      BY <1>3, <2>1, <3>1 DEF TakenForRules, RuleLines, AssignLines
    <3>3. AllContinued(i)
      BY <1>1, <2>1, <3>2 DEF LinesOK
    <3>4. \A k \in i .. Len(given) : given'[k] = given[k]
      BY <1>2, <2>1
    <3>5. QED
      BY <3>3, <3>4 DEF AllContinued
  <2>2. CASE i \notin 1 .. Len(given)
    BY <1>2, <1>3, <2>2
  <2>3. QED
    BY <2>1, <2>2
<1>5. ~l.cont
  <2>1. PICK j \in i .. Len(given') : ClosesAt(i, j)'
    BY DEF Closed
  <2>2. ~given'[j].cont
    BY <2>1 DEF ClosesAt
  <2>3. j = Len(given) + 1
    BY <1>2, <1>3, <1>4, <2>1, <2>2
  <2>4. QED
    BY <1>2, <2>2, <2>3
<1>6. PICK line : line = Join(joined, l)
  OBVIOUS
<1>7. PICK s \in 1 .. Len(given') :
        /\ given'[s].kind # "more" /\ IsRule(line, s)'
        /\ \A k \in s .. Len(given) : given'[k].cont
  BY <1>1, <1>6, LineRead, Zenon
<1>8. line # NoLine
  BY <1>1, <1>6, LineRead, Zenon
<1>9. s = i
  <2>1. \A k \in 1 .. Len(given') : given'[k].kind = "more" <=> k > 1 /\ given'[k - 1].cont
    BY <1>1, LinesKept DEF LinesOK
  <2>2. CASE i < s
    <3>1. s - 1 \in i .. Len(given) /\ s > 1
      BY <1>2, <1>3, <1>7, <2>2
    <3>2. QED
      BY <1>4, <1>7, <2>1, <3>1
  <2>3. CASE s < i
    <3>1. i - 1 \in s .. Len(given) /\ i > 1
      BY <1>2, <1>3, <1>7, <2>3
    <3>2. QED
      BY <1>3, <1>7, <2>1, <3>1
  <2>4. QED
    BY <1>3, <1>7, <2>2, <2>3
<1>10. IsRule(line, i)' /\ EdgesOf(line) = EdgesAt(i)'
  BY <1>7, <1>9, EdgesOfRule
<1>11. line.kind = given'[i].kind /\ line.stem = given'[i].stem
  BY <1>10 DEF IsRule
<1>12. ~HasRecipe(i)'
  BY <1>2, <1>3, <1>4 DEF HasRecipe, Extent
<1>13. EndsRecipe(line) \/ PassesBy(line)
  BY <1>3, <1>5, <1>6, <1>11, Handled DEF InRecipe
<1>14. CASE StartsRule(line)
  <2>1. parse'.rule = line
    BY <1>13, <1>14 DEF EndsRecipe, PassesBy
  <2>2. Remembered(i)'
    BY <1>8, <1>10, <1>12, <2>1 DEF Remembered, EdgesOf, Prerequisites
  <2>3. QED
    BY <2>2
<1>15. CASE ~StartsRule(line)
  <2>1. line.kind # "pattern" /\ line.deps = <<>>
    BY <1>3, <1>11, <1>15 DEF StartsRule
  <2>2. line.stem = ""
    <3>1. given'[i] \in MakeLines
      BY <1>2, <1>3
    <3>2. given'[i].kind # "pattern" => given'[i].stem = ""
      BY <3>1, LineFields
    <3>3. QED
      BY <1>11, <2>1, <3>2, Zenon
  <2>3. Range(line.deps) = {}
    BY <2>1 DEF Range
  <2>4. EdgesOf(line) = {}
    BY <2>2, <2>3 DEF EdgesOf, RuleEdges, Prerequisites, Named
  <2>5. QED
    BY <1>10, <2>4 DEF Drawn
<1>16. QED
  BY <1>14, <1>15

LEMMA MakeReadKeeps ==
  ASSUME MakeInv, NEW l \in MakeLines, ReadMakeLine(l)
  PROVE  MakeInv'
<1>1. /\ LinesOK /\ given' = Append(given, l) /\ (joined # NoLine) = (l.kind = "more")
  BY DEF MakeInv, ReadMakeLine
<1>2. LinesOK'
  BY <1>1, LinesKept
<1>3. \A i \in TakenForRules : Closed(i) => i \in TakenForRules' /\ Closed(i)' /\ EdgesAt(i)' = EdgesAt(i)
  BY <1>1, OldRuleStays
<1>4. PICK line : line = Join(joined, l)
  OBVIOUS
<1>5. \/ l.cont /\ Awaits(line)
      \/ ~l.cont /\ (InRecipe(line) \/ EndsRecipe(line) \/ PassesBy(line))
  BY <1>4, Handled
<1>6. ASSUME parse.rule # NoLine
      PROVE  \E i \in TakenForRules' : Closed(i)' /\ EdgesOf(parse.rule) = EdgesAt(i)'
  <2>1. PICK i \in TakenForRules : Closed(i) /\ EdgesOf(parse.rule) = EdgesAt(i)
    BY <1>6 DEF MakeInv
  <2>2. QED
    BY <1>3, <2>1
<1>7. ASSUME ~l.cont, StartsRule(line)
      PROVE  \E i \in TakenForRules' : Closed(i)' /\ EdgesOf(line) = EdgesAt(i)'
  <2>1. PICK s \in 1 .. Len(given') :
          /\ given'[s].kind # "more" /\ IsRule(line, s)'
          /\ \A k \in s .. Len(given) : given'[k].cont
    BY <1>1, <1>4, LineRead, Zenon
  <2>2. line.kind = given'[s].kind /\ line.kind \in {"rule", "pattern", "assign"}
    BY <1>7, <2>1 DEF StartsRule, IsRule
  <2>3. s \in TakenForRules'
    BY <2>2 DEF TakenForRules, RuleLines, AssignLines
  <2>4. PICK n \in Nat : n = Len(given')
    BY <1>2 DEF LinesOK
  <2>5. ClosesAt(s, n)'
    BY <1>1, <1>7, <2>1, <2>4, ReadCloses
  <2>6. n \in s .. Len(given')
    BY <2>4
  <2>7. Closed(s)'
    BY <2>5, <2>6 DEF Closed
  <2>8. QED
    BY <2>1, <2>3, <2>7, EdgesOfRule
<1>8. parse'.rule # NoLine =>
        \/ parse.rule # NoLine /\ parse'.rule = parse.rule
        \/ ~l.cont /\ StartsRule(line) /\ parse'.rule = line
  BY <1>5 DEF Awaits, InRecipe, EndsRecipe, PassesBy
<1>9. (parse.rule # NoLine => \E i \in TakenForRules : Closed(i) /\ EdgesOf(parse.rule) = EdgesAt(i))'
  <2>1. ASSUME NEW r, r = parse'.rule, r # NoLine
        PROVE  \E i \in TakenForRules' : Closed(i)' /\ EdgesOf(r) = EdgesAt(i)'
    BY <1>6, <1>7, <1>8, <2>1
  <2>2. QED
    BY <2>1 DEF EdgesOf, Prerequisites
<1>10. ASSUME NEW e \in edges'
       PROVE  \E i \in TakenForRules' : Closed(i)' /\ e \in EdgesAt(i)'
  <2>1. e \in edges \/ (parse.rule # NoLine /\ e \in EdgesOf(parse.rule))
    BY <1>5 DEF Awaits, InRecipe, EndsRecipe, PassesBy
  <2>2. CASE e \in edges
    <3>1. PICK i \in TakenForRules : Closed(i) /\ e \in EdgesAt(i)
      BY <2>2 DEF MakeInv
    <3>2. QED
      BY <1>3, <3>1
  <2>3. QED
    BY <1>6, <2>1, <2>2
<1>11. ASSUME NEW i \in TakenForRules', Closed(i)'
       PROVE  Drawn(i)' \/ Remembered(i)' \/ Replaced(i)'
  BY <1>11, StatusKept, NewRuleStatus
<1>12. QED
  BY <1>2, <1>9, <1>10, <1>11 DEF MakeInv

LEMMA EndDraws ==
  ASSUME MakeInv, EndOfMakefile
  PROVE  MakeDone'
<1>1. given' = given /\ joined = NoLine
  BY DEF EndOfMakefile
<1>2. \/ parse.rule # NoLine /\ edges' = edges \cup EdgesOf(parse.rule)
      \/ parse.rule = NoLine /\ edges' = edges
  BY Zenon DEF EndOfMakefile, processRule, EdgesOf
<1>3. ASSUME NEW e \in edges' PROVE \E i \in TakenForRules : e \in EdgesAt(i)
  <2>1. e \in edges \/ (parse.rule # NoLine /\ e \in EdgesOf(parse.rule))
    BY <1>2
  <2>2. QED
    BY <2>1 DEF MakeInv
<1>4. ASSUME NEW i \in TakenForRules, HasRecipe(i) \/ (\A j \in TakenForRules : j <= i)
      PROVE  EdgesAt(i) \subseteq edges'
  <2>1. i \in 1 .. Len(given) /\ given \in Seq(MakeLines)
    BY DEF TakenForRules, RuleLines, AssignLines, MakeInv, LinesOK
  <2>2. Closed(i)
    BY <1>1, <2>1 DEF MakeInv, LinesOK
  <2>3. Drawn(i) \/ Remembered(i) \/ Replaced(i)
    BY <2>2 DEF MakeInv
  <2>4. ~Replaced(i)
    <3>1. \A j \in TakenForRules : j \in Int
      BY DEF TakenForRules, RuleLines, AssignLines
    <3>2. QED
      BY <1>4, <2>1, <3>1 DEF Replaced
  <2>5. QED
    BY <1>2, <2>3, <2>4 DEF Drawn, Remembered
<1>5. TakenForRules' = TakenForRules /\ \A i : EdgesAt(i)' = EdgesAt(i) /\ HasRecipe(i)' = HasRecipe(i)
  BY <1>1 DEF TakenForRules, RuleLines, AssignLines, EdgesAt, PrerequisitesAt, Extent, HasRecipe
<1>6. QED
  BY <1>3, <1>4, <1>5, Zenon DEF MakeDone

LEMMA ProcessAddsNodes ==
  ASSUME EdgesHaveNodes, NEW r, processRule(r)
  PROVE  EdgesHaveNodes'
<1> DEFINE names == Prerequisites(r)
           files == {File(d) : d \in names} \cup {File(r.target)}
<1>1. nodes' = AddNodes(nodes, files, [f \in files |-> inferNodeType(f)])
      /\ edges' = edges \cup RuleEdges(r.target, names)
  BY Zenon DEF processRule
<1>2. DOMAIN nodes' = DOMAIN nodes \cup files
  BY <1>1 DEF AddNodes
<1> HIDE DEF names
<1>3. ASSUME NEW e \in RuleEdges(r.target, names) PROVE {e[1], e[2]} \subseteq files
  <2>1. PICK d \in names :
          e = <<File(d), File(r.target), inferEdgeType(inferNodeType(File(d)), inferNodeType(File(r.target)))>>
    BY <1>3 DEF RuleEdges
  <2>2. e[1] = File(d) /\ e[2] = File(r.target)
    BY <2>1
  <2>3. QED
    BY <2>2
<1> HIDE DEF files
<1>4. QED
  BY <1>1, <1>2, <1>3 DEF EdgesHaveNodes

LEMMA ReadAddsNodes ==
  ASSUME EdgesHaveNodes, NEW l, ReadMakeLine(l)
  PROVE  EdgesHaveNodes'
<1>1. (\E r : processRule(r)) \/ UNCHANGED <<nodes, edges>>
  BY Zenon DEF ReadMakeLine, HandleLine, Flush
<1>2. CASE UNCHANGED <<nodes, edges>>
  BY <1>2 DEF EdgesHaveNodes
<1>3. QED
  BY <1>1, <1>2, ProcessAddsNodes

LEMMA EntryAdds ==
  ASSUME EdgesHaveNodes, given \in Seq(CompileCommands), CompileDone,
         NEW c \in CompileCommands, ReadCompileCommand(c)
  PROVE  EdgesHaveNodes' /\ given' \in Seq(CompileCommands) /\ CompileDone'
<1> DEFINE src == SourceOf(c)
           obj == OutputOf(c)
           dirs == {File(d) : d \in c.includes}
           files == {src, obj} \cup dirs
<1>1. /\ given' = Append(given, c)
      /\ nodes' = AddNodes(nodes, files, [f \in files |->
                                IF f \in dirs THEN "header"
                                ELSE IF f = obj THEN "object" ELSE "source"])
      /\ edges' = edges \cup {<<src, obj, "compiles_to">>} \cup {<<d, src, "includes">> : d \in dirs}
  BY Zenon DEF ReadCompileCommand
<1>2. obj = OutputOf(c) /\ src = SourceOf(c)
  OBVIOUS
<1>3. src \in files /\ obj \in files /\ dirs \subseteq files
  OBVIOUS
<1>4. DOMAIN nodes' = DOMAIN nodes \cup files
  BY <1>1 DEF AddNodes
<1> HIDE DEF files, dirs, src, obj
<1>5. ASSUME NEW e \in edges' PROVE {e[1], e[2]} \subseteq DOMAIN nodes'
  <2>1. CASE e \in edges
    BY <1>4, <2>1 DEF EdgesHaveNodes
  <2>2. CASE e = <<src, obj, "compiles_to">>
    BY <1>3, <1>4, <2>2
  <2>3. CASE \E d \in dirs : e = <<d, src, "includes">>
    BY <1>3, <1>4, <2>3
  <2>4. QED
    BY <1>1, <2>1, <2>2, <2>3
<1>6. /\ given' \in Seq(CompileCommands) /\ Len(given) \in Nat /\ Len(given') = Len(given) + 1
      /\ \A k \in 1 .. Len(given) : given'[k] = given[k]
      /\ given'[Len(given) + 1] = c
  BY <1>1, Appended
<1>7. ASSUME NEW i \in 1 .. Len(given')
      PROVE  <<SourceOf(given'[i]), OutputOf(given'[i]), "compiles_to">> \in edges'
  <2>1. CASE i = Len(given) + 1
    BY <1>1, <1>2, <1>6, <2>1
  <2>2. CASE i \in 1 .. Len(given)
    BY <1>1, <1>6, <2>2 DEF CompileDone
  <2>3. QED
    BY <1>6, <2>1, <2>2
<1>8. QED
  BY <1>5, <1>6, <1>7 DEF EdgesHaveNodes, CompileDone, SourceOf, OutputOf

LEMMA GraphInvInit == GraphInit => GraphInv
<1> SUFFICES ASSUME GraphInit PROVE GraphInv
  OBVIOUS
<1>1. /\ graphFile \in {"Makefile", "compile_commands.json"} /\ given = <<>> /\ joined = NoLine
      /\ edges = {} /\ parsed = FALSE /\ parse.rule = NoLine
  BY DEF GraphInit, NoRule
<1>2. given \in Seq(MakeLines) /\ given \in Seq(CompileCommands) /\ 1 .. Len(given) = {}
  BY <1>1
<1>3. LinesOK
  BY <1>1, <1>2 DEF LinesOK
<1>4. MakeInv
  BY <1>1, <1>2, <1>3 DEF MakeInv, TakenForRules, RuleLines, AssignLines
<1>5. CompileDone
  BY <1>2 DEF CompileDone
<1>6. QED
  BY <1>1, <1>2, <1>4, <1>5 DEF GraphInv, EdgesHaveNodes

LEMMA GraphInvNext == GraphInv /\ [GraphNext]_graphVars => GraphInv'
<1> SUFFICES ASSUME GraphInv, [GraphNext]_graphVars PROVE GraphInv'
  OBVIOUS
<1>1. ASSUME NEW l \in MakeLines, ReadMakeLine(l) PROVE GraphInv'
  <2>1. graphFile = "Makefile" /\ graphFile' = "Makefile" /\ ~parsed /\ ~parsed'
    BY <1>1 DEF ReadMakeLine
  <2>2. MakeInv'
    BY <1>1, <2>1, MakeReadKeeps DEF GraphInv
  <2>3. EdgesHaveNodes'
    BY <1>1, ReadAddsNodes DEF GraphInv
  <2>4. QED
    BY <2>1, <2>2, <2>3 DEF GraphInv
<1>2. CASE EndOfMakefile
  <2>1. graphFile = "Makefile" /\ graphFile' = "Makefile" /\ ~parsed /\ parsed'
    BY <1>2 DEF EndOfMakefile
  <2>2. MakeDone'
    BY <1>2, <2>1, EndDraws DEF GraphInv
  <2>3. (\E r : processRule(r)) \/ UNCHANGED <<nodes, edges>>
    BY <1>2, Zenon DEF EndOfMakefile
  <2>4. EdgesHaveNodes'
    <3>1. CASE UNCHANGED <<nodes, edges>>
      BY <3>1 DEF GraphInv, EdgesHaveNodes
    <3>2. QED
      BY <2>3, <3>1, ProcessAddsNodes DEF GraphInv
  <2>5. QED
    BY <2>1, <2>2, <2>4 DEF GraphInv
<1>3. ASSUME NEW c \in CompileCommands, ReadCompileCommand(c) PROVE GraphInv'
  <2>1. graphFile = "compile_commands.json" /\ graphFile' = graphFile
    BY <1>3 DEF ReadCompileCommand
  <2>2. EdgesHaveNodes' /\ given' \in Seq(CompileCommands) /\ CompileDone'
    BY <1>3, <2>1, EntryAdds DEF GraphInv
  <2>3. QED
    BY <2>1, <2>2 DEF GraphInv
<1>4. CASE EndOfCompileCommands
  <2>1. /\ graphFile = "compile_commands.json" /\ graphFile' = graphFile
        /\ given' = given /\ edges' = edges /\ nodes' = nodes
    BY <1>4 DEF EndOfCompileCommands
  <2>2. QED
    BY <2>1 DEF GraphInv, CompileDone, EdgesHaveNodes
<1>5. CASE UNCHANGED graphVars
  <2>1. /\ graphFile' = graphFile /\ given' = given /\ joined' = joined /\ parse' = parse
        /\ nodes' = nodes /\ edges' = edges /\ parsed' = parsed
    BY <1>5 DEF graphVars
  <2>2. LinesOK' = LinesOK
    BY <2>1 DEF LinesOK, Closed, ClosesAt, AllContinued, IsRule, DepsAt, Extent
  <2>3. /\ TakenForRules' = TakenForRules
        /\ \A i : /\ EdgesAt(i)' = EdgesAt(i) /\ Closed(i)' = Closed(i) /\ HasRecipe(i)' = HasRecipe(i)
                  /\ Replaced(i)' = Replaced(i)
    BY <2>1 DEF TakenForRules, RuleLines, AssignLines, EdgesAt, PrerequisitesAt, Extent, HasRecipe, Closed, ClosesAt, Replaced
  <2>4. \A i : Drawn(i)' = Drawn(i) /\ Remembered(i)' = Remembered(i)
    BY <2>1, <2>3 DEF Drawn, Remembered, EdgesOf, Prerequisites
  <2>5. MakeInv => MakeInv'
    BY <2>1, <2>2, <2>3, <2>4, Zenon DEF MakeInv, EdgesOf, Prerequisites
  <2>6. MakeDone => MakeDone'
    BY <2>1, <2>3, Zenon DEF MakeDone
  <2>7. CompileDone => CompileDone'
    BY <2>1 DEF CompileDone
  <2>8. QED
    BY <2>1, <2>5, <2>6, <2>7 DEF GraphInv, EdgesHaveNodes
<1>6. QED
  BY <1>1, <1>2, <1>3, <1>4, <1>5 DEF GraphNext

(* Every edge of a Makefile's graph comes from one rule, or from one assignment *)
(* with := that was taken for a rule; no rule with a recipe is missing, and no  *)
(* entry of a compilation database: for files of any length.                    *)
THEOREM GraphsAreComplete == GraphSpec => []GraphComplete
<1>1. GraphSpec => []GraphInv
  BY GraphInvInit, GraphInvNext, PTL DEF GraphSpec
<1>2. GraphInv => GraphComplete
  <2>1. MakeDone =>
          /\ \A e \in edges : \/ \E i \in RuleLines : e \in EdgesAt(i)
                             \/ \E i \in AssignLines : e \in EdgesAt(i)
          /\ \A i \in RuleLines :
               HasRecipe(i) \/ (\A j \in TakenForRules : j <= i) => EdgesAt(i) \subseteq edges
    BY Zenon DEF MakeDone, TakenForRules
  <2>2. QED
    BY <2>1, Zenon DEF GraphInv, GraphComplete, CompileDone, EdgesHaveNodes
<1>3. QED
  BY <1>1, <1>2, PTL

-----------------------------------------------------------------------------
(***************************************************************************)
(* Mobile builds.                                                          *)
(***************************************************************************)

ModeOptions == [output : {"apk", "appbundle"}, mode : BuildModes \cup {""}, known : BOOLEAN]

LEMMA ModeTokenType ==
  ASSUME NEW o \in ModeOptions, NEW t PROVE ModeToken(o, t) \in ModeOptions
BY DEF ModeOptions, ModeToken, BuildModes

ReadModes(base, tokens) == FoldLeft(ModeToken, base, tokens)

ModesRead(p, n, base, tokens) ==
  /\ p \in [0..n -> ModeOptions]
  /\ p[0] = base
  /\ \A k \in 1..n : p[k] = ModeToken(p[k - 1], tokens[k])
  /\ ReadModes(base, tokens) = p[n]

(* The words of build_mode are read one after the other. *)
LEMMA ModeFold ==
  ASSUME NEW n \in Nat, NEW base \in ModeOptions, NEW tokens, DOMAIN tokens = 1..n
  PROVE  \E p : ModesRead(p, n, base, tokens)
<1> DEFINE IsTable(it) == it = [s \in SUBSET (1..n) |->
              IF s = {} THEN base ELSE ModeToken(it[s \ {Max(s)}], tokens[Max(s)])]
           table == CHOOSE it : IsTable(it)
           st == [x \in (SUBSET (1..n)) \X ModeOptions |-> ModeToken(x[2], tokens[Max(x[1])])]
<1>1. st \in [(SUBSET (1..n)) \X ModeOptions -> ModeOptions]
  BY ModeTokenType
<1>2. \A s \in SUBSET (1..n), v \in ModeOptions : st[<<s, v>>] = ModeToken(v, tokens[Max(s)])
  OBVIOUS
<1>3. ReadModes(base, tokens) = table[1..n]
  BY Zenon DEF ReadModes, FoldLeft, MapThenFoldSet
<1> HIDE DEF st
<1>4. PICK it \in [SUBSET (1..n) -> ModeOptions] : IsFold(st, base, it, SUBSET (1..n))
  BY <1>1, FoldTableExists
<1>5. IsTable(it)
  <2>1. \A s \in SUBSET (1..n) : s \ {Max(s)} \in SUBSET (1..n)
    OBVIOUS
  <2>2. QED
    BY <1>2, <1>4, <2>1 DEF IsFold
<1>6. IsTable(table)
  BY <1>5, Zenon
<1> DEFINE p == [k \in 0..n |-> table[1..k]]
<1> HIDE DEF table
<1>7. p[0] = base /\ p[n] = table[1..n]
  <2>1. 0 \in 0..n /\ n \in 0..n /\ 1..0 = {} /\ {} \in SUBSET (1..n)
    OBVIOUS
  <2>2. table[{}] = base
    BY <1>6, <2>1
  <2>3. QED
    BY <2>1, <2>2
<1>8. ASSUME NEW k \in 1..n PROVE p[k] = ModeToken(p[k - 1], tokens[k])
  <2>1. 1..k \in SUBSET (1..n) /\ 1..k # {} /\ Max(1..k) = k /\ (1..k) \ {k} = 1..(k - 1)
    BY MaxUpTo
  <2>2. table[1..k] = ModeToken(table[1..(k - 1)], tokens[k])
    BY <1>6, <2>1
  <2>3. QED
    BY <2>2
<1>9. p \in [0..n -> ModeOptions]
  <2> DEFINE G == {k \in 0..n : p[k] \in ModeOptions}
  <2>1. 0 \in G
    BY <1>7
  <2>2. ASSUME NEW k \in 1..n, k - 1 \in G PROVE k \in G
    <3>1. k - 1 \in 0..n /\ p[k - 1] \in ModeOptions /\ k \in 0..n
      BY <2>2
    <3> HIDE DEF p
    <3>2. p[k] \in ModeOptions
      BY <1>8, <3>1, ModeTokenType
    <3>3. QED
      BY <3>1, <3>2
  <2>3. \A k \in 0..n : k \in G
    <3> HIDE DEF G
    <3> QED BY <2>1, <2>2, UpTo
  <2>4. QED
    BY <2>3
<1>10. QED
  <2> HIDE DEF p
  <2> QED BY <1>3, <1>7, <1>8, <1>9 DEF ModesRead

LEMMA ModesResolved ==
  ASSUME NEW out \in {"apk", "appbundle"}, NEW mode \in BuildModes
  PROVE  /\ resolveFlutterBuildOptions(<<out, mode>>).output = out
         /\ resolveFlutterBuildOptions(<<out, mode>>).mode = mode
<1> DEFINE tokens == <<out, mode>>
           n == 2
           base == [output |-> "apk", mode |-> "", known |-> TRUE]
<1>1. n \in Nat /\ n = 2 /\ DOMAIN tokens = 1..n /\ tokens[1] = out /\ tokens[2] = mode
  OBVIOUS
<1>2. base \in ModeOptions
  BY DEF ModeOptions
<1>3. resolveFlutterBuildOptions(<<out, mode>>) = LET r == ReadModes(base, tokens)
      IN IF r.mode = "" THEN [r EXCEPT !.mode = "release"] ELSE r
  BY Zenon DEF resolveFlutterBuildOptions, ReadModes
<1> HIDE DEF base, tokens, n
<1>4. PICK p : ModesRead(p, n, base, tokens)
  BY <1>1, <1>2, ModeFold
<1>5. p[1] = ModeToken(base, out) /\ p[2] = ModeToken(p[1], mode) /\ p[1] \in ModeOptions
  BY <1>1, <1>4 DEF ModesRead
<1>6. p[1].output = out
  BY <1>5, <1>2 DEF ModeToken, ModeOptions, BuildModes
<1>7. p[2].output = p[1].output /\ p[2].mode = mode /\ p[2].mode # ""
  BY <1>5 DEF ModeToken, ModeOptions, BuildModes
<1>8. QED
  BY <1>1, <1>3, <1>4, <1>6, <1>7 DEF ModesRead

(* A tool was run for the order: on the archive, with the words of the order. *)
ToolRan ==
  /\ request = buildRequest(order) /\ Understood(order)
  /\ argv = toolArgs(request, machine)
  /\ Archived(order) \subseteq DOMAIN workspace
  /\ \A f \in DOMAIN workspace : workspace[f] = "built" \/ f \in Archived(order)

(* What the tool wrote, as Collect finds it. *)
Found ==
  IF request.kind = "flutter" THEN collectFlutterArtifacts ELSE collectUnityArtifacts

(* How much of this is so at each stage. *)
MobileInv ==
  /\ order \in MobileOrders
  /\ mstage \in {"typed", "sent", "placed", "built", "over"}
  /\ mstage # "over" => outcome = "none"
  /\ mstage = "typed" => argv = Nothing
  /\ mstage \in {"sent", "placed"} =>
       argv = Nothing /\ request = buildRequest(order) /\ Understood(order)
  /\ mstage = "built" => ToolRan
  /\ mstage = "over" => \/ argv = Nothing /\ outcome # "ok"
                        \/ ToolRan /\ (outcome = "ok" => artifacts = Found /\ Found # {})

LEMMA MobileInvInit == MobileInit => MobileInv
BY DEF MobileInit, MobileInv

LEMMA SubmitKeeps == MobileInv /\ Submit => MobileInv'
<1> SUFFICES ASSUME MobileInv, Submit PROVE MobileInv'
  OBVIOUS
<1>1. /\ order' = order /\ order \in MobileOrders /\ mstage = "typed" /\ argv' = Nothing
      /\ outcome = "none"
  BY DEF MobileInv, Submit
<1>2. CASE \E why \in {"usage", "too large", "no coordinator"} : End(why)
  BY <1>1, <1>2 DEF End, MobileInv
<1>3. CASE Understood(order) /\ request' = buildRequest(order) /\ mstage' = "sent" /\ outcome' = outcome
  <2>1. Understood(order)' /\ buildRequest(order)' = buildRequest(order)
    BY <1>1, <1>3 DEF Understood, buildRequest, Archived
  <2>2. QED
    BY <1>1, <1>3, <2>1 DEF MobileInv
<1>4. QED
  BY <1>2, <1>3 DEF Submit

LEMMA PlaceKeeps == ASSUME NEW fleet, MobileInv, Place(fleet) PROVE MobileInv'
<1>1. /\ order' = order /\ order \in MobileOrders /\ mstage = "sent" /\ argv' = Nothing
      /\ outcome = "none" /\ request' = request /\ request = buildRequest(order) /\ Understood(order)
  BY DEF MobileInv, Place
<1>2. CASE \E why \in {"no worker", "unimplemented"} : End(why)
  BY <1>1, <1>2 DEF End, MobileInv
<1>3. CASE mstage' = "placed" /\ outcome' = outcome
  <2>1. Understood(order)' /\ buildRequest(order)' = buildRequest(order)
    BY <1>1, <1>3 DEF Understood, buildRequest, Archived
  <2>2. QED
    BY <1>1, <1>3, <2>1 DEF MobileInv
<1>4. QED
  BY <1>2, <1>3 DEF Place

LEMMA HandedKeeps == ASSUME NEW m, MobileInv, Handed(m) PROVE MobileInv'
<1>1. /\ order' = order /\ order \in MobileOrders /\ mstage = "sent" /\ argv' = Nothing
      /\ outcome' = "none" /\ request' = request /\ request = buildRequest(order) /\ Understood(order)
      /\ mstage' = "placed"
  BY DEF MobileInv, Handed
<1>2. Understood(order)' /\ buildRequest(order)' = buildRequest(order)
  BY <1>1 DEF Understood, buildRequest, Archived
<1>3. QED
  BY <1>1, <1>2 DEF MobileInv

LEMMA RunToolKeeps ==
  ASSUME NEW written, NEW ok \in BOOLEAN, MobileInv, RunTool(written, ok)
  PROVE  MobileInv'
<1>1. /\ order' = order /\ order \in MobileOrders /\ mstage = "placed"
      /\ outcome = "none" /\ request' = request /\ request = buildRequest(order) /\ Understood(order)
      /\ machine' = machine /\ argv' = toolArgs(request, machine)
  BY DEF MobileInv, RunTool
<1>2. request.archive = Archived(order)
  BY <1>1 DEF buildRequest
<1>3. workspace' = [f \in Archived(order) \cup written |->
                      IF f \in written THEN "built" ELSE Unpacked(Archived(order))[f]]
  BY <1>2 DEF RunTool
<1>4. Understood(order)' /\ buildRequest(order)' = buildRequest(order) /\ Archived(order)' = Archived(order)
  BY <1>1 DEF Understood, buildRequest, Archived
<1>5. toolArgs(request, machine)' = toolArgs(request, machine)
  BY <1>1 DEF toolArgs
<1>6. ToolRan'
  <2> HIDE DEF Archived
  <2> QED BY <1>1, <1>3, <1>4, <1>5 DEF ToolRan
<1>7. (mstage' = "built" /\ outcome' = "none") \/ (mstage' = "over" /\ outcome' = "failed")
  BY <1>1 DEF RunTool, End
<1>8. QED
  BY <1>1, <1>6, <1>7 DEF MobileInv

LEMMA CollectKeeps == MobileInv /\ Collect => MobileInv'
<1> SUFFICES ASSUME MobileInv, Collect PROVE MobileInv'
  OBVIOUS
<1>1. /\ order' = order /\ order \in MobileOrders /\ mstage = "built" /\ ToolRan
      /\ request' = request /\ machine' = machine /\ argv' = argv /\ workspace' = workspace
  BY DEF MobileInv, Collect
<1>2. ToolRan'
  BY <1>1 DEF ToolRan, buildRequest, Archived, Understood, toolArgs
<1>3. Found' = Found
  BY <1>1 DEF Found, collectFlutterArtifacts, collectUnityArtifacts, Under
<1>4. mstage' = "over" /\ (outcome' = "ok" => artifacts' = Found /\ Found # {})
  BY DEF Collect, Found, End
<1>5. QED
  BY <1>1, <1>2, <1>3, <1>4 DEF MobileInv

LEMMA MobileInvNext == MobileInv /\ [MobileNext]_mobileVars => MobileInv'
<1> SUFFICES ASSUME MobileInv, [MobileNext]_mobileVars PROVE MobileInv'
  OBVIOUS
<1>1. CASE UNCHANGED mobileVars
  <2>1. /\ order' = order /\ mstage' = mstage /\ request' = request /\ machine' = machine
        /\ argv' = argv /\ workspace' = workspace /\ artifacts' = artifacts /\ outcome' = outcome
    BY <1>1 DEF mobileVars
  <2>2. ToolRan' = ToolRan /\ Found' = Found
    BY <2>1 DEF ToolRan, buildRequest, Archived, Understood, toolArgs, Found,
                collectFlutterArtifacts, collectUnityArtifacts, Under
  <2>3. buildRequest(order)' = buildRequest(order) /\ Understood(order)' = Understood(order)
    BY <2>1 DEF buildRequest, Archived, Understood
  <2>4. QED
    BY <2>1, <2>2, <2>3 DEF MobileInv
<1>2. QED
  BY <1>1, SubmitKeeps, PlaceKeeps, HandedKeeps, RunToolKeeps, CollectKeeps DEF MobileNext

LEMMA OptionsDoArrive == MobileInv => OptionsArrive
<1> SUFFICES ASSUME MobileInv, argv # Nothing PROVE OptionsArrive
  BY DEF OptionsArrive
<1>1. ToolRan /\ order \in MobileOrders
  BY DEF MobileInv
<1>2. /\ request = buildRequest(order) /\ Understood(order) /\ argv = toolArgs(request, machine)
  BY <1>1 DEF ToolRan
<1>3. ASSUME order.kind = "flutter"
      PROVE  /\ argv.target = order.output /\ argv.flavor = Plain(order.flavor)
             /\ argv.mode = Plain(order.mode) \/ (argv.mode = "release" /\ Plain(order.mode) = "")
  <2>1. order.output \in {"apk", "appbundle"}
    BY <1>1, <1>3, MobileAssumption
  <2>2. normalizeBuildMode(order.mode) \in BuildModes
    BY <1>2, <1>3, Zenon DEF Understood
  <2>3. /\ request.kind = "flutter" /\ request.flavor = Plain(order.flavor)
        /\ request.tokens = <<order.output, normalizeBuildMode(order.mode)>>
    BY <1>2, <1>3 DEF buildRequest
  <2>4. /\ argv.target = resolveFlutterBuildOptions(request.tokens).output
        /\ argv.mode = resolveFlutterBuildOptions(request.tokens).mode
        /\ argv.flavor = request.flavor
    BY <1>2, <2>3 DEF toolArgs
  <2>5. argv.target = order.output /\ argv.mode = normalizeBuildMode(order.mode)
    BY <2>1, <2>2, <2>3, <2>4, ModesResolved
  <2>6. QED
    BY <2>3, <2>4, <2>5 DEF normalizeBuildMode
<1>4. ASSUME order.kind = "unity"
      PROVE  /\ argv.method = Plain(order.method) /\ argv.backend = Plain(order.backend)
             /\ \A p \in Platforms : argv.target = buildTargetToUnityString(p)
                                     => p = Plain(order.platform)
             /\ Len(machine.editors) = 1 => argv.tool = machine.editors[1]
  <2>1. Plain(order.platform) \in Platforms
    BY <1>2, <1>4, Zenon DEF Understood
  <2>2. /\ request.kind = "unity" /\ request.platform = Plain(order.platform)
        /\ request.method = Plain(order.method) /\ request.backend = Plain(order.backend)
    BY <1>2, <1>4 DEF buildRequest
  <2>3. /\ argv.tool = machine.editors[Len(machine.editors)]
        /\ argv.target = buildTargetToUnityString(request.platform)
        /\ argv.method = request.method /\ argv.backend = request.backend
    BY <1>2, <2>2 DEF toolArgs
  <2>4. \A p, q \in Platforms : buildTargetToUnityString(p) = buildTargetToUnityString(q) => p = q
    BY DEF Platforms, buildTargetToUnityString
  <2>5. QED
    BY <2>1, <2>2, <2>3, <2>4
<1>5. QED
  BY <1>3, <1>4 DEF OptionsArrive

LEMMA PartsAre ==
  ASSUME NEW o \in MobileOrders, o.kind \in {"flutter", "unity"}, NEW f \in o.project
  PROVE  /\ f.dirs \in Seq(STRING) /\ Range(Parts(f)) = Range(f.dirs) \cup {f.name}
         /\ f.dirs = <<>> => Parts(f)[1] = f.name
         /\ f.dirs # <<>> => Parts(f)[1] = f.dirs[1] /\ 1 <= Len(f.dirs)
<1> DEFINE d == f.dirs
           n == f.name
<1>1. d \in Seq(STRING) /\ n \in STRING
  BY MobileAssumption
<1>2. Parts(f) = Append(d, n)
  BY DEF Parts
<1> HIDE DEF d, n
<1>3. Range(Append(d, n)) = Range(d) \cup {n}
  BY <1>1, AppendRange
<1>4. d = <<>> => Append(d, n)[1] = n
  BY <1>1
<1>5. d # <<>> => Append(d, n)[1] = d[1] /\ 1 <= Len(d)
  BY <1>1
<1>6. QED
  BY <1>1, <1>2, <1>3, <1>4, <1>5, Zenon DEF d, n

LEMMA OwnFilesSent ==
  ASSUME NEW o \in MobileOrders, o.kind \in {"flutter", "unity"}, NEW f \in o.project,
         ~InOutputs(o.kind, f), ~LooksGenerated(o.kind, f)
  PROVE  f \in Archived(o)
<1>1. /\ f.dirs \in Seq(STRING) /\ Range(Parts(f)) = Range(f.dirs) \cup {f.name}
      /\ f.dirs = <<>> => Parts(f)[1] = f.name
      /\ f.dirs # <<>> => Parts(f)[1] = f.dirs[1] /\ 1 <= Len(f.dirs)
  BY PartsAre
<1>2. CASE o.kind = "flutter"
  <2>1. \A d \in FlutterOutputs : \E i \in DOMAIN d : ~Has(f, i, d[i])
    BY <1>2, Zenon DEF InOutputs
  <2>2. ASSUME NEW x \in {"build", ".dart_tool", ".git"} PROVE ~Has(f, 1, x)
    <3>1. <<x>> \in FlutterOutputs
      BY Zenon DEF FlutterOutputs
    <3>2. DOMAIN <<x>> = {1} /\ <<x>>[1] = x
      OBVIOUS
    <3>3. QED
      BY <2>1, <3>1, <3>2
  <2>3. ~(Has(f, 1, "android") /\ Has(f, 2, "app") /\ Has(f, 3, "build"))
    <3> DEFINE d == <<"android", "app", "build">>
    <3>1. d \in FlutterOutputs
      BY Zenon DEF FlutterOutputs
    <3>2. DOMAIN d = {1, 2, 3} /\ d[1] = "android" /\ d[2] = "app" /\ d[3] = "build"
      OBVIOUS
    <3> HIDE DEF d
    <3>3. QED
      BY <2>1, <3>1, <3>2
  <2>4. Parts(f)[1] \notin {"build", ".dart_tool", ".git"}
    <3>1. CASE f.dirs = <<>>
      BY <1>1, <1>2, <3>1, Zenon DEF LooksGenerated
    <3>2. CASE f.dirs # <<>>
      BY <1>1, <2>2, <3>2, Zenon DEF Has
    <3>3. QED
      BY <3>1, <3>2
  <2>5. ~flutterAffixes(f)
    BY <1>2, <2>3, Zenon DEF LooksGenerated, flutterAffixes
  <2>6. QED
    BY <1>2, <2>4, <2>5, Zenon DEF Archived, flutterExcludes
<1>3. CASE o.kind = "unity"
  <2>1. Range(f.dirs) \cap UnityGenerated = {} /\ f.name \notin UnityGenerated
        /\ f.ext \notin {".csproj", ".sln", ".unitypackage"}
    BY <1>3, Zenon DEF InOutputs, LooksGenerated
  <2>2. Range(Parts(f)) \cap UnityGenerated = {}
    BY <1>1, <2>1, Zenon
  <2>3. ~unityExcludes(f)
    BY <2>1, <2>2, Zenon DEF unityExcludes
  <2>4. QED
    BY <1>3, <2>3 DEF Archived
<1>4. QED
  BY <1>2, <1>3

LEMMA ArtifactsAreBuilt == MobileInv => ArtifactsBuilt
<1> SUFFICES ASSUME MobileInv PROVE ArtifactsBuilt
  OBVIOUS
<1>1. order \in MobileOrders /\ (argv # Nothing => ToolRan)
  BY DEF MobileInv
<1>2. ASSUME argv # Nothing, NEW f \in order.project,
             ~InOutputs(order.kind, f), ~LooksGenerated(order.kind, f)
      PROVE  f \in DOMAIN workspace
  <2>1. order.kind \in {"flutter", "unity"}
    BY <1>1, <1>2, Zenon DEF ToolRan, Understood
  <2>2. f \in Archived(order)
    BY <1>1, <1>2, <2>1, OwnFilesSent
  <2>3. QED
    BY <1>1, <1>2, <2>2 DEF ToolRan
<1>3. ASSUME outcome = "ok"
      PROVE  /\ artifacts # {}
             /\ order.kind = "flutter" =>
                  \A f \in artifacts : workspace[f] = "built" /\ Has(f, 1, "build")
             /\ order.kind = "unity" /\ Under("Build") # {} =>
                  \A f \in artifacts : workspace[f] = "built"
  <2>1. ToolRan /\ artifacts = Found /\ Found # {}
    BY <1>3 DEF MobileInv
  <2>2. request.kind = order.kind \/ order.kind \notin {"flutter", "unity"}
    BY <2>1 DEF ToolRan, buildRequest
  <2>3. ASSUME order.kind = "flutter", NEW f \in artifacts
        PROVE  workspace[f] = "built" /\ Has(f, 1, "build")
    <3>1. f \in Under("build")
      BY <2>1, <2>2, <2>3 DEF Found, collectFlutterArtifacts
    <3>2. f \in DOMAIN workspace /\ Has(f, 1, "build")
      BY <3>1 DEF Under
    <3>3. f \notin Archived(order)
      <4> SUFFICES ASSUME f \in Archived(order) PROVE FALSE
        OBVIOUS
      <4>1. f \in order.project /\ ~flutterExcludes(f)
        BY <2>3, Zenon DEF Archived
      <4>2. /\ f.dirs \in Seq(STRING)
            /\ f.dirs # <<>> => Parts(f)[1] = f.dirs[1]
        BY <1>1, <2>3, <4>1, PartsAre
      <4>3. f.dirs # <<>> /\ f.dirs[1] = "build"
        BY <3>2, <4>2 DEF Has
      <4>4. QED
        BY <4>1, <4>2, <4>3, Zenon DEF flutterExcludes
    <3>4. QED
      BY <2>1, <3>2, <3>3 DEF ToolRan
  <2>4. ASSUME order.kind = "unity", Under("Build") # {}, NEW f \in artifacts
        PROVE  workspace[f] = "built"
    <3>1. f \in Under("Build")
      BY <2>1, <2>2, <2>4 DEF Found, collectUnityArtifacts
    <3>2. f \in DOMAIN workspace /\ Has(f, 1, "Build")
      BY <3>1 DEF Under
    <3>3. f \notin Archived(order)
      <4> SUFFICES ASSUME f \in Archived(order) PROVE FALSE
        OBVIOUS
      <4>1. f \in order.project /\ ~unityExcludes(f)
        BY <2>4 DEF Archived
      <4>2. f.dirs \in Seq(STRING) /\ Range(Parts(f)) = Range(f.dirs) \cup {f.name}
        BY <1>1, <2>4, <4>1, PartsAre
      <4>3. "Build" \in Range(f.dirs)
        BY <3>2, <4>2 DEF Has, Range
      <4>4. QED
        BY <4>1, <4>2, <4>3, Zenon DEF unityExcludes, UnityGenerated
    <3>4. QED
      BY <2>1, <3>2, <3>3 DEF ToolRan
  <2>5. QED
    BY <2>1, <2>3, <2>4
<1>4. QED
  BY <1>2, <1>3 DEF ArtifactsBuilt

(* For any order a user may type, any tree of files and any machines: the options *)
(* reach the build tool through buildRequest and resolveFlutterBuildOptions or    *)
(* buildUnityArgs; the user's own files reach its workspace, but for those in the *)
(* directories that tools write and those whose path resembles one of them        *)
(* (shouldExclude: LooksGenerated); and what is returned was built by it          *)
(* (collectFlutterArtifacts, collectUnityArtifacts).                              *)
THEOREM MobileBuildsAreFaithful == MobileSpec => []MobileFaithful
<1>1. MobileSpec => []MobileInv
  BY MobileInvInit, MobileInvNext, PTL DEF MobileSpec
<1>2. MobileInv => MobileFaithful
  BY OptionsDoArrive, ArtifactsAreBuilt DEF MobileFaithful
<1>3. QED
  BY <1>1, <1>2, PTL

=============================================================================
