------------------------------ MODULE Settings ------------------------------
(***************************************************************************)
(* How environment variables become settings. An environment is a function *)
(* from the keys that are set to their text. The schema of env.schema.ts   *)
(* turns it into values, tagged with their type; an absent key has a       *)
(* default; a text the schema refuses has no value.                        *)
(*                                                                         *)
(* The same key is read in several ways: through ConfigService, which has  *)
(* the validated values; through the namespaces of configs.ts, which parse *)
(* process.env a second time after ConfigModule has written the defaults   *)
(* back to it as text; and as raw text by code that runs before or outside *)
(* of ConfigModule.                                                        *)
(***************************************************************************)
EXTENDS Integers, Sequences, FiniteSets, TLC

Bool(b) == <<"bool", b>>
Num(n)  == <<"num", n>>
Text(s) == <<"text", s>>

Unlimited == 1000000000   \* no upper limit in the schema

DefaultSecret == "change-me-in-production"

\* The defaults of the keys of each type, and the limits of the numbers and texts.
BooleanKeys ==
  [SWAGGER_ENABLED |-> TRUE, RESPONSE_DEBUG_DETAIL |-> FALSE,
   HELMET_CSP_ENABLED |-> TRUE, COMPRESSION_ENABLED |-> TRUE, ORM_DEBUG |-> FALSE,
   REDIS_REQUIRED |-> FALSE, COOKIE_SECURE |-> FALSE,
   AUTH_BLOCKLIST_FAIL_CLOSED |-> FALSE, MAIL_ENABLED |-> FALSE, OTEL_ENABLED |-> FALSE]

Number(default, min, max) == [default |-> default, min |-> min, max |-> max]

NumberKeys ==
  [APP_PORT |-> Number(3000, 1, Unlimited),
   COMPRESSION_LEVEL |-> Number(6, 1, 9),
   COMPRESSION_THRESHOLD |-> Number(1024, 0, Unlimited),
   POSTGRES_PORT |-> Number(5432, 1, Unlimited),
   MIKRO_ORM_CONNECTION_POOL_MIN |-> Number(2, 0, Unlimited),
   MIKRO_ORM_CONNECTION_POOL_MAX |-> Number(10, 1, Unlimited),
   MIKRO_ORM_POOL_IDLE_TIMEOUT |-> Number(30000, 1000, Unlimited),
   REDIS_PORT |-> Number(6379, 1, Unlimited),
   REDIS_DB |-> Number(0, 0, 15),
   REDIS_FAST_RETRIES |-> Number(5, 0, Unlimited),
   REDIS_SLOW_RETRY_INTERVAL |-> Number(30000, 0, Unlimited),
   REDIS_SLOW_RETRY_LOG_INTERVAL |-> Number(10, 1, Unlimited),
   SESSION_MAX_AGE |-> Number(86400000, 0, Unlimited),
   AUTH_MAX_LOGIN_ATTEMPTS |-> Number(5, 1, Unlimited),
   AUTH_LOCK_DURATION_MINUTES |-> Number(30, 0, Unlimited)]

ChoiceKeys ==
  [NODE_ENV |-> <<"development", "production">>,   \* the first is the default
   APP_ENV |-> <<"dev", "stage", "prod">>,
   LOG_LEVEL |-> <<"debug", "info", "warn", "error">>,
   COOKIE_SAME_SITE |-> <<"lax", "strict", "none">>,
   JWT_ALGORITHM |-> <<"HS256", "HS384", "HS512">>,
   STORAGE_DRIVER |-> <<"noop", "s3">>,
   OTEL_EXPORTER_OTLP_PROTOCOL |-> <<"http/protobuf", "grpc">>]

\* z.string().min(1): the empty text is refused.
RequiredTextKeys ==
  [TZ |-> "Etc/UTC", PGTZ |-> "UTC", APP_NAME |-> "backend-template",
   POSTGRES_HOST |-> "localhost", POSTGRES_DB |-> "backend_template",
   POSTGRES_USER |-> "user", POSTGRES_PASSWORD |-> "changeme",
   REDIS_HOST |-> "localhost",
   JWT_SECRET |-> DefaultSecret, JWT_EXPIRES_IN |-> "15m",
   REFRESH_TOKEN_SECRET |-> DefaultSecret, REFRESH_TOKEN_EXPIRES_IN |-> "7d",
   SESSION_SECRET |-> DefaultSecret, OTEL_SERVICE_NAME |-> "backend-template"]

TextKeys ==
  [APP_URL |-> "http://localhost:3000", APP_CORS_URL |-> "http://localhost:3000",
   REDIS_PASSWORD |-> "", COOKIE_DOMAIN |-> "", MAIL_FROM |-> "no-reply@localhost",
   OTEL_EXPORTER_OTLP_ENDPOINT |-> "", OTEL_RESOURCE_ATTRIBUTES |-> ""]

Keys == UNION {DOMAIN BooleanKeys, DOMAIN NumberKeys, DOMAIN ChoiceKeys,
               DOMAIN RequiredTextKeys, DOMAIN TextKeys, {"TRUST_PROXY"}}

-----------------------------------------------------------------------------
(* The schema. A set with at most one value: the empty set is an issue. *)

Numerals == {NumberKeys[k].default : k \in DOMAIN NumberKeys} \cup 0..30

\* The text of a number is neither empty nor a word, and no other number has it.
ASSUME NumeralAssumption ==
  /\ \A n \in Numerals : ToString(n) \notin {"", "true", "false"}
  /\ \A m, n \in Numerals : ToString(m) = ToString(n) => m = n

\* Number(raw) of JavaScript, which makes 0 of the empty text and NaN of a word.
NumberOf(raw) ==
  {n \in Numerals : ToString(n) = raw} \cup (IF raw = "" THEN {0} ELSE {})

\* Mutant of booleanFromEnv: every text but the empty one is true.
booleanFromText(raw) == {Bool(raw # "")}

booleanFromEnv(raw) ==
  CASE raw \in {"true", "1"}  -> {Bool(TRUE)}
    [] raw \in {"false", "0"} -> {Bool(FALSE)}
    [] OTHER                  -> {}

trustProxy(raw) ==
  CASE raw = "true"       -> {Bool(TRUE)}
    [] raw = "false"      -> {Bool(FALSE)}
    [] NumberOf(raw) # {} -> {Num(n) : n \in NumberOf(raw)}
    [] OTHER              -> {Text(raw)}

Parsed(k, raw) ==
  CASE k \in DOMAIN BooleanKeys -> booleanFromEnv(raw)
    [] k \in DOMAIN NumberKeys ->
         {Num(n) : n \in {m \in NumberOf(raw) : NumberKeys[k].min <= m /\ m <= NumberKeys[k].max}}
    [] k \in DOMAIN ChoiceKeys ->
         {Text(c) : c \in {c \in {ChoiceKeys[k][i] : i \in DOMAIN ChoiceKeys[k]} : c = raw}}
    [] k \in DOMAIN RequiredTextKeys -> IF raw = "" THEN {} ELSE {Text(raw)}
    [] k \in DOMAIN TextKeys -> {Text(raw)}
    [] k = "TRUST_PROXY" -> trustProxy(raw)

Default(k) ==
  CASE k \in DOMAIN BooleanKeys      -> Bool(BooleanKeys[k])
    [] k \in DOMAIN NumberKeys       -> Num(NumberKeys[k].default)
    [] k \in DOMAIN ChoiceKeys       -> Text(ChoiceKeys[k][1])
    [] k \in DOMAIN RequiredTextKeys -> Text(RequiredTextKeys[k])
    [] k \in DOMAIN TextKeys         -> Text(TextKeys[k])
    [] k = "TRUST_PROXY"             -> Bool(FALSE)

\* The value of k under an environment that baseEnvSchema accepts.
Value(env, k) ==
  IF k \in DOMAIN env THEN CHOOSE v \in Parsed(k, env[k]) : TRUE ELSE Default(k)

WellFormed(env) == \A k \in DOMAIN env \cap Keys : Parsed(k, env[k]) # {}

Settings(env) == [k \in Keys |-> Value(env, k)]

-----------------------------------------------------------------------------
(* The gate *)

Secrets == {"JWT_SECRET", "REFRESH_TOKEN_SECRET", "SESSION_SECRET"}

isWeakSecret(secret) == secret = DefaultSecret \/ Len(secret) < 32

Hardened(v) == v["APP_ENV"] \in {Text("prod"), Text("stage")}

\* Mutant of Issues: the gate knows prod only.
IssuesOfProd(v) ==
  IF v["APP_ENV"] # Text("prod") THEN {}
  ELSE {k \in Secrets : isWeakSecret(v[k][2])}
         \cup {k \in {"RESPONSE_DEBUG_DETAIL"} : v[k] = Bool(TRUE)}
         \cup {k \in {"COOKIE_SECURE"} : v[k] = Bool(FALSE)}

\* The keys that superRefine complains about.
Issues(v) ==
  {k \in {"COOKIE_SECURE"} : v["COOKIE_SAME_SITE"] = Text("none") /\ v[k] = Bool(FALSE)}
  \cup IF ~Hardened(v) THEN {}
       ELSE {k \in Secrets : isWeakSecret(v[k][2])}
              \cup {k \in {"REFRESH_TOKEN_SECRET"} : v[k] = v["JWT_SECRET"]}
              \cup {k \in {"RESPONSE_DEBUG_DETAIL"} : v[k] = Bool(TRUE)}
              \cup {k \in {"COOKIE_SECURE"} : v[k] = Bool(FALSE)}
              \cup {k \in {"TRUST_PROXY"} : v[k] = Bool(TRUE)}

\* validateEnv does not throw.
Accepts(env) == WellFormed(env) /\ Issues(Settings(env)) = {}

-----------------------------------------------------------------------------
(* The other readers *)

\* The environment env, and what others say of the keys that it does not set.
FilledIn(env, others) ==
  [k \in DOMAIN env \cup DOMAIN others |-> IF k \in DOMAIN env THEN env[k] ELSE others[k]]

\* loadRuntimeEnv: .env fills in what the process has not set.
loadRuntimeEnv(env, file) == FilledIn(env, file)

\* assignVarsToProcess of ConfigModule: validated values of absent keys, as text.
AsText(v) ==
  CASE v[1] = "bool" -> IF v[2] THEN "true" ELSE "false"
    [] v[1] = "num"  -> ToString(v[2])
    [] v[1] = "text" -> v[2]

WrittenBack(env, v) == FilledIn(env, [k \in Keys |-> AsText(v[k])])

\* The key behind each field of the namespaces that app code is given.
Namespaced ==
  Keys \ {"TZ", "PGTZ", "REDIS_REQUIRED"}

\* A namespace factory reads process.env when the namespace is first resolved.
FromNamespace(env, k) == Value(env, k)

getAppEnv(env) ==
  IF "APP_ENV" \in DOMAIN env /\ env["APP_ENV"] \in {"dev", "stage", "prod"}
    THEN env["APP_ENV"] ELSE "dev"

isDevAppEnv(env) == getAppEnv(env) = "dev"

\* Whether initOtel starts the SDK.
TracingEnabled(env) ==
  /\ "OTEL_ENABLED" \in DOMAIN env
  /\ env["OTEL_ENABLED"] \in {"true", "TRUE", "True"}
  /\ "OTEL_EXPORTER_OTLP_ENDPOINT" \in DOMAIN env
  /\ env["OTEL_EXPORTER_OTLP_ENDPOINT"] # ""

=============================================================================
