-------------------------------- MODULE Boot --------------------------------
(***************************************************************************)
(* A deployment: the migration runner, and a process that boots under some *)
(* environment, maybe while the runner is at work. main.ts loads .env and  *)
(* the tracer; importing the application validates the environment; then   *)
(* NestFactory.create, the middleware, and the two onModuleInit hooks,     *)
(* whose order is that of the modules; then the server listens.            *)
(*                                                                         *)
(* A boot that has thrown prints the error. When it throws in a hook the   *)
(* process does not end, since connections are open; it never listens.     *)
(* The Redis hook waits as RedisConnection says: here it ends some time.   *)
(***************************************************************************)
EXTENDS Requests

CONSTANTS
  Environments,  \* records [process, file]: what the process and .env set
  RequestSet,    \* the requests that may come
  Build          \* migrations in the build

ASSUME BuildAssumption == Build \in Nat

VARIABLES
  environment,  \* process.env, without what ConfigModule writes to it
  file,         \* .env
  boot,         \* "start", "import", "create", "hooks", "listening" or "failed"
  pendingHooks, \* onModuleInit hooks that have not run
  tracing,      \* the SDK has been started
  applied,      \* migrations in the database
  updated,      \* schema.update() has been run
  runner,       \* "idle", "pending", "ended"
  answered      \* the last request with its answer, none before the first

bootVars == <<environment, file, boot, pendingHooks, tracing, applied, updated, runner, answered>>

BootInit ==
  /\ \E e \in Environments : environment = e.process /\ file = e.file
  /\ boot = "start"
  /\ pendingHooks = {"database", "redis"}
  /\ tracing = FALSE
  /\ applied \in 0..Build
  /\ updated = FALSE
  /\ runner = "idle"
  /\ answered = {}

-----------------------------------------------------------------------------
(* The settings *)

settings == Settings(environment)

Configured == boot \in {"create", "hooks", "listening"}

\* process.env after ConfigModule.
processEnv == IF Configured THEN WrittenBack(environment, settings) ELSE environment

-----------------------------------------------------------------------------
(* The boot *)

\* require('./tracing').
LoadTracing ==
  /\ boot = "start"
  /\ environment' = loadRuntimeEnv(environment, file)
  /\ tracing' = TracingEnabled(environment')
  /\ boot' = "import"
  /\ UNCHANGED <<file, pendingHooks, applied, updated, runner, answered>>

\* import('./bootstrap'): ConfigModule.forRoot calls validateEnv.
ImportApp ==
  /\ boot = "import"
  /\ boot' = (IF Accepts(environment) THEN "create" ELSE "failed")
  /\ UNCHANGED <<environment, file, pendingHooks, tracing, applied, updated, runner, answered>>

\* NestFactory.create, the middleware, and the call of listen.
CreateApp ==
  /\ boot = "create"
  /\ boot' = "hooks"
  /\ UNCHANGED <<environment, file, pendingHooks, tracing, applied, updated, runner, answered>>

\* DatabaseModule.onModuleInit.
InitDatabase ==
  /\ boot = "hooks" /\ "database" \in pendingHooks
  /\ pendingHooks' = pendingHooks \ {"database"}
  /\ \/ ~isDevAppEnv(processEnv) /\ applied < Build /\ boot' = "failed" /\ UNCHANGED updated
     \/ ~isDevAppEnv(processEnv) /\ applied = Build /\ UNCHANGED <<boot, updated>>
     \/ isDevAppEnv(processEnv) /\ updated' = TRUE /\ UNCHANGED boot
  /\ UNCHANGED <<environment, file, tracing, applied, runner, answered>>

\* RedisClient.onModuleInit ends.
InitRedis ==
  /\ boot = "hooks" /\ "redis" \in pendingHooks
  /\ pendingHooks' = pendingHooks \ {"redis"}
  /\ UNCHANGED <<environment, file, boot, tracing, applied, updated, runner, answered>>

Listen ==
  /\ boot = "hooks" /\ pendingHooks = {}
  /\ boot' = "listening"
  /\ UNCHANGED <<environment, file, pendingHooks, tracing, applied, updated, runner, answered>>

HandleRequest(request) ==
  /\ boot = "listening"
  /\ answered' = {[request |-> request, answer |-> Respond(settings, request)]}
  /\ UNCHANGED <<environment, file, boot, pendingHooks, tracing, applied, updated, runner>>

-----------------------------------------------------------------------------
(* run-migrations.ts *)

RunnerGetsPending ==
  /\ runner = "idle"
  /\ runner' = (IF applied = Build THEN "ended" ELSE "pending")
  /\ UNCHANGED <<environment, file, boot, pendingHooks, tracing, applied, updated, answered>>

\* up(): all that are pending in one transaction, or none of them.
RunnerEnds ==
  /\ runner = "pending"
  /\ runner' = "ended"
  /\ applied' \in {applied, Build}
  /\ UNCHANGED <<environment, file, boot, pendingHooks, tracing, updated, answered>>

BootSteps ==
  LoadTracing \/ ImportApp \/ CreateApp \/ InitDatabase \/ InitRedis \/ Listen

BootNext ==
  \/ BootSteps
  \/ boot = "listening" /\ \E request \in RequestSet : HandleRequest(request)
  \/ RunnerGetsPending \/ RunnerEnds

BootSpec == BootInit /\ [][BootNext]_bootVars

-----------------------------------------------------------------------------
(* Properties *)

\* Whatever a setting is read through, it has one value: the namespaces, which
\* parse the defaults that ConfigModule wrote to process.env as text, agree with
\* the validated values on every key (configs.ts:15-17, env.schema.ts:16-28).
NamespacesAgree ==
  boot = "create" =>
    LET env == processEnv config == settings IN
    \A k \in Namespaced : FromNamespace(env, k) = config[k]

\* A process that is not for development listens only with three secrets that
\* are no defaults, two of them different, a Secure cookie, error details off and
\* a limited trust in proxies, on a database that has the migrations of the
\* build and was not changed by the boot; whichever of process and .env says
\* so, and whenever the runner was at work
\* (env.schema.ts:129-191, runtime-env.ts:39-57, database.module.ts:29-48,
\* bootstrap.ts:66-77).
ServesOnlyWhenSafe ==
  LET s == settings
      raw == [k \in Secrets |-> AsText(s[k])] IN
  boot = "listening" /\ AsText(s["APP_ENV"]) # "dev" =>
    /\ \A k \in Secrets : ~isWeakSecret(raw[k])
    /\ raw["JWT_SECRET"] # raw["REFRESH_TOKEN_SECRET"]
    /\ s["COOKIE_SECURE"] = Bool(TRUE)
    /\ s["RESPONSE_DEBUG_DETAIL"] = Bool(FALSE)
    /\ TrustedProxies(s) # Bool(TRUE)
    /\ applied = Build /\ ~updated

\* No answer of a process that is not for development says anything of the URL,
\* the body, the stack or the message. In development the URL with its query and
\* the two texts are shown as they are; of the body, no value below a sensitive
\* key is shown, however deep it is nested
\* (http-exception.filter.ts:32-66, http.exception.ts:17-26,
\* log-sanitizer.ts:14-43, env.schema.ts:163-169).
AnswersAreDiscreet ==
  \A a \in answered :
    /\ AsText(settings["APP_ENV"]) # "dev" => a.answer.debugDetail = NoDetail
    /\ "sensitive" \in {a.request.body[i] : i \in DOMAIN a.request.body} =>
         a.answer.debugDetail.body # "shown"

=============================================================================
