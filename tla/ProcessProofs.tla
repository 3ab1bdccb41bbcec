--------------------------- MODULE ProcessProofs ---------------------------
(***************************************************************************)
(* Proofs about a process from its boot to its end. Boot: for any          *)
(* environment, any .env, any requests and any number of migrations, a     *)
(* setting has one value however it is read, a process that listens        *)
(* outside of development has safe settings and the schema of its build,   *)
(* and its answers tell nobody any details. Shutdown: a signal cuts no     *)
(* request off, for any number of requests. Cron: executions of a job that *)
(* is to run without overlapping never do, for any number of ticks.        *)
(***************************************************************************)
EXTENDS Boot, Shutdown, CronJob, TLAPS

-----------------------------------------------------------------------------
(* The schema *)

\* The keys that the gate asks for have one type each.
LEMMA KeysTyped ==
  ASSUME NEW k \in {"APP_ENV", "COOKIE_SECURE", "RESPONSE_DEBUG_DETAIL"} \cup Secrets
  PROVE  /\ k \in Keys /\ k # "TRUST_PROXY" /\ k \notin DOMAIN NumberKeys /\ k \notin DOMAIN TextKeys
         /\ k \in DOMAIN BooleanKeys <=> k \in {"COOKIE_SECURE", "RESPONSE_DEBUG_DETAIL"}
         /\ k \in DOMAIN ChoiceKeys <=> k = "APP_ENV"
         /\ k \in DOMAIN RequiredTextKeys <=> k \in Secrets
<1>1. k \in DOMAIN BooleanKeys <=> k \in {"COOKIE_SECURE", "RESPONSE_DEBUG_DETAIL"}
  BY DEF BooleanKeys, Secrets
<1>2. k \notin DOMAIN NumberKeys
  BY DEF NumberKeys, Secrets
<1>3. k \in DOMAIN ChoiceKeys <=> k = "APP_ENV"
  BY DEF ChoiceKeys, Secrets
<1>4. k \in DOMAIN RequiredTextKeys <=> k \in Secrets
  BY DEF RequiredTextKeys, Secrets
<1>5. k \notin DOMAIN TextKeys /\ k # "TRUST_PROXY"
  BY DEF TextKeys, Secrets
<1> QED
  BY <1>1, <1>2, <1>3, <1>4, <1>5 DEF Keys, Secrets

\* What an accepted environment says of them.
LEMMA AppEnvRead ==
  ASSUME NEW env, WellFormed(env)
  PROVE  /\ "APP_ENV" \in DOMAIN env => Settings(env)["APP_ENV"] = Text(env["APP_ENV"])
         /\ "APP_ENV" \notin DOMAIN env => Settings(env)["APP_ENV"] = Text("dev")
         /\ \E a \in {"dev", "stage", "prod"} : Settings(env)["APP_ENV"] = Text(a)
<1>0. /\ "APP_ENV" \in Keys /\ "APP_ENV" # "TRUST_PROXY"
      /\ "APP_ENV" \notin DOMAIN BooleanKeys /\ "APP_ENV" \notin DOMAIN NumberKeys
      /\ "APP_ENV" \in DOMAIN ChoiceKeys
      /\ "APP_ENV" \notin DOMAIN RequiredTextKeys /\ "APP_ENV" \notin DOMAIN TextKeys
  BY KeysTyped DEF Secrets
<1>1. Settings(env)["APP_ENV"] = Value(env, "APP_ENV")
  BY <1>0 DEF Settings
<1>2. ASSUME "APP_ENV" \in DOMAIN env
      PROVE  /\ Value(env, "APP_ENV") = Text(env["APP_ENV"])
             /\ env["APP_ENV"] \in {"dev", "stage", "prod"}
  <2> DEFINE raw == env["APP_ENV"]
  <2>1. Parsed("APP_ENV", raw) # {}
    BY <1>0, <1>2 DEF WellFormed
  <2>2. Parsed("APP_ENV", raw) =
          {Text(c) : c \in {c \in {ChoiceKeys["APP_ENV"][i] : i \in DOMAIN ChoiceKeys["APP_ENV"]} :
                              c = raw}}
    BY <1>0 DEF Parsed
  <2>3. {ChoiceKeys["APP_ENV"][i] : i \in DOMAIN ChoiceKeys["APP_ENV"]} = {"dev", "stage", "prod"}
    BY DEF ChoiceKeys
  <2>4. Parsed("APP_ENV", raw) = {Text(raw)} /\ raw \in {"dev", "stage", "prod"}
    BY <2>1, <2>2, <2>3
  <2> QED
    BY <1>2, <2>4 DEF Value
<1>3. ASSUME "APP_ENV" \notin DOMAIN env
      PROVE  Value(env, "APP_ENV") = Text("dev")
  <2>1. Default("APP_ENV") = Text(ChoiceKeys["APP_ENV"][1])
    BY <1>0 DEF Default
  <2>2. ChoiceKeys["APP_ENV"][1] = "dev"
    BY DEF ChoiceKeys
  <2> QED
    BY <1>3, <2>1, <2>2 DEF Value
<1> QED
  BY <1>1, <1>2, <1>3

LEMMA SecretRead ==
  ASSUME NEW env, WellFormed(env), NEW k \in Secrets
  PROVE  \E t : Settings(env)[k] = Text(t)
<1>1. /\ k \in Keys /\ k # "TRUST_PROXY" /\ k \notin DOMAIN BooleanKeys
      /\ k \notin DOMAIN NumberKeys /\ k \notin DOMAIN ChoiceKeys
      /\ k \in DOMAIN RequiredTextKeys /\ k \notin DOMAIN TextKeys
  BY KeysTyped DEF Secrets
<1>2. Settings(env)[k] = Value(env, k)
  BY <1>1 DEF Settings
<1>3. ASSUME k \in DOMAIN env PROVE Value(env, k) = Text(env[k])
  <2>1. Parsed(k, env[k]) # {}
    BY <1>1, <1>3 DEF WellFormed
  <2>2. Parsed(k, env[k]) = IF env[k] = "" THEN {} ELSE {Text(env[k])}
    BY <1>1 DEF Parsed
  <2> QED
    BY <1>3, <2>1, <2>2 DEF Value
<1>4. ASSUME k \notin DOMAIN env PROVE Value(env, k) = Text(RequiredTextKeys[k])
  BY <1>1, <1>4 DEF Value, Default
<1> QED
  BY <1>2, <1>3, <1>4

LEMMA BooleanRead ==
  ASSUME NEW env, WellFormed(env), NEW k \in {"COOKIE_SECURE", "RESPONSE_DEBUG_DETAIL"}
  PROVE  Settings(env)[k] \in {Bool(TRUE), Bool(FALSE)}
<1>1. /\ k \in Keys /\ k # "TRUST_PROXY" /\ k \in DOMAIN BooleanKeys
      /\ k \notin DOMAIN NumberKeys /\ k \notin DOMAIN ChoiceKeys
      /\ k \notin DOMAIN RequiredTextKeys /\ k \notin DOMAIN TextKeys
  BY KeysTyped DEF Secrets
<1>2. Settings(env)[k] = Value(env, k)
  BY <1>1 DEF Settings
<1>3. ASSUME k \in DOMAIN env PROVE Value(env, k) \in {Bool(TRUE), Bool(FALSE)}
  <2>1. Parsed(k, env[k]) # {}
    BY <1>1, <1>3 DEF WellFormed
  <2>2. Parsed(k, env[k]) = booleanFromEnv(env[k])
    BY <1>1 DEF Parsed
  <2>3. Parsed(k, env[k]) \subseteq {Bool(TRUE), Bool(FALSE)}
    BY <2>2 DEF booleanFromEnv
  <2>4. Value(env, k) = CHOOSE v \in Parsed(k, env[k]) : TRUE
    BY <1>3 DEF Value
  <2> QED
    BY <2>1, <2>3, <2>4
<1>4. ASSUME k \notin DOMAIN env PROVE Value(env, k) = Bool(FALSE)
  <2>1. Value(env, k) = Bool(BooleanKeys[k])
    BY <1>1, <1>4 DEF Value, Default
  <2>2. BooleanKeys[k] = FALSE
    BY DEF BooleanKeys
  <2> QED
    BY <2>1, <2>2
<1> QED
  BY <1>2, <1>3, <1>4

\* Text and truth values are told apart, and a text is read back as it was.
LEMMA Tags ==
  /\ \A t : AsText(Text(t)) = t /\ Text(t)[1] = "text" /\ Text(t)[2] = t
  /\ \A t : Num(t) # Bool(TRUE)
  /\ \A t, u : Text(t) = Text(u) => t = u
  /\ Bool(TRUE) # Bool(FALSE) /\ Bool(TRUE)[1] = "bool"
  BY DEF AsText, Text, Bool, Num

-----------------------------------------------------------------------------
(* The gate *)

\* An environment that the gate accepts and that is not for development.
Deployed(env) == Accepts(env) /\ AsText(Settings(env)["APP_ENV"]) # "dev"

LEMMA DeployedIsHardened ==
  ASSUME NEW env, Deployed(env)
  PROVE  Hardened(Settings(env)) /\ Issues(Settings(env)) = {} /\ WellFormed(env)
<1>1. WellFormed(env) /\ Issues(Settings(env)) = {}
  BY DEF Deployed, Accepts
<1>2. PICK a \in {"dev", "stage", "prod"} : Settings(env)["APP_ENV"] = Text(a)
  BY <1>1, AppEnvRead
<1>3. a # "dev"
  BY <1>2, Tags DEF Deployed
<1> QED
  BY <1>1, <1>2, <1>3 DEF Hardened

\* What the gate lets pass is safe (superRefine of env.schema.ts).
LEMMA GateHolds ==
  ASSUME NEW env, Deployed(env)
  PROVE  LET s == Settings(env)
             raw == [k \in Secrets |-> AsText(s[k])]
         IN /\ \A k \in Secrets : ~isWeakSecret(raw[k])
            /\ raw["JWT_SECRET"] # raw["REFRESH_TOKEN_SECRET"]
            /\ s["COOKIE_SECURE"] = Bool(TRUE)
            /\ s["RESPONSE_DEBUG_DETAIL"] = Bool(FALSE)
            /\ TrustedProxies(s) # Bool(TRUE)
<1> DEFINE s == Settings(env)
           raw == [k \in Secrets |-> AsText(s[k])]
<1>1. Hardened(s) /\ Issues(s) = {} /\ WellFormed(env)
  BY DeployedIsHardened
<1>2. \A k \in Secrets : \E t : s[k] = Text(t)
  BY <1>1, SecretRead
<1>3. /\ s["COOKIE_SECURE"] \in {Bool(TRUE), Bool(FALSE)}
      /\ s["RESPONSE_DEBUG_DETAIL"] \in {Bool(TRUE), Bool(FALSE)}
  BY <1>1, BooleanRead
<1> HIDE DEF s
<1>4. /\ \A k \in Secrets : ~isWeakSecret(s[k][2])
      /\ s["REFRESH_TOKEN_SECRET"] # s["JWT_SECRET"]
      /\ s["RESPONSE_DEBUG_DETAIL"] # Bool(TRUE)
      /\ s["COOKIE_SECURE"] # Bool(FALSE)
      /\ s["TRUST_PROXY"] # Bool(TRUE)
  BY <1>1 DEF Issues
<1>5. ASSUME NEW k \in Secrets PROVE raw[k] = s[k][2]
  <2>1. PICK t : s[k] = Text(t)
    BY <1>2
  <2>2. raw[k] = AsText(s[k])
    OBVIOUS
  <2> QED
    BY <2>1, <2>2, Tags
<1>6. raw["JWT_SECRET"] # raw["REFRESH_TOKEN_SECRET"]
  <2>1. "JWT_SECRET" \in Secrets /\ "REFRESH_TOKEN_SECRET" \in Secrets
    BY DEF Secrets
  <2>2. PICK t, u : s["JWT_SECRET"] = Text(t) /\ s["REFRESH_TOKEN_SECRET"] = Text(u)
    BY <1>2, <2>1
  <2> QED
    BY <1>4, <1>5, <2>1, <2>2, Tags
<1>7. TrustedProxies(s) # Bool(TRUE)
  BY <1>4, Tags DEF TrustedProxies
<1> HIDE DEF raw
<1>8. /\ \A k \in Secrets : ~isWeakSecret(raw[k])
      /\ s["COOKIE_SECURE"] = Bool(TRUE) /\ s["RESPONSE_DEBUG_DETAIL"] = Bool(FALSE)
  BY <1>3, <1>4, <1>5
<1> QED
  BY <1>6, <1>7, <1>8 DEF s, raw

\* The database module, which reads process.env, takes a process for one of
\* development just when the validated settings do (isDevAppEnv).
LEMMA AppEnvAgrees ==
  ASSUME NEW env, WellFormed(env)
  PROVE  isDevAppEnv(WrittenBack(env, Settings(env))) <=>
           AsText(Settings(env)["APP_ENV"]) = "dev"
<1> DEFINE s == Settings(env)
           pe == WrittenBack(env, s)
<1>1. PICK a \in {"dev", "stage", "prod"} : s["APP_ENV"] = Text(a)
  BY AppEnvRead
<1>2. "APP_ENV" \in DOMAIN env => a = env["APP_ENV"]
  BY <1>1, AppEnvRead, Tags
<1>3. "APP_ENV" \in Keys
  BY KeysTyped
<1> HIDE DEF s
<1>4. /\ "APP_ENV" \in DOMAIN pe
      /\ pe["APP_ENV"] = IF "APP_ENV" \in DOMAIN env THEN env["APP_ENV"] ELSE AsText(s["APP_ENV"])
  BY <1>3 DEF WrittenBack, FilledIn
<1>5. AsText(s["APP_ENV"]) = a
  BY <1>1, Tags
<1> HIDE DEF pe
<1>6. getAppEnv(pe) = a
  BY <1>1, <1>2, <1>4, <1>5 DEF getAppEnv
<1> QED
  BY <1>5, <1>6 DEF isDevAppEnv, s, pe

-----------------------------------------------------------------------------
(* The boot *)

\* Nothing is configured but from an environment that the gate has accepted.
GatePassed == Configured => Accepts(environment)

\* The database is looked at before the server listens, and not changed earlier.
DatabaseComes ==
  /\ boot \in {"start", "import", "create"} => "database" \in pendingHooks
  /\ boot = "listening" => pendingHooks = {}
  /\ "database" \in pendingHooks => ~updated

\* Once it has been looked at, it fits the build and stays so: the runner only
\* adds what is pending.
DatabaseFits ==
  Configured /\ "database" \notin pendingHooks /\ ~isDevAppEnv(processEnv) =>
    applied = Build /\ ~updated

\* Answers are given by a process that listens, with the settings it has.
AnswersGiven ==
  \A a \in answered : boot = "listening" /\ a.answer = Respond(settings, a.request)

BootInv == GatePassed /\ DatabaseComes /\ DatabaseFits /\ AnswersGiven

LEMMA BootStep == BootInv /\ [BootNext]_bootVars => BootInv'
<1> SUFFICES ASSUME BootInv, [BootNext]_bootVars PROVE BootInv'
  OBVIOUS
<1>1. UNCHANGED environment => settings' = settings
  BY DEF settings
<1>2. UNCHANGED environment /\ Configured /\ Configured' => processEnv' = processEnv
  BY <1>1 DEF processEnv
<1>3. CASE LoadTracing
  <2>1. ~Configured' /\ "database" \in pendingHooks' /\ ~updated' /\ answered' = {}
        /\ boot' = "import"
    BY <1>3 DEF LoadTracing, BootInv, DatabaseComes, AnswersGiven, Configured
  <2>2. GatePassed' /\ DatabaseFits'
    BY <2>1 DEF GatePassed, DatabaseFits
  <2>3. DatabaseComes'
    BY <2>1 DEF BootInv, DatabaseComes
  <2>4. AnswersGiven'
    BY <2>1 DEF AnswersGiven
  <2> QED
    BY <2>2, <2>3, <2>4 DEF BootInv
<1>4. CASE ImportApp
  <2>1. /\ boot' \in {"create", "failed"} /\ (boot' = "create" => Accepts(environment))
        /\ UNCHANGED <<environment, pendingHooks, updated>> /\ answered' = {}
        /\ "database" \in pendingHooks
    BY <1>4 DEF ImportApp, BootInv, DatabaseComes, AnswersGiven
  <2>2. GatePassed'
    BY <2>1 DEF GatePassed, Configured
  <2>3. DatabaseComes'
    BY <2>1 DEF BootInv, DatabaseComes
  <2>4. DatabaseFits' /\ AnswersGiven'
    BY <2>1 DEF DatabaseFits, AnswersGiven
  <2> QED
    BY <2>2, <2>3, <2>4 DEF BootInv
<1>5. CASE CreateApp \/ Listen \/ InitRedis
  <2>1. /\ Configured /\ Configured' /\ boot' \in {"hooks", "listening"}
        /\ UNCHANGED <<environment, applied, updated>> /\ answered' = {}
        /\ ("database" \in pendingHooks' <=> "database" \in pendingHooks)
        /\ (boot' = "listening" => pendingHooks' = {})
    BY <1>5 DEF CreateApp, Listen, InitRedis, BootInv, AnswersGiven, Configured
  <2>2. processEnv' = processEnv
    BY <1>2, <2>1
  <2> QED
    BY <2>1, <2>2 DEF BootInv, GatePassed, DatabaseComes, DatabaseFits, AnswersGiven
<1>6. CASE InitDatabase
  <2>1. /\ Configured /\ boot' \in {"hooks", "failed"} /\ UNCHANGED <<environment, applied>>
        /\ answered' = {} /\ "database" \notin pendingHooks' /\ ~updated
    BY <1>6 DEF InitDatabase, BootInv, AnswersGiven, DatabaseComes, Configured
  <2>2. boot' = "hooks" /\ ~isDevAppEnv(processEnv) => applied = Build /\ UNCHANGED updated
    BY <1>6 DEF InitDatabase
  <2>3. boot' = "hooks" => processEnv' = processEnv
    BY <1>2, <2>1 DEF Configured
  <2>4. Configured' => boot' = "hooks"
    BY <2>1 DEF Configured
  <2> QED
    BY <2>1, <2>2, <2>3, <2>4 DEF BootInv, GatePassed, DatabaseComes, DatabaseFits,
       AnswersGiven
<1>7. ASSUME NEW asked \in RequestSet, boot = "listening", HandleRequest(asked)
      PROVE  BootInv'
  <2>1. /\ Configured /\ Configured' /\ boot' = boot
        /\ UNCHANGED <<environment, pendingHooks, applied, updated>>
        /\ answered' = {[request |-> asked, answer |-> Respond(settings, asked)]}
    BY <1>7 DEF HandleRequest, Configured
  <2>2. processEnv' = processEnv /\ settings' = settings
    BY <1>1, <1>2, <2>1
  <2>3. AnswersGiven'
    BY <1>7, <2>1, <2>2 DEF AnswersGiven
  <2> QED
    BY <2>1, <2>2, <2>3 DEF BootInv, GatePassed, DatabaseComes, DatabaseFits
<1>8. CASE RunnerGetsPending \/ RunnerEnds
  <2>1. /\ UNCHANGED <<environment, boot, pendingHooks, updated, answered>>
        /\ applied' \in {applied, Build}
    BY <1>8 DEF RunnerGetsPending, RunnerEnds
  <2>2. Configured' = Configured /\ settings' = settings
    BY <1>1, <2>1 DEF Configured
  <2>3. processEnv' = processEnv
    BY <2>1, <2>2 DEF processEnv
  <2> QED
    BY <2>1, <2>2, <2>3 DEF BootInv, GatePassed, DatabaseComes, DatabaseFits, AnswersGiven
<1>9. CASE UNCHANGED bootVars
  <2>1. UNCHANGED <<environment, boot, pendingHooks, updated, answered, applied>>
    BY <1>9 DEF bootVars
  <2>2. Configured' = Configured /\ settings' = settings
    BY <1>1, <2>1 DEF Configured
  <2>3. processEnv' = processEnv
    BY <2>1, <2>2 DEF processEnv
  <2> QED
    BY <2>1, <2>2, <2>3 DEF BootInv, GatePassed, DatabaseComes, DatabaseFits, AnswersGiven
<1> QED
  BY <1>3, <1>4, <1>5, <1>6, <1>7, <1>8, <1>9 DEF BootNext, BootSteps

\* The invariant of a boot: what is configured has passed the gate, and a server
\* that listens has looked at its database (main.ts, database.module.ts:29-48).
THEOREM BootInvariant == BootSpec => []BootInv
<1>1. BootInit => BootInv
  BY DEF BootInit, BootInv, GatePassed, DatabaseComes, DatabaseFits, AnswersGiven,
     Configured
<1> QED
  BY <1>1, BootStep, PTL DEF BootSpec

\* A process that listens outside of development is safe, whatever its
\* environment and .env say and whenever the migration runner was at work
\* (env.schema.ts:129-191, runtime-env.ts:39-57, database.module.ts:29-48).
THEOREM SafeToServe == BootSpec => []ServesOnlyWhenSafe
<1>1. BootInv => ServesOnlyWhenSafe
  <2> SUFFICES ASSUME BootInv, boot = "listening", AsText(settings["APP_ENV"]) # "dev"
               PROVE  LET s == settings
                          raw == [k \in Secrets |-> AsText(s[k])]
                      IN /\ \A k \in Secrets : ~isWeakSecret(raw[k])
                         /\ raw["JWT_SECRET"] # raw["REFRESH_TOKEN_SECRET"]
                         /\ s["COOKIE_SECURE"] = Bool(TRUE)
                         /\ s["RESPONSE_DEBUG_DETAIL"] = Bool(FALSE)
                         /\ TrustedProxies(s) # Bool(TRUE)
                         /\ applied = Build /\ ~updated
    BY DEF ServesOnlyWhenSafe
  <2>1. Configured /\ Accepts(environment) /\ "database" \notin pendingHooks
    BY DEF Configured, BootInv, GatePassed, DatabaseComes
  <2>2. Deployed(environment) /\ WellFormed(environment)
    BY <2>1 DEF Deployed, Accepts, settings
  <2>3. processEnv = WrittenBack(environment, Settings(environment))
    BY <2>1 DEF processEnv, settings
  <2>4. ~isDevAppEnv(processEnv)
    BY <2>2, <2>3, AppEnvAgrees DEF settings
  <2>5. applied = Build /\ ~updated
    BY <2>1, <2>4 DEF BootInv, DatabaseFits
  <2> QED
    BY <2>2, <2>5, GateHolds DEF settings
<1> QED
  BY <1>1, BootInvariant, PTL

-----------------------------------------------------------------------------
(* The answers *)

\* Without RESPONSE_DEBUG_DETAIL no answer has any detail; and what has a
\* sensitive key above it in the body is not shown.
LEMMA AnswerMade ==
  ASSUME NEW config, NEW asked
  PROVE  LET answer == Respond(config, asked)
         IN /\ config["RESPONSE_DEBUG_DETAIL"] # Bool(TRUE) => answer.debugDetail = NoDetail
            /\ "sensitive" \in {asked.body[i] : i \in DOMAIN asked.body} =>
                 answer.debugDetail.body # "shown"
<1>1. /\ \A status, shape : Answer(status, shape).debugDetail = NoDetail
      /\ NoDetail.body = "absent"
  BY DEF Answer, NoDetail
<1>2. "sensitive" \in {asked.body[i] : i \in DOMAIN asked.body}
        => sanitize(asked.body) # "shown"
  BY DEF sanitize
<1>3. \A status, shape :
        WithDebugDetail(Answer(status, shape), asked).debugDetail.body = sanitize(asked.body)
  BY DEF WithDebugDetail, DebugDetail, Answer
<1>4. \/ \E status, shape : Respond(config, asked) = Answer(status, shape)
      \/ /\ config["RESPONSE_DEBUG_DETAIL"] = Bool(TRUE)
         /\ \E status, shape :
              Respond(config, asked) = WithDebugDetail(Answer(status, shape), asked)
  BY DEF Respond, catch
<1> QED
  BY <1>1, <1>2, <1>3, <1>4

\* Answers outside of development say nothing of URL, body, stack and message,
\* for any requests and any environment that passes the gate; in development
\* they show no value below a sensitive key of the body
\* (http-exception.filter.ts:32-66, http.exception.ts:17-26,
\* log-sanitizer.ts:14-43, env.schema.ts:163-169).
THEOREM NothingLeaks == BootSpec => []AnswersAreDiscreet
<1>1. BootInv => AnswersAreDiscreet
  <2> SUFFICES ASSUME BootInv, NEW a \in answered
               PROVE  /\ AsText(settings["APP_ENV"]) # "dev" => a.answer.debugDetail = NoDetail
                      /\ "sensitive" \in {a.request.body[i] : i \in DOMAIN a.request.body} =>
                           a.answer.debugDetail.body # "shown"
    BY DEF AnswersAreDiscreet
  <2>1. boot = "listening" /\ a.answer = Respond(settings, a.request)
    BY DEF BootInv, AnswersGiven
  <2>2. Accepts(environment)
    BY <2>1 DEF BootInv, GatePassed, Configured
  <2>3. AsText(settings["APP_ENV"]) # "dev" =>
          settings["RESPONSE_DEBUG_DETAIL"] # Bool(TRUE)
    BY <2>2, GateHolds, Tags DEF Deployed, settings
  <2> QED
    BY <2>1, <2>3, AnswerMade
<1> QED
  BY <1>1, BootInvariant, PTL
-----------------------------------------------------------------------------
(* The namespaces *)

\* No key has two types.
LEMMA OneType ==
  ASSUME NEW k
  PROVE  /\ k \in DOMAIN BooleanKeys => k \notin DOMAIN NumberKeys /\ k \notin DOMAIN ChoiceKeys
                  /\ k \notin DOMAIN RequiredTextKeys /\ k \notin DOMAIN TextKeys /\ k # "TRUST_PROXY"
         /\ k \in DOMAIN NumberKeys => k \notin DOMAIN ChoiceKeys
                  /\ k \notin DOMAIN RequiredTextKeys /\ k \notin DOMAIN TextKeys /\ k # "TRUST_PROXY"
         /\ k \in DOMAIN ChoiceKeys =>
                  k \notin DOMAIN RequiredTextKeys /\ k \notin DOMAIN TextKeys /\ k # "TRUST_PROXY"
         /\ k \in DOMAIN RequiredTextKeys => k \notin DOMAIN TextKeys /\ k # "TRUST_PROXY"
         /\ k \in DOMAIN TextKeys => k # "TRUST_PROXY"
<1>1. ASSUME k \in DOMAIN BooleanKeys
      PROVE  /\ k \notin DOMAIN NumberKeys /\ k \notin DOMAIN ChoiceKeys
             /\ k \notin DOMAIN RequiredTextKeys /\ k \notin DOMAIN TextKeys /\ k # "TRUST_PROXY"
  BY <1>1 DEF BooleanKeys, NumberKeys, ChoiceKeys, RequiredTextKeys, TextKeys
<1>2. ASSUME k \in DOMAIN NumberKeys
      PROVE  /\ k \notin DOMAIN ChoiceKeys
             /\ k \notin DOMAIN RequiredTextKeys /\ k \notin DOMAIN TextKeys /\ k # "TRUST_PROXY"
  BY <1>2 DEF NumberKeys, ChoiceKeys, RequiredTextKeys, TextKeys
<1>3. ASSUME k \in DOMAIN ChoiceKeys
      PROVE  k \notin DOMAIN RequiredTextKeys /\ k \notin DOMAIN TextKeys /\ k # "TRUST_PROXY"
  BY <1>3 DEF ChoiceKeys, RequiredTextKeys, TextKeys
<1>4. ASSUME k \in DOMAIN RequiredTextKeys
      PROVE  k \notin DOMAIN TextKeys /\ k # "TRUST_PROXY"
  BY <1>4 DEF RequiredTextKeys, TextKeys
<1>5. k \in DOMAIN TextKeys => k # "TRUST_PROXY"
  BY DEF TextKeys
<1> QED
  BY <1>1, <1>2, <1>3, <1>4, <1>5

\* The schema accepts its own defaults (env.schema.ts).
LEMMA DefaultsAreValid ==
  /\ \A k \in DOMAIN NumberKeys :
       /\ NumberKeys[k].default \in Numerals
       /\ NumberKeys[k].min <= NumberKeys[k].default
       /\ NumberKeys[k].default <= NumberKeys[k].max
  /\ \A k \in DOMAIN BooleanKeys : BooleanKeys[k] \in BOOLEAN
  /\ \A k \in DOMAIN ChoiceKeys : 1 \in DOMAIN ChoiceKeys[k]
  /\ \A k \in DOMAIN RequiredTextKeys : RequiredTextKeys[k] # ""
<1>1. \A k \in DOMAIN NumberKeys : NumberKeys[k].default \in Numerals
  BY DEF Numerals
<1>2. \A k \in DOMAIN NumberKeys :
        NumberKeys[k].min <= NumberKeys[k].default /\ NumberKeys[k].default <= NumberKeys[k].max
  BY DEF NumberKeys, Number, Unlimited
<1>3. \A k \in DOMAIN BooleanKeys : BooleanKeys[k] \in BOOLEAN
  <2>1. \A k \in DOMAIN BooleanKeys : BooleanKeys[k] = TRUE \/ BooleanKeys[k] = FALSE
    BY DEF BooleanKeys
  <2> QED
    BY <2>1
<1>4. \A k \in DOMAIN ChoiceKeys : 1 \in DOMAIN ChoiceKeys[k]
  BY DEF ChoiceKeys
<1>5. \A k \in DOMAIN RequiredTextKeys : RequiredTextKeys[k] # ""
  <2> DEFINE texts == {"Etc/UTC", "UTC", "backend-template", "localhost", "backend_template",
                       "user", "changeme", DefaultSecret, "15m", "7d"}
  <2>1. \A k \in DOMAIN RequiredTextKeys : RequiredTextKeys[k] \in texts
    BY DEF RequiredTextKeys
  <2>2. "" \notin texts
    BY DEF DefaultSecret
  <2> QED
    BY <2>1, <2>2
<1> QED
  BY <1>1, <1>2, <1>3, <1>4, <1>5

\* The text of a default is read as that default and nothing else.
LEMMA DefaultSurvives ==
  ASSUME NEW k \in Keys
  PROVE  Parsed(k, AsText(Default(k))) = {Default(k)}
<1> DEFINE d == Default(k)
           raw == AsText(d)
<1>1. CASE k \in DOMAIN BooleanKeys
  <2>1. d = Bool(BooleanKeys[k]) /\ Parsed(k, raw) = booleanFromEnv(raw)
    BY <1>1, OneType DEF Default, Parsed
  <2>2. PICK b \in BOOLEAN : b = BooleanKeys[k]
    BY <1>1, DefaultsAreValid
  <2>3. raw = IF b THEN "true" ELSE "false"
    BY <2>1, <2>2 DEF AsText, Bool
  <2>4. booleanFromEnv(raw) = {Bool(b)}
    <3>1. CASE b = TRUE
      BY <2>3, <3>1 DEF booleanFromEnv
    <3>2. CASE b = FALSE
      BY <2>3, <3>2 DEF booleanFromEnv
    <3> QED
      BY <3>1, <3>2
  <2> QED
    BY <2>1, <2>2, <2>4
<1>2. CASE k \in DOMAIN NumberKeys
  <2> DEFINE n == NumberKeys[k].default
  <2>1. /\ d = Num(n)
        /\ Parsed(k, raw) =
             {Num(m) : m \in {m \in NumberOf(raw) : NumberKeys[k].min <= m /\ m <= NumberKeys[k].max}}
    BY <1>2, OneType DEF Default, Parsed
  <2>2. n \in Numerals /\ NumberKeys[k].min <= n /\ n <= NumberKeys[k].max
    BY <1>2, DefaultsAreValid
  <2> HIDE DEF n
  <2>3. raw = ToString(n)
    BY <2>1 DEF AsText, Num
  <2>4. NumberOf(raw) = {n}
    BY <2>2, <2>3, NumeralAssumption DEF NumberOf
  <2> QED
    BY <2>1, <2>2, <2>4
<1>3. CASE k \in DOMAIN ChoiceKeys
  <2> DEFINE first == ChoiceKeys[k][1]
             choices == {ChoiceKeys[k][i] : i \in DOMAIN ChoiceKeys[k]}
  <2>1. d = Text(first) /\ Parsed(k, raw) = {Text(c) : c \in {c \in choices : c = raw}}
    BY <1>3, OneType DEF Default, Parsed
  <2>2. first \in choices
    BY <1>3, DefaultsAreValid
  <2>3. raw = first
    BY <2>1, Tags
  <2> QED
    BY <2>1, <2>2, <2>3
<1>4. CASE k \in DOMAIN RequiredTextKeys
  <2>1. /\ d = Text(RequiredTextKeys[k])
        /\ Parsed(k, raw) = IF raw = "" THEN {} ELSE {Text(raw)}
    BY <1>4, OneType DEF Default, Parsed
  <2>2. raw = RequiredTextKeys[k]
    BY <2>1, Tags
  <2> QED
    BY <1>4, <2>1, <2>2, DefaultsAreValid
<1>5. CASE k \in DOMAIN TextKeys
  <2>1. d = Text(TextKeys[k]) /\ Parsed(k, raw) = {Text(raw)}
    BY <1>5, OneType DEF Default, Parsed
  <2> QED
    BY <2>1, Tags
<1>6. CASE k = "TRUST_PROXY"
  <2>1. d = Bool(FALSE) /\ Parsed(k, raw) = trustProxy(raw)
    BY <1>6, OneType DEF Default, Parsed
  <2>2. raw = "false"
    BY <2>1 DEF AsText, Bool
  <2>3. NumberOf("false") = {}
    BY NumeralAssumption DEF NumberOf
  <2> QED
    BY <2>1, <2>2, <2>3 DEF trustProxy
<1> QED
  BY <1>1, <1>2, <1>3, <1>4, <1>5, <1>6 DEF Keys

\* Every setting has one value, whichever way it is read: the namespaces agree with
\* the validated settings, for every environment
\* (configs.ts:15-17, env.schema.ts:16-28).
THEOREM SettingsReadAlike == BootSpec => []NamespacesAgree
<1>1. NamespacesAgree
  <2> SUFFICES ASSUME boot = "create", NEW k \in Namespaced
               PROVE  FromNamespace(processEnv, k) = settings[k]
    BY DEF NamespacesAgree
  <2>1. k \in Keys
    BY DEF Namespaced
  <2>2. processEnv = WrittenBack(environment, settings)
    BY DEF processEnv, Configured
  <2>3. /\ k \in DOMAIN processEnv
        /\ processEnv[k] = IF k \in DOMAIN environment THEN environment[k]
                                                       ELSE AsText(settings[k])
    BY <2>1, <2>2 DEF WrittenBack, FilledIn
  <2>4. settings[k] = Value(environment, k)
    BY <2>1 DEF settings, Settings
  <2>5. CASE k \in DOMAIN environment
    BY <2>3, <2>4, <2>5 DEF FromNamespace, Value
  <2>6. CASE k \notin DOMAIN environment
    <3>1. settings[k] = Default(k)
      BY <2>4, <2>6 DEF Value
    <3>2. Parsed(k, processEnv[k]) = {Default(k)}
      BY <2>1, <2>3, <2>6, <3>1, DefaultSurvives
    <3> QED
      BY <2>3, <3>1, <3>2 DEF FromNamespace, Value
  <2> QED
    BY <2>5, <2>6
<1> QED
  BY <1>1, PTL

-----------------------------------------------------------------------------
(* Shutdown *)

Phases == {"creating", "serving", "subscriber", "client", "tracer", "draining",
           "closing", "ended", "killed", "aborted"}

ShutdownTypeOK ==
  /\ phase \in Phases
  /\ request \in [RequestIds -> {"none", "guard", "handler", "queued", "answered"}]

\* Before the process serves there are no requests, and once the server has been
\* closed none is left.
Settled ==
  /\ phase \in {"creating", "killed"} => \A r \in RequestIds : request[r] = "none"
  /\ phase \in {"closing", "ended"} => \A r \in RequestIds : request[r] \in {"none", "answered"}

ShutdownInv == ShutdownTypeOK /\ Settled

\* A step of one request keeps the invariant: Accept comes only while the server
\* accepts, and an accepted request takes no step once the others have settled.
LEMMA RequestStep ==
  ASSUME ShutdownInv, NEW r \in RequestIds, Accept(r) \/ RequestSteps(r)
  PROVE  ShutdownInv'
<1> USE DEF ShutdownInv, ShutdownTypeOK, Settled
<1>1. CASE Accept(r)
  BY <1>1 DEF Accept, Accepting
<1>2. CASE PassGuard(r)
  BY <1>2 DEF PassGuard
<1>3. CASE Handle(r)
  BY <1>3 DEF Handle
<1>4. CASE Dequeue(r)
  BY <1>4 DEF Dequeue
<1> QED BY <1>1, <1>2, <1>3, <1>4 DEF RequestSteps

\* A step of the boot or of the shutdown keeps the invariant.
LEMMA PhaseStep ==
  ASSUME ShutdownInv, FinishBoot \/ Terminate \/ Flushed \/ ShutdownSteps
  PROVE  ShutdownInv'
<1> USE DEF ShutdownInv, ShutdownTypeOK, Settled, Phases
<1>1. CASE FinishBoot
  BY <1>1 DEF FinishBoot
<1>2. CASE Terminate
  BY <1>2 DEF Terminate
<1>3. CASE Flushed
  BY <1>3 DEF Flushed
<1>4. ASSUME NEW c \in Connections, Quit(c) \/ QuitEnds(c)
      PROVE  ShutdownInv'
  BY <1>4 DEF Quit, QuitEnds, NextHook, Connections
<1>5. CASE GoOn
  BY <1>5 DEF GoOn
<1>6. CASE Drained
  BY <1>6 DEF Drained
<1>7. CASE End
  BY <1>7 DEF End
<1> QED BY <1>1, <1>2, <1>3, <1>4, <1>5, <1>6, <1>7 DEF ShutdownSteps

\* Every step keeps the invariant.
LEMMA ShutdownStep ==
  ASSUME ShutdownInv, [ShutdownNext]_shutdownVars
  PROVE  ShutdownInv'
<1>1. CASE UNCHANGED <<phase, request>>
  BY <1>1 DEF ShutdownInv, ShutdownTypeOK, Settled
<1>2. RedisAway \/ RedisBack \/ Subscribe \/ UNCHANGED shutdownVars
        => UNCHANGED <<phase, request>>
  BY DEF RedisAway, RedisBack, Subscribe, shutdownVars
<1>3. (\E c \in Connections : Lose(c) \/ Reconnect(c)) => UNCHANGED <<phase, request>>
  BY DEF Lose, Reconnect
<1> QED BY <1>1, <1>2, <1>3, RequestStep, PhaseStep DEF ShutdownNext

\* When the server has been closed every accepted request is answered, and a
\* process that is killed before it serves has none
\* (bootstrap.ts:179-184, redis.client.ts:127-134).
THEOREM NobodyCutOff == ShutdownSpec => []NobodyIsCutOff
<1>1. ShutdownInit => ShutdownInv
  BY DEF ShutdownInit, ShutdownInv, ShutdownTypeOK, Settled, Phases
<1>2. ShutdownInv /\ [ShutdownNext]_shutdownVars => ShutdownInv'
  BY ShutdownStep
<1>3. ShutdownInv => NobodyIsCutOff
  BY DEF ShutdownInv, Settled, NobodyIsCutOff
<1> QED BY <1>1, <1>2, <1>3, PTL DEF ShutdownSpec

-----------------------------------------------------------------------------
(* Cron jobs *)

\* The flag is up exactly while an execution is under way. This is what makes
\* the guard of RunJob strong enough: JobsNeverOverlap alone is not inductive.
FlagTellsTheTruth == withoutOverlapping => (isRunning <=> active # {})

JobInv == JobTypeOK /\ FlagTellsTheTruth /\ JobsNeverOverlap

\* Every step of the job keeps the flag, the slots and the timer consistent.
LEMMA JobStep ==
  ASSUME JobInv, [JobNext]_jobVars
  PROVE  JobInv'
<1> USE DEF JobInv, JobTypeOK, FlagTellsTheTruth, JobsNeverOverlap
<1>1. CASE onApplicationBootstrap
  BY <1>1 DEF onApplicationBootstrap
<1>2. CASE StopJob
  BY <1>2 DEF StopJob
<1>3. ASSUME NEW s \in Slots, RunJob(s)
      PROVE  JobInv'
  <2>1. JobTypeOK'
    BY <1>3 DEF RunJob
  <2>2. FlagTellsTheTruth'
    BY <1>3 DEF RunJob
  <2>3. withoutOverlapping => active = {}
    BY <1>3 DEF RunJob
  <2>4. JobsNeverOverlap'
    BY <1>3, <2>3 DEF RunJob
  <2> QED BY <2>1, <2>2, <2>4
<1>4. ASSUME NEW s \in Slots, JobSettles(s)
      PROVE  JobInv'
  <2>1. JobTypeOK'
    BY <1>4 DEF JobSettles
  <2>2. withoutOverlapping => active' = {}
    BY <1>4 DEF JobSettles
  <2>3. FlagTellsTheTruth'
    BY <1>4, <2>2 DEF JobSettles
  <2>4. JobsNeverOverlap'
    BY <1>4, <2>2 DEF JobSettles
  <2> QED BY <2>1, <2>3, <2>4
<1>5. CASE UNCHANGED jobVars
  BY <1>5 DEF jobVars
<1> QED BY <1>1, <1>2, <1>3, <1>4, <1>5 DEF JobNext

\* The flag tells at all times whether an execution is under way
\* (cron-job.abstract.ts:12, 37-45).
THEOREM JobInvariant == JobSpec => []JobInv
<1>1. JobInit => JobInv
  BY DEF JobInit, JobInv, JobTypeOK, FlagTellsTheTruth, JobsNeverOverlap
<1>2. JobInv /\ [JobNext]_jobVars => JobInv'
  BY JobStep
<1> QED BY <1>1, <1>2, PTL DEF JobSpec

\* No two executions of a job without overlapping are ever under way
\* (cron-job.abstract.ts:30-45).
THEOREM NeverOverlaps == JobSpec => []JobsNeverOverlap
<1>1. JobInv => JobsNeverOverlap
  BY DEF JobInv
<1> QED BY <1>1, JobInvariant, PTL

=============================================================================
