----------------------------- MODULE MCService -----------------------------
(* What the service is made of besides sessions, staff and Redis, checked   *)
(* one part at a time: `part` says which one runs, the others stay at rest. *)
EXTENDS Boot, Shutdown, CronJob, TokenLifetime, Pagination

VARIABLE part

serviceVars == <<bootVars, shutdownVars, jobVars, lifetimeVars, pageVars, part>>

-----------------------------------------------------------------------------
(* Environments: .env is absent, a developer's, or that of a deployment; the *)
(* process overrides up to two keys.                                         *)

Secret(i) == <<"a-secret-of-thirty-two-characters-1", "a-secret-of-thirty-two-characters-2",
               "a-secret-of-thirty-two-characters-3">>[i]

NoFile == [k \in {} |-> ""]

Developer ==
  [APP_ENV |-> "dev", COOKIE_SECURE |-> "false", RESPONSE_DEBUG_DETAIL |-> "true"]

Deployment ==
  [APP_ENV |-> "prod", COOKIE_SECURE |-> "true", TRUST_PROXY |-> "1",
   JWT_SECRET |-> Secret(1), REFRESH_TOKEN_SECRET |-> Secret(2), SESSION_SECRET |-> Secret(3)]

Overrides ==
  {<<"APP_ENV", "stage">>, <<"APP_ENV", "dev">>, <<"APP_ENV", "">>,
   <<"RESPONSE_DEBUG_DETAIL", "1">>, <<"RESPONSE_DEBUG_DETAIL", "0">>,
   <<"RESPONSE_DEBUG_DETAIL", "yes">>,
   <<"COOKIE_SECURE", "0">>, <<"COOKIE_SECURE", "true">>, <<"COOKIE_SAME_SITE", "none">>,
   <<"TRUST_PROXY", "true">>, <<"TRUST_PROXY", "">>, <<"TRUST_PROXY", "10.0.0.1">>,
   <<"JWT_SECRET", "short">>, <<"JWT_SECRET", Secret(2)>>, <<"SESSION_SECRET", DefaultSecret>>,
   <<"COMPRESSION_LEVEL", "10">>, <<"COMPRESSION_LEVEL", "9">>, <<"SESSION_MAX_AGE", "">>,
   <<"OTEL_ENABLED", "1">>, <<"OTEL_ENABLED", "True">>, <<"ORM_DEBUG", "0">>}

Override(pairs) ==
  [k \in {p[1] : p \in pairs} |-> (CHOOSE p \in pairs : p[1] = k)[2]]

MCEnvironments ==
  {[process |-> Override(pairs), file |-> f] :
     pairs \in {{}} \cup {{p, q} : p, q \in Overrides},
     f \in {NoFile, Developer, Deployment}}

Nested(n, i) == [j \in 1..n |-> IF j = i THEN "sensitive" ELSE "plain"]

MCRequests ==
  {Request(TRUE, "foreign", Nested(1, 1), <<"ok", 200>>)}
    \cup {Request(FALSE, "none", Nested(2, 2), outcome) : outcome \in Outcomes}
    \cup {Request(TRUE, "allowed", body, <<"error", 500>>) :
            body \in {<<>>, Nested(1, 1), Nested(3, 1), Nested(8, 8), Nested(9, 9), Nested(9, 0)}}

-----------------------------------------------------------------------------
(* Durations *)

Duration(halves, unit) == [halves |-> halves, unit |-> unit]

MCDurations ==
  {Duration(0, "s"), Duration(120, "s"), Duration(30, "m"), Duration(3, "h"), Duration(8, "h"),
   Duration(2, "d"), Duration(1800, "none"), Duration(4, "w"), Duration(60, "days")}

\* Fifteen minutes and a day: every duration is tried beside one of them.
Usual == {Duration(30, "m"), Duration(2, "d")}

-----------------------------------------------------------------------------

OneOf(S) == CHOOSE x \in S : TRUE

Init ==
  /\ part \in {"boot", "process", "cron", "lifetime", "pages"}
  /\ BootInit /\ (part # "boot" => file = NoFile /\ environment = NoFile /\ applied = 0)
  /\ ShutdownInit /\ (part # "process" => sdk = FALSE)
  /\ JobInit /\ (part # "cron" => withoutOverlapping = FALSE)
  /\ LifetimeInit
  /\ accessLife \in Usual \/ refreshLife \in Usual
  /\ part # "lifetime" => accessLife = refreshLife /\ accessLife = OneOf(Usual)
  /\ PageInit
  /\ part # "pages" => inScope = {} /\ how = "cursor" /\ \A r \in Rows : createdAt[r] = 0

OnlyBoot == part = "boot" /\ UNCHANGED <<shutdownVars, jobVars, lifetimeVars, pageVars, part>>
OnlyProcess == part = "process" /\ UNCHANGED <<bootVars, jobVars, lifetimeVars, pageVars, part>>
OnlyCron == part = "cron" /\ UNCHANGED <<bootVars, shutdownVars, lifetimeVars, pageVars, part>>
OnlyLifetime == part = "lifetime" /\ UNCHANGED <<bootVars, shutdownVars, jobVars, pageVars, part>>
OnlyPages == part = "pages" /\ UNCHANGED <<bootVars, shutdownVars, jobVars, lifetimeVars, part>>

Next ==
  \/ OnlyBoot /\ BootNext
  \/ OnlyProcess /\ ShutdownNext
  \/ OnlyCron /\ JobNext
  \/ OnlyLifetime /\ LifetimeNext
  \/ OnlyPages /\ PageNext

\* The fairness of ShutdownSpec and JobSpec, for the part that runs.
Fairness ==
  /\ \A c \in Connections : WF_serviceVars(OnlyProcess /\ Reconnect(c))
  /\ \A r \in RequestIds : WF_serviceVars(OnlyProcess /\ RequestSteps(r))
  /\ WF_serviceVars(OnlyProcess /\ ShutdownSteps)
  /\ WF_serviceVars(OnlyCron /\ \E s \in Slots : RunJob(s))
  /\ \A s \in Slots : WF_serviceVars(OnlyCron /\ JobSettles(s))

Spec == Init /\ [][Next]_serviceVars /\ Fairness
=============================================================================
