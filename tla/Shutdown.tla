------------------------------ MODULE Shutdown ------------------------------
(***************************************************************************)
(* A process from its boot to its end: requests, the connections to Redis, *)
(* and the shutdown that a signal starts. enableShutdownHooks, called by   *)
(* bootstrap.ts just before listen, makes NestJS call onModuleDestroy      *)
(* (RedisClient), then beforeApplicationShutdown (OtelShutdownService),    *)
(* then close the server, which stops accepting and waits for the requests *)
(* under way, then onApplicationShutdown; and then end the process. If one *)
(* of the hooks throws, NestJS exits at once.                              *)
(*                                                                         *)
(* node-redis, external: quit() stops all attempts to reconnect, refuses   *)
(* further commands, and returns when QUIT is answered; commands sent to a *)
(* client that reconnects wait until it has.                               *)
(*                                                                         *)
(* A signal between enableShutdownHooks and the end of listen is left out. *)
(***************************************************************************)
EXTENDS Integers

CONSTANTS
  RequestIds,  \* bound on the requests
  MaxOutages   \* bound on the times Redis goes away

VARIABLES
  phase,     \* "creating", "serving"; the hooks "subscriber", "client", "tracer";
             \* "draining", "closing"; "ended", "killed" or "aborted"
  redisUp,
  conn,      \* conn[c]: "none", "ready", "reconnecting", "quitting", "stranded",
             \* "closed", of the client and of the subscriber
  sdk,       \* the tracer has been started
  request,   \* request[r]: "none", "guard", "handler", "queued", "answered"
  outages

shutdownVars == <<phase, redisUp, conn, sdk, request, outages>>

Connections == {"client", "subscriber"}

ShutdownInit ==
  /\ phase = "creating"
  /\ redisUp = TRUE
  /\ conn = [client |-> "ready", subscriber |-> "none"]
  /\ sdk \in BOOLEAN
  /\ request = [r \in RequestIds |-> "none"]
  /\ outages = 0

Gone == phase \in {"ended", "killed", "aborted"}

-----------------------------------------------------------------------------
(* Redis *)

RedisAway ==
  /\ redisUp /\ outages < MaxOutages /\ ~Gone
  /\ redisUp' = FALSE /\ outages' = outages + 1
  /\ UNCHANGED <<phase, conn, sdk, request>>

RedisBack ==
  /\ ~redisUp /\ redisUp' = TRUE
  /\ UNCHANGED <<phase, conn, sdk, request, outages>>

Lose(c) ==
  /\ conn[c] = "ready" /\ ~redisUp /\ ~Gone
  /\ conn' = [conn EXCEPT ![c] = "reconnecting"]
  /\ UNCHANGED <<phase, redisUp, sdk, request, outages>>

Reconnect(c) ==
  /\ conn[c] = "reconnecting" /\ redisUp /\ ~Gone
  /\ conn' = [conn EXCEPT ![c] = "ready"]
  /\ UNCHANGED <<phase, redisUp, sdk, request, outages>>

\* The first subscription of the application.
Subscribe ==
  /\ conn["subscriber"] = "none" /\ phase = "serving" /\ conn["client"] = "ready"
  /\ conn' = [conn EXCEPT !["subscriber"] = "ready"]
  /\ UNCHANGED <<phase, redisUp, sdk, request, outages>>

-----------------------------------------------------------------------------
(* Requests *)

Accepting == phase \in {"serving", "subscriber", "client", "tracer"}

Accept(r) ==
  /\ Accepting /\ request[r] = "none"
  /\ request' = [request EXCEPT ![r] = "guard"]
  /\ UNCHANGED <<phase, redisUp, conn, sdk, outages>>

\* Mutant of PassGuard: the guard uses get, which waits for the connection.
PassGuardWaiting(r) ==
  /\ request[r] = "guard" /\ ~Gone /\ conn["client"] # "reconnecting"
  /\ request' = [request EXCEPT ![r] = "handler"]
  /\ UNCHANGED <<phase, redisUp, conn, sdk, outages>>

\* AuthGuard looks at the blocklist by safeGet, which never waits for a connection:
\* the request is answered with 401 or goes on.
PassGuard(r) ==
  /\ request[r] = "guard" /\ ~Gone
  /\ request' \in {[request EXCEPT ![r] = s] : s \in {"handler", "answered"}}
  /\ UNCHANGED <<phase, redisUp, conn, sdk, outages>>

\* The handler ends; or it sends a command that no isReady stands before, as the
\* full health check and the login do, and that has to wait.
Handle(r) ==
  /\ request[r] = "handler" /\ ~Gone
  /\ \/ request' = [request EXCEPT ![r] = "answered"]
     \/ conn["client"] = "reconnecting" /\ request' = [request EXCEPT ![r] = "queued"]
  /\ UNCHANGED <<phase, redisUp, conn, sdk, outages>>

\* The command is sent after all.
Dequeue(r) ==
  /\ request[r] = "queued" /\ ~Gone
  /\ conn["client"] \in {"ready", "quitting", "closed"}
  /\ request' = [request EXCEPT ![r] = "answered"]
  /\ UNCHANGED <<phase, redisUp, conn, sdk, outages>>

-----------------------------------------------------------------------------
(* The shutdown *)

\* enableShutdownHooks and listen.
FinishBoot ==
  /\ phase = "creating"
  /\ phase' = "serving"
  /\ UNCHANGED <<redisUp, conn, sdk, request, outages>>

\* Mutant of Terminate: enableShutdownHooks is not called.
TerminateUnhooked ==
  /\ phase \in {"creating", "serving"}
  /\ phase' = "killed"
  /\ UNCHANGED <<redisUp, conn, sdk, request, outages>>

\* SIGTERM. Without the hooks it ends the process; while they run it is ignored.
Terminate ==
  /\ \/ phase = "creating" /\ phase' = "killed"
     \/ phase = "serving" /\ phase' = "subscriber"
  /\ UNCHANGED <<redisUp, conn, sdk, request, outages>>

NextHook == [subscriber |-> "client", client |-> "tracer"]

\* RedisClient.onModuleDestroy quits the subscriber, if there is one, then the
\* client.
Quit(c) ==
  /\ phase = c
  /\ \/ conn[c] = "none" /\ phase' = NextHook[c] /\ UNCHANGED conn
     \/ conn[c] = "ready" /\ conn' = [conn EXCEPT ![c] = "quitting"] /\ UNCHANGED phase
     \/ conn[c] = "reconnecting" /\ conn' = [conn EXCEPT ![c] = "stranded"] /\ UNCHANGED phase
  /\ UNCHANGED <<redisUp, sdk, request, outages>>

QuitEnds(c) ==
  /\ phase = c /\ conn[c] = "quitting"
  /\ \/ redisUp /\ conn' = [conn EXCEPT ![c] = "closed"] /\ phase' = NextHook[c]
     \/ ~redisUp /\ conn' = [conn EXCEPT ![c] = "closed"] /\ phase' = "aborted"
  /\ UNCHANGED <<redisUp, sdk, request, outages>>

\* sdk.shutdown() settles: its error is caught.
Flushed ==
  /\ phase = "tracer" /\ sdk
  /\ phase' = "draining"
  /\ UNCHANGED <<redisUp, conn, sdk, request, outages>>

\* Mutant of GoOn: sdk.shutdown() is awaited without the timer.
GoOnIfDisabled ==
  /\ phase = "tracer" /\ ~sdk
  /\ phase' = "draining"
  /\ UNCHANGED <<redisUp, conn, sdk, request, outages>>

\* There is no SDK, or the five seconds are over.
GoOn ==
  /\ phase = "tracer"
  /\ phase' = "draining"
  /\ UNCHANGED <<redisUp, conn, sdk, request, outages>>

\* The server has been closed.
Drained ==
  /\ phase = "draining"
  /\ \A r \in RequestIds : request[r] \in {"none", "answered"}
  /\ phase' = "closing"
  /\ UNCHANGED <<redisUp, conn, sdk, request, outages>>

\* onApplicationShutdown of the ORM and of the scheduler, and the end.
End ==
  /\ phase = "closing"
  /\ phase' = "ended"
  /\ UNCHANGED <<redisUp, conn, sdk, request, outages>>

RequestSteps(r) == PassGuard(r) \/ Handle(r) \/ Dequeue(r)

ShutdownSteps ==
  (\E c \in Connections : Quit(c) \/ QuitEnds(c)) \/ GoOn \/ Drained \/ End

ShutdownNext ==
  \/ RedisAway \/ RedisBack \/ Subscribe
  \/ \E c \in Connections : Lose(c) \/ Reconnect(c)
  \/ \E r \in RequestIds : Accept(r) \/ RequestSteps(r)
  \/ FinishBoot \/ Terminate \/ Flushed \/ ShutdownSteps

\* Handlers end, timers fire, the reconnections go on, and Redis, while it is
\* there, answers. Nothing makes it stay, and nothing makes the SDK settle.
ShutdownFairness ==
  /\ \A c \in Connections : WF_shutdownVars(Reconnect(c))
  /\ \A r \in RequestIds : WF_shutdownVars(RequestSteps(r))
  /\ WF_shutdownVars(ShutdownSteps)

ShutdownSpec == ShutdownInit /\ [][ShutdownNext]_shutdownVars /\ ShutdownFairness

-----------------------------------------------------------------------------
(* Properties *)

Stranded == \E c \in Connections : conn[c] = "stranded"

\* A signal cuts nobody off: when the process has ended by the shutdown, or been
\* killed before it served, no request that was accepted is unanswered. The one
\* exception is a QUIT that Redis leaves unanswered, upon which NestJS exits
\* (bootstrap.ts:179-184, redis.client.ts:127-134).
NobodyIsCutOff ==
  phase \in {"ended", "killed"} =>
    \A r \in RequestIds : request[r] \in {"none", "answered"}

\* A shutdown ends, whether or not the tracer can deliver its spans; unless
\* Redis was away when its turn came to be quit: then nothing ends it
\* (otel-shutdown.service.ts:8-14, 31-44, redis.client.ts:127-134).
ShutdownEnds == phase = "subscriber" ~> Gone \/ Stranded

\* A request that was accepted is answered whatever becomes of Redis and of the
\* process; it waits only in the queue of a client that cannot connect
\* (auth.guard.ts:83-94, redis.client.ts:275-289, health.controller.ts:29-64).
RequestsAreAnswered ==
  \A r \in RequestIds :
    []<>(\/ request[r] \in {"none", "answered"}
         \/ phase = "aborted"
         \/ request[r] = "queued" /\ (~redisUp \/ conn["client"] = "stranded"))

=============================================================================
