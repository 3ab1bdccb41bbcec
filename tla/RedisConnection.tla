-------------------------- MODULE RedisConnection --------------------------
(***************************************************************************)
(* The main connection of RedisClient: the boot hook that opens it, the    *)
(* reconnect strategy, the callbacks to be run after a reconnection, and   *)
(* the shutdown hook. The callbacks of one outage are awaited one after    *)
(* the other, while the connection may go down and come back again: several*)
(* runs over the same array are then under way at once.                    *)
(*                                                                         *)
(* node-redis, external: connect() tries until it succeeds, asking the     *)
(* strategy how long to wait after each failure; it fails only if the      *)
(* strategy returns something that is no number. quit() stops the attempts *)
(* and returns when Redis has answered QUIT.                               *)
(***************************************************************************)
EXTENDS Integers, Sequences, FiniteSets

CONSTANTS
  Callbacks,      \* callbacks that may be registered with onReconnected
  FastRetries,    \* REDIS_FAST_RETRIES
  SlowInterval,   \* REDIS_SLOW_RETRY_INTERVAL, in milliseconds
  MaxOutages      \* bound on the outages of a behaviour

ASSUME RetryAssumption == FastRetries \in Nat /\ SlowInterval \in Nat

VARIABLES
  reachable,     \* whether Redis accepts connections
  client,        \* "new", "connecting", "ready", "refused" or "closed"
  retries,       \* failed attempts of this outage, up to the slow phase
  delay,         \* what the strategy returned last, 0 when connected
  wasConnected,
  reconnectedCallbacks,
  outages,       \* connections lost so far
  run,           \* run[k]: position of the callback that the run after outage
                 \* k awaits, 0 when it has ended or not begun
  called,        \* called[c]: the outages after which c has been called
  since,         \* since[c]: the last outage over when c was registered (history)
  required,      \* REDIS_REQUIRED
  init,          \* "idle", "connect", "ping", "ok", "cacheless" or "threw"
  stopping       \* "no", "quitting" or "stopped"

connectionVars == <<reachable, client, retries, delay, wasConnected,
                    reconnectedCallbacks, outages, run, called, since, required,
                    init, stopping>>

runVars == <<reconnectedCallbacks, run, called, since>>
clientVars == <<client, retries, delay, wasConnected, outages>>

Outages == 0..MaxOutages

ConnectionInit ==
  /\ reachable \in BOOLEAN
  /\ client = "new"
  /\ retries = 0 /\ delay = 0
  /\ wasConnected = FALSE
  /\ reconnectedCallbacks = <<>>
  /\ outages = 0
  /\ run = [k \in Outages |-> 0]
  /\ called = [c \in Callbacks |-> {}]
  /\ since = [c \in Callbacks |-> MaxOutages]
  /\ required \in BOOLEAN
  /\ init = "idle"
  /\ stopping = "no"

-----------------------------------------------------------------------------
(* reconnectStrategy *)

\* Math.random() * 100, rounded down: its extremes decide every comparison.
Jitters == {0, 99}

AtMost(a, b) == IF a < b THEN a ELSE b

\* Mutant of ReconnectDelay: the exponential delay has no upper limit.
Unlimited(r, jitter) ==
  IF r <= FastRetries THEN 2^r * 100 + jitter ELSE SlowInterval

\* How long to wait after the r-th failed attempt.
ReconnectDelay(r, jitter) ==
  IF r <= FastRetries THEN AtMost(2^r * 100 + jitter, 5000) ELSE SlowInterval

\* Mutant of TriesAgain: the strategy gives up after the fast retries.
GivesUp(r) == r <= FastRetries

\* Whether there is another attempt at all: the strategy always returns a number.
TriesAgain(r) == TRUE

-----------------------------------------------------------------------------
(* The callbacks *)

\* Position i of the run after outage k begins, or the run ends there. The array
\* is read anew at every position: what was registered meanwhile is called too.
CallAt(k, i) ==
  \/ /\ i <= Len(reconnectedCallbacks)
     /\ run' = [run EXCEPT ![k] = i]
     /\ called' = [called EXCEPT ![reconnectedCallbacks[i]] = @ \cup {k}]
  \/ /\ i > Len(reconnectedCallbacks)
     /\ run' = [run EXCEPT ![k] = 0]
     /\ UNCHANGED called

OnReconnected(c) ==
  /\ \A i \in 1..Len(reconnectedCallbacks) : reconnectedCallbacks[i] # c
  /\ reconnectedCallbacks' = Append(reconnectedCallbacks, c)
  /\ since' = [since EXCEPT ![c] = IF client = "ready" THEN outages ELSE outages - 1]
  /\ UNCHANGED <<reachable, clientVars, run, called, required, init, stopping>>

\* Mutant of CallbackSettles: an exception leaves the loop.
CallbackSettlesOrEnds(k) ==
  /\ run[k] > 0
  /\ \/ CallAt(k, run[k] + 1)
     \/ run' = [run EXCEPT ![k] = 0] /\ UNCHANGED called
  /\ UNCHANGED <<reachable, clientVars, reconnectedCallbacks, since, required, init,
                 stopping>>

\* The callback that a run awaits returns or throws; both lead to the next one.
CallbackSettles(k) ==
  /\ run[k] > 0
  /\ CallAt(k, run[k] + 1)
  /\ UNCHANGED <<reachable, clientVars, reconnectedCallbacks, since, required, init,
                 stopping>>

\* The 'ready' handler.
OnReady ==
  /\ wasConnected' = TRUE
  /\ IF wasConnected /\ reconnectedCallbacks # <<>>
       THEN CallAt(outages, 1)
       ELSE UNCHANGED <<run, called>>
  /\ UNCHANGED <<reconnectedCallbacks, since>>

-----------------------------------------------------------------------------
(* The connection *)

\* onModuleInit: connect() is called and awaited.
OnModuleInit ==
  /\ init = "idle" /\ client = "new"
  /\ init' = "connect" /\ client' = "connecting"
  /\ UNCHANGED <<reachable, retries, delay, wasConnected, outages, runVars,
                 required, stopping>>

\* What follows a failed attempt r: the next one after a delay, or the end.
AfterFailure(r) ==
  \/ /\ TriesAgain(r)
     /\ client' = "connecting"
     /\ \E jitter \in Jitters : delay' = ReconnectDelay(r, jitter)
  \/ ~TriesAgain(r) /\ client' = "refused" /\ delay' = 0

AttemptFails ==
  /\ client = "connecting" /\ stopping = "no" /\ ~reachable
  /\ AfterFailure(retries)
  /\ retries' = AtMost(retries + 1, FastRetries + 1)
  /\ UNCHANGED <<reachable, wasConnected, outages, runVars, required, init, stopping>>

AttemptSucceeds ==
  /\ client = "connecting" /\ stopping = "no" /\ reachable
  /\ client' = "ready"
  /\ retries' = 0 /\ delay' = 0
  /\ OnReady
  /\ UNCHANGED <<reachable, outages, required, init, stopping>>

\* The connection is lost; the library asks the strategy whether to go on, and
\* tries at once.
ConnectionLost ==
  /\ client = "ready" /\ outages < MaxOutages
  /\ outages' = outages + 1
  /\ retries' = 0
  /\ client' = (IF TriesAgain(0) THEN "connecting" ELSE "refused")
  /\ delay' = 0
  /\ UNCHANGED <<reachable, wasConnected, runVars, required, init, stopping>>

RedisComes ==
  /\ ~reachable /\ reachable' = TRUE
  /\ UNCHANGED <<clientVars, runVars, required, init, stopping>>

\* Redis goes; an established connection notices by ConnectionLost.
RedisGoes ==
  /\ reachable /\ outages < MaxOutages /\ reachable' = FALSE
  /\ UNCHANGED <<clientVars, runVars, required, init, stopping>>

\* connect() has resolved: PING is sent.
InitConnected ==
  /\ init = "connect" /\ client = "ready"
  /\ init' = "ping"
  /\ UNCHANGED <<reachable, clientVars, runVars, required, stopping>>

\* connect() or the PING has failed: whether that stops the boot.
InitFails == init' = IF required THEN "threw" ELSE "cacheless"

InitPing ==
  /\ init = "ping"
  /\ \/ client = "ready" /\ init' = "ok"
     \/ client # "ready" /\ InitFails
  /\ UNCHANGED <<reachable, clientVars, runVars, required, stopping>>

InitRefused ==
  /\ init = "connect" /\ client = "refused"
  /\ InitFails
  /\ UNCHANGED <<reachable, clientVars, runVars, required, stopping>>

\* onModuleDestroy, after the subscriber's QUIT (RedisPubSub).
Quit ==
  /\ init \in {"ok", "cacheless"} /\ stopping = "no"
  /\ stopping' = "quitting"
  /\ UNCHANGED <<reachable, clientVars, runVars, required, init>>

QuitAnswered ==
  /\ stopping = "quitting" /\ client = "ready"
  /\ stopping' = "stopped" /\ client' = "closed"
  /\ UNCHANGED <<reachable, retries, delay, wasConnected, outages, runVars,
                 required, init>>

Connect == AttemptFails \/ AttemptSucceeds

InitSteps == OnModuleInit \/ InitConnected \/ InitPing \/ InitRefused

ConnectionNext ==
  \/ Connect \/ ConnectionLost \/ RedisComes \/ RedisGoes
  \/ InitSteps \/ Quit \/ QuitAnswered
  \/ \E c \in Callbacks : OnReconnected(c)
  \/ \E k \in Outages : CallbackSettles(k)

\* Timers fire, awaited callbacks settle, and the boot goes on when its awaits
\* have settled. Nothing makes Redis come.
ConnectionFairness ==
  /\ WF_connectionVars(Connect)
  /\ WF_connectionVars(InitSteps)
  /\ \A k \in Outages : WF_connectionVars(CallbackSettles(k))

ConnectionSpec == ConnectionInit /\ [][ConnectionNext]_connectionVars /\ ConnectionFairness

-----------------------------------------------------------------------------
(* Properties *)

\* Every reconnection calls every callback registered by then, whether others
\* throw and whether the next outage begins before they have all returned; and no
\* callback runs for the first connection or for an outage that has not been
\* (redis.client.ts:82-92, 457-465).
EveryReconnectionIsAnnounced ==
  /\ [](\A c \in Callbacks : called[c] \subseteq 1..outages)
  /\ \A k \in 1..MaxOutages :
       (outages = k /\ client = "ready")
         ~> \A c \in Callbacks : since[c] < k => k \in called[c]

\* While Redis stays away the service does not try more and more often, and
\* between fast and slow retries neither (redis.client.ts:57-72).
BackoffGrows ==
  [][client = "connecting" /\ client' = "connecting" => delay' >= delay]_connectionVars

\* The slow retries have no end: whenever Redis stays reachable the client is
\* connected again and the boot hook that waits for it ends, unless the client
\* has been shut down (redis.client.ts:67, 111-125).
RedisIsFoundAgain ==
  <>[]reachable =>
    []<>(\/ stopping # "no"
         \/ client \in {"new", "ready"} /\ init \notin {"connect", "ping"})

\* The boot hook ends: with REDIS_REQUIRED the boot is refused, without it the
\* application goes on without a cache (redis.client.ts:117-123,
\* env.schema.ts:73-75).
InitEnds == init = "connect" ~> init \in {"ok", "cacheless", "threw"}

=============================================================================
