------------------------------ MODULE MCRedis ------------------------------
(* The parts of RedisClient that share nothing but the connection to which  *)
(* each of them lets anything happen, checked one at a time: `part` says    *)
(* which one runs, the others stay at rest.                                 *)
EXTENDS RedisLock, RedisConnection, RedisPubSub, RedisPipeline

VARIABLE part

redisVars == <<lockVars, connectionVars, pubSubVars, pipelineVars, part>>

Init ==
  /\ part \in {"lock", "connection", "pubsub", "pipeline"}
  /\ LockInit /\ (part # "lock" => safe = [t \in Takers |-> FALSE])
  /\ ConnectionInit /\ (part # "connection" => reachable /\ ~required)
  /\ PubSubInit
  /\ PipelineInit /\ (part # "pipeline" => ~lenient)

OnlyLock ==
  part = "lock" /\ UNCHANGED <<connectionVars, pubSubVars, pipelineVars, part>>

OnlyConnection ==
  part = "connection" /\ UNCHANGED <<lockVars, pubSubVars, pipelineVars, part>>

OnlyPubSub ==
  part = "pubsub" /\ UNCHANGED <<lockVars, connectionVars, pipelineVars, part>>

OnlyPipeline ==
  part = "pipeline" /\ UNCHANGED <<lockVars, connectionVars, pubSubVars, part>>

Next ==
  \/ OnlyLock /\ LockNext
  \/ OnlyConnection /\ ConnectionNext
  \/ OnlyPubSub /\ PubSubNext
  \/ OnlyPipeline /\ PipelineNext

\* The fairness of LockSpec and ConnectionSpec, for the part that runs.
Fairness ==
  /\ WF_redisVars(OnlyLock /\ ExpireLock)
  /\ WF_redisVars(OnlyConnection /\ Connect)
  /\ WF_redisVars(OnlyConnection /\ InitSteps)
  /\ \A k \in Outages : WF_redisVars(OnlyConnection /\ CallbackSettles(k))

Spec == Init /\ [][Next]_redisVars /\ Fairness
=============================================================================
