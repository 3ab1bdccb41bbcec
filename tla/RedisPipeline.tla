--------------------------- MODULE RedisPipeline ---------------------------
(***************************************************************************)
(* The two adapters of RedisClient over multi().execAsPipeline() of        *)
(* node-redis: commands are collected, written one after the other without *)
(* MULTI, and answered one by one. Redis may answer any of them with an    *)
(* error, the connection may end after any of them, and a builder may be   *)
(* executed again: it still holds its commands.                            *)
(***************************************************************************)
EXTENDS Naturals, Sequences

CONSTANTS
  MaxCommands,  \* bound on the commands of a pipeline
  MaxExecs      \* bound on the executions of a builder

VARIABLES
  commands,   \* the commands of the builder
  lenient,    \* TRUE for safePipeline(), FALSE for pipeline()
  up,         \* isReady
  execs,      \* executions begun
  running,    \* whether one is being executed
  executed,   \* what Redis has executed of it, each with its reply
  result      \* what exec() returned: entries [error, of], or "void" entries

pipelineVars == <<commands, lenient, up, execs, running, executed, result>>

\* del() of no keys is a command that Redis refuses.
Verbs == {"set", "get", "del", "del nothing", "expire"}

PipelineInit ==
  /\ commands = <<>>
  /\ lenient \in BOOLEAN
  /\ up = TRUE
  /\ execs = 0 /\ running = FALSE
  /\ executed = <<>>
  /\ result = <<>>

-----------------------------------------------------------------------------

\* set, get, del and expire of both adapters return the builder itself.
Add(verb) ==
  /\ execs = 0 /\ Len(commands) < MaxCommands
  /\ commands' = Append(commands, verb)
  /\ UNCHANGED <<lenient, up, execs, running, executed, result>>

\* exec() of the raw adapter writes, or waits for a connection to write to; the
\* safe one returns at once when there is none.
Exec ==
  /\ ~running /\ execs < MaxExecs /\ commands # <<>>
  /\ execs' = execs + 1
  /\ executed' = <<>> /\ result' = <<>>
  /\ running' = (up \/ ~lenient)
  /\ UNCHANGED <<commands, lenient, up>>

\* GET fails on a key that holds no string.
Replies(verb) ==
  CASE verb = "del nothing" -> {"error"}
    [] verb = "get"         -> {"ok", "error"}
    [] OTHER                -> {"ok"}

RedisExecutes ==
  /\ running /\ up /\ Len(executed) < Len(commands)
  /\ \E reply \in Replies(commands[Len(executed) + 1]) :
       executed' = Append(executed, [of |-> Len(executed) + 1, reply |-> reply])
  /\ UNCHANGED <<commands, lenient, up, execs, running, result>>

Failed(s) == \E i \in 1..Len(s) : s[i].reply = "error"

\* Mutant of ErrorResult: the failure becomes an empty list.
SilentResult == <<>>

\* What exec() makes of an error: one entry for the whole pipeline, or nothing.
ErrorResult == IF lenient THEN <<>> ELSE <<[error |-> TRUE, of |-> 0]>>

\* All replies are there. One error rejects the promise of all of them (already
\* when it arrives; what Redis executes after it makes no difference then).
Settle ==
  /\ running /\ Len(executed) = Len(commands)
  /\ running' = FALSE
  /\ result' = IF Failed(executed) THEN ErrorResult
               ELSE IF lenient THEN <<>>
               ELSE [i \in 1..Len(executed) |-> [error |-> FALSE, of |-> executed[i].of]]
  /\ UNCHANGED <<commands, lenient, up, execs, executed>>

\* The connection ends, between executions or in one: what has not been written
\* waits, what has is rejected with what Redis has executed of it.
PipelineDown ==
  /\ up /\ up' = FALSE
  /\ \/ ~(running /\ executed # <<>>) /\ UNCHANGED <<running, result>>
     \/ running /\ running' = FALSE /\ result' = ErrorResult
  /\ UNCHANGED <<commands, lenient, execs, executed>>

PipelineUp ==
  /\ ~up /\ up' = TRUE
  /\ UNCHANGED <<commands, lenient, execs, running, executed, result>>

PipelineNext ==
  \/ \E verb \in Verbs : Add(verb)
  \/ Exec \/ RedisExecutes \/ Settle
  \/ PipelineDown \/ PipelineUp

PipelineSpec == PipelineInit /\ [][PipelineNext]_pipelineVars

-----------------------------------------------------------------------------
(* Properties *)

\* What the raw exec() returns can be relied on: without an error in it, every
\* command of the builder has been executed, in order, and the i-th entry is
\* the reply to the i-th command; a failure is reported even when all but one
\* command took effect (redis.client.ts:496-503).
PipelineTellsTheTruth ==
  ~lenient /\ execs > 0 /\ ~running =>
    \/ \E i \in 1..Len(result) : result[i].error
    \/ /\ Len(result) = Len(commands) /\ Len(executed) = Len(commands)
       /\ \A i \in 1..Len(result) : result[i].of = i /\ executed[i].reply = "ok"

=============================================================================
