------------------------------ MODULE CronJob ------------------------------
(***************************************************************************)
(* A job of CronJobAbstract (or of MikroOrmCronJobAbstract, whose handleJob *)
(* only adds a request context): the timer calls back at every tick, the   *)
(* callback runs handleJob unless the flag says that one is running. An    *)
(* execution that is under way is named by a slot; a slot is used again.   *)
(*                                                                         *)
(* A run awaits things, so ticks fall into it. It may throw. It may also   *)
(* never end: JobFairness says when that is excluded.                      *)
(***************************************************************************)
CONSTANT Slots   \* executions that may be under way at once

VARIABLES
  isRunning,           \* the flag
  withoutOverlapping,  \* the constructor's parameter
  scheduled,           \* the timer is started
  active               \* the executions whose handleJob is under way

jobVars == <<isRunning, withoutOverlapping, scheduled, active>>

JobTypeOK ==
  /\ isRunning \in BOOLEAN
  /\ withoutOverlapping \in BOOLEAN
  /\ scheduled \in BOOLEAN
  /\ active \subseteq Slots

JobInit ==
  /\ isRunning = FALSE
  /\ withoutOverlapping \in BOOLEAN
  /\ scheduled = FALSE
  /\ active = {}

\* The job is registered and its timer started.
onApplicationBootstrap ==
  /\ ~scheduled /\ active = {}
  /\ scheduled' = TRUE
  /\ UNCHANGED <<isRunning, withoutOverlapping, active>>

\* Mutant of RunJob: the flag is set after the first await of the job, that is
\* by a later step; the tick itself leaves it.
RunJobFlagLater(s) ==
  /\ scheduled /\ s \notin active
  /\ ~(withoutOverlapping /\ isRunning)
  /\ active' = active \cup {s}
  /\ UNCHANGED <<isRunning, withoutOverlapping, scheduled>>

\* A tick at which handleJob is called. A tick that is skipped changes nothing.
RunJob(s) ==
  /\ scheduled /\ s \notin active
  /\ ~(withoutOverlapping /\ isRunning)
  /\ isRunning' = TRUE
  /\ active' = active \cup {s}
  /\ UNCHANGED <<withoutOverlapping, scheduled>>

\* Mutant of JobSettles: no finally, an exception leaves the flag as it is.
JobSettlesOrThrows(s) ==
  /\ s \in active
  /\ active' = active \ {s}
  /\ isRunning' \in {FALSE, isRunning}
  /\ UNCHANGED <<withoutOverlapping, scheduled>>

\* handleJob returns or throws; the error is logged, the flag falls in finally.
JobSettles(s) ==
  /\ s \in active
  /\ active' = active \ {s}
  /\ isRunning' = FALSE
  /\ UNCHANGED <<withoutOverlapping, scheduled>>

\* The shutdown stops the timer; nobody waits for an execution under way.
StopJob ==
  /\ scheduled
  /\ scheduled' = FALSE
  /\ UNCHANGED <<isRunning, withoutOverlapping, active>>

JobNext ==
  \/ onApplicationBootstrap \/ StopJob
  \/ \E s \in Slots : RunJob(s) \/ JobSettles(s)

\* Ticks keep coming while the timer is started, and every run ends.
JobFairness ==
  /\ WF_jobVars(\E s \in Slots : RunJob(s))
  /\ \A s \in Slots : WF_jobVars(JobSettles(s))

JobSpec == JobInit /\ [][JobNext]_jobVars /\ JobFairness

-----------------------------------------------------------------------------
(* Properties *)

\* Without overlapping no two executions are ever under way, however many ticks
\* fall into one and whether it ends by an exception
\* (cron-job.abstract.ts:30-45).
JobsNeverOverlap == withoutOverlapping => \A s, t \in active : s = t

\* While the timer is started the job is run again and again: neither an
\* exception nor a skipped tick leaves the flag set for good
\* (cron-job.abstract.ts:37-45).
JobsRunAgain ==
  <>[](scheduled /\ withoutOverlapping) => []<>(active = {}) /\ []<>(active # {})

=============================================================================
